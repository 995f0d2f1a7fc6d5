SPECIFICATION Spec
CONSTANTS
  w1 = w1
  w2 = w2
  w3 = w3
  c1 = c1
  a1 = a1
  a2 = a2
  i1 = i1
  p1 = p1
  p2 = p2
  Waiters = {w1, w2, w3}
  Callers = {c1}
  Agents = {a1, a2}
  Projects = {p1, p2}
  Integrations = {i1}
  NoIntegration = NoIntegration
  Drain = Drain
  None = None
  AgentOf <- MCAgentOf
  ProjectOf <- MCProjectOf
  Priority <- MCByAge
  Admissible <- MCEdited
  MaxEdits = 1
  LookupFails = TRUE
CHECK_DEADLOCK FALSE
INVARIANTS
  CountersMatchLeases
  SlotLimit
  NoLeakedLease
PROPERTY SlotsArePooled
