SPECIFICATION LiveSpec
CONSTANTS
  t1 = t1
  a1 = a1
  a2 = a2
  Tasks = {t1}
  Attempts = {a1, a2}
  TaskOf <- MCTaskOf
  PageSize = 1
  MaxPages = 2
CHECK_DEADLOCK FALSE
INVARIANT ProviderKnown
PROPERTIES AgentUndisturbed LeftIsReclaimed
