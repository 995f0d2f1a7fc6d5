SPECIFICATION LiveSpec
CONSTANTS
  f1 = f1
  m1 = m1
  g1 = g1
  g2 = g2
  NTasks = 1
  Triggers = {g1}
  Findings = {f1}
  Messages = {m1}
  MaxSuperseded = 1
  MaxPatchset = 3
  MaxTriggers = 1
  MaxEvents = 1
CHECK_DEADLOCK FALSE
PROPERTIES PassEnds NewPatchsetTakenUp ClosedEnds
