SPECIFICATION Spec
CONSTANTS
  f1 = f1
  m1 = m1
  g1 = g1
  g2 = g2
  NTasks = 2
  Triggers = {g1, g2}
  Findings = {f1}
  Messages = {m1}
  MaxSuperseded = 1
  MaxPatchset = 2
  MaxTriggers = 2
  MaxEvents = 1
SYMMETRY TriggerSymmetry
CHECK_DEADLOCK FALSE
INVARIANTS PostedOnce LedgersAreBehind ReviewedIsPublished OneActiveRow
PROPERTY KeepsToMachine
