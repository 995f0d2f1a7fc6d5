SPECIFICATION LiveSpec
CONSTANTS
  k1 = k1
  k2 = k2
  h1 = h1
  h2 = h2
  h3 = h3
  Bad = Bad
  None = None
  Configs = {k1, k2}
  Children = {h1, h2, h3}
  MaxReconnects = 3
CHECK_DEADLOCK FALSE
INVARIANTS OneListener  BackfillNotForgotten
PROPERTY ListensAgain
