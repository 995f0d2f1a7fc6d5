SPECIFICATION Spec
CONSTANTS
  t1 = t1
  t2 = t2
  t3 = t3
  r1 = r1
  r2 = r2
  r3 = r3
  k1 = k1
  s1 = s1
  s2 = s2
  d1 = d1
  d2 = d2
  p1 = p1
  Tasks = {t1, t2}
  Projects = {p1}
  Runs = {r1, r2}
  Cancels = {k1}
  Starts = {s1}
  Deletes = {d1}
  TaskOf <- MCTaskOf
  ProjectOf <- MCProjectOf
  Deleted <- MCDeleted
  Existing = {t1}
  None = None
CHECK_DEADLOCK FALSE
INVARIANTS
  DeletionRunsAlone
  AbortedByLaterCall
PROPERTY RunsInTurn
