CONSTANTS
  p1 = p1
  p2 = p2
  t1 = t1
  t2 = t2
  t3 = t3
  Procs = {p1, p2}
  Doorway = {}
  Tasks = {t1, t2, t3}
  NoTask = NoTask
  MaxSteps = 1
  Requests <- UndoRequests
  Crashes = FALSE
SPECIFICATION Spec
SYMMETRY Symmetry
INVARIANTS
  AppliedOnce
