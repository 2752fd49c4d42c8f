CONSTANTS
  p1 = p1
  t1 = t1
  Procs = {p1}
  Doorway = {}
  Tasks = {t1}
  NoTask = NoTask
  MaxSteps = 2
  Requests <- UpgradeRequests
  Crashes = FALSE
SPECIFICATION Spec
INVARIANTS
  SucceededRanAll
