CONSTANTS
  p1 = p1
  d1 = d1
  t1 = t1
  t2 = t2
  Procs = {p1, d1}
  Doorway = {d1}
  Tasks = {t1, t2}
  NoTask = NoTask
  MaxSteps = 2
  Requests <- StepRequests
  Crashes = FALSE
SPECIFICATION FairSpec
INVARIANTS
  FinishedIsComplete
  NothingAfterFailure
PROPERTIES
  IntentsFinish
