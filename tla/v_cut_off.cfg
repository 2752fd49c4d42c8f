CONSTANTS
  d1 = d1
  t1 = t1
  Procs = {d1}
  Doorway = {d1}
  Tasks = {t1}
  NoTask = NoTask
  MaxSteps = 2
  Requests <- IntentRequests
  Crashes = FALSE
SPECIFICATION Spec
INVARIANTS
  NeverCutOff
