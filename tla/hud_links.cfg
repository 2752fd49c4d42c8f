CONSTANTS
  Tokens = {t1, t2}
  NoToken = NoToken
  MaxProbes = 2
  MaxCalls = 2
  MaxStarts = 5
  Metrics = {1, 2}
  Levels = {0, 1, 2, 3}
  Top = 3
  Unknown = Unknown
  Release = 1
  Warn = 2
  Critical = 3
  RaiseSamples = 3
  ClearSamples = 3
  Modes = {"DIAGNOSTICS", "MONITOR", "ASSISTANT"}
  Central <- CentralMetrics
  Cores <- CoreSeq
  Interfaces = {i1, i2}
  Plain = {"memory"}
  Unavailable = Unavailable
  Carried = {0, 1}
  MaxChanges = 4
SPECIFICATION HudLinksSpec
INVARIANTS
  HudLinksTypeOK
  LinkIsHeld
  NothingLeftBehind
  CentreIsRight
  ShownIsMeasured
CHECK_DEADLOCK FALSE
