CONSTANTS
  update = update
  clean = clean
  Firings = {f1, f2}
  Playbooks = {update, clean}
  NoPlaybook = NoPlaybook
  TierOf <- Tiers
  Contracts <- Docs
  Budget = 1
  Window = 3
  MaxTasks = 3
  good = good
  other = other
  weak = weak
  bad = bad
  v1 = v1
  v2 = v2
  Installers = {i1, i2}
  Bytes = {good, other, weak, bad}
  Schema = {good, other, weak}
  Passing = {good, other}
  NoBytes = NoBytes
  Torn = Torn
  Clients = {c1, c2}
  Entries = {e1, e2, e3, e4}
  NoEntry = NoEntry
  MaxMemories = 2
  KeysOf <- KeyNames
  Values = {v1, v2}
  NoValue = NoValue
  Runs = {r1, r2}
  NoRun = NoRun
  MaxLines = 3
  w1 = w1
  w2 = w2
  w3 = w3
  Windows = {w1, w2, w3}
  NoWindow = NoWindow
  TitleOf <- Titles
  Containing <- Contain
  Matching <- Match
  Paths = {"a", "b"}
  Packages = {"p", "q"}
  Protected = {"q"}
  MaxRuns = 2
  Machines <- Starts
  Named = {"code"}
  Globbed = {"pack"}
  Beside = {"pause"}
  MayHold <- Holds
  NoFile = NoFile
  NoBaseline = NoBaseline
SPECIFICATION ServicesSpec
VIEW View
CONSTRAINT Small
INVARIANTS
  ServicesTypeOK
  HaltHolds
  BudgetHolds
  UsedIsVetted
  MemoryBounded
  HonestUseVerifies
  DriftIsReported
  LatestIsLedgered
  AskedBeforeActing
  ReachesTarget
  ActionIsRecorded
  DoctorIsRight
  GroupIsCleanedUp
PROPERTY
  UndoRestores
CHECK_DEADLOCK FALSE
