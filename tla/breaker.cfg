CONSTANTS
  p1 = p1
  p2 = p2
  local = local
  remote = remote
  NoProvider = NoProvider
  Procs = {p1, p2}
  Providers = {local, remote}
  Threshold = 2
  Cooldown = 1
  Commands = {"ask", "explain"}
SPECIFICATION Spec
CONSTRAINT RemoteWorks
INVARIANTS
  OpenIsEarned
  IInv
PROPERTIES
  StormGuard
  ExplainLeavesAlone
