CONSTANTS
  p1 = p1
  local = local
  remote = remote
  NoProvider = NoProvider
  Procs = {p1}
  Providers = {local}
  Threshold = 3
  Cooldown = 2
  Commands = {"ask"}
SPECIFICATION Spec
PROPERTIES
  DeadLeftAlone
