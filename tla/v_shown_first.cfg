CONSTANTS
  tidy = tidy
  wipe = wipe
  upgrade = upgrade
  reboot = reboot
  NoRequest = NoRequest
  Requests = {tidy, wipe}
  Profile <- ProfileOf
  MaxCalls = 4
SPECIFICATION Spec
INVARIANTS
  ShownFirst
