CONSTANTS
  tidy = tidy
  wipe = wipe
  upgrade = upgrade
  reboot = reboot
  NoRequest = NoRequest
  Requests = {wipe, upgrade, reboot}
  Profile <- ProfileOf
  MaxCalls = 4
SPECIFICATION Spec
VIEW GateView
CONSTRAINT TwoRequests
INVARIANTS
  TypeOK
  GateTwo
  PromptMatches
  OncePerAsk
  ConsentIsSpent
  PromptIsLive
