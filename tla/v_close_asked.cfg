CONSTANTS
  w1 = w1
  w2 = w2
  w3 = w3
  Windows = {w1, w2, w3}
  NoWindow = NoWindow
  TitleOf <- Titles
  Containing <- Contain
  Matching <- Match
SPECIFICATION DesktopSpec
INVARIANTS
  CloseIsAsked
CHECK_DEADLOCK FALSE
