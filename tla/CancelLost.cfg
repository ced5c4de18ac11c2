SPECIFICATION DesktopSpec
CONSTANTS
  home = home
  away = away
  x = x
  y = y
  None = None
  Server = {home, away}
  MaxTokens = 9
  MaxCalls = 3
  Starts <- MCCancelStarts
  Item = {x, y}
  Stored = {x}
INVARIANTS
  CancelHeard
CHECK_DEADLOCK FALSE
