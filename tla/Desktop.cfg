SPECIFICATION DesktopSpec
CONSTANTS
  home = home
  away = away
  x = x
  y = y
  None = None
  Server = {home, away}
  MaxTokens = 9
  MaxCalls = 3
  Starts <- MCStarts
  Item = {x, y}
  Stored = {x}
INVARIANTS
  SessionTypeOK
  OneLogin
  StoredIsLive
  TransfersTypeOK
  NoOrphanCard
  NothingLeft
  RetryAlone
PROPERTIES
  CheckEnds
CHECK_DEADLOCK FALSE
