SPECIFICATION DesktopSpec
CONSTANTS
  home = home
  away = away
  x = x
  y = y
  None = None
  Server = {home, away}
  MaxTokens = 9
  MaxCalls = 3
  Starts <- MCRaceStarts
  Item = {x, y}
  Stored = {x}
PROPERTIES
  LiveSessionKept
CHECK_DEADLOCK FALSE
