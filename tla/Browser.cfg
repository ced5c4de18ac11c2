SPECIFICATION BrowserSpec
CONSTANTS
  a = a
  f = f
  g = g
  s = s
  q1 = q1
  q2 = q2
  None = None
  Name = {a, f, g, s}
  Wild = {}
  Stored <- MCStored
  Spare = {s}
  Query = {q1, q2}
  Hit <- MCHit
  NewNames = {f, s}
  Habits <- MCHabits
  MaxLoads = 2
  MaxCalls = 2
  TreePaths <- MCTreePaths
INVARIANTS
  BrowserTypeOK
  LoadingTracksLatest
  HistoryHere
  FreshWhenQuiet
  ResultsMatch
PROPERTIES
  EscapeKeepsSelection
  ServerIsTree
CHECK_DEADLOCK FALSE
