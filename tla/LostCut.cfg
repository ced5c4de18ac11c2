SPECIFICATION BrowserSpec
CONSTANTS
  a = a
  f = f
  g = g
  s = s
  q1 = q1
  q2 = q2
  None = None
  Name = {a, f, g, s}
  Wild = {}
  Stored <- MCStored
  Spare = {s}
  Query = {q1, q2}
  Hit <- MCHit
  NewNames = {f, s}
  Habits <- CutHabit
  MaxLoads = 2
  MaxCalls = 2
  TreePaths <- MCTreePaths
PROPERTIES
  CutReachesServer
CHECK_DEADLOCK FALSE
