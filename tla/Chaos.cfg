SPECIFICATION SpecStorage
CONSTANTS
  a = a
  b = b
  f = f
  c1 = c1
  c2 = c2
  p1 = p1
  p2 = p2
  Name = {a, b, f}
  Wild <- AMatchesB
  Procs = {p1, p2}
  Data = {c1, c2}
  NoData = NoData
  Partial = Partial
  Torn = Torn
  Stored <- OneFile
  Requests <- PassRequests
  Faults = {"db", "disk", "stream", "drop", "crash"}
  MaxRequests = 2
  MaxFaults = 1
  PartName = {f}
  QuietRecovery = FALSE
INVARIANTS
  RecTypeOK
PROPERTIES
  PassEnds
CHECK_DEADLOCK FALSE
