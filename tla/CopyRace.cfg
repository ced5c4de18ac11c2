SPECIFICATION Spec
CONSTANTS
  a = a
  b = b
  f = f
  c1 = c1
  c2 = c2
  p1 = p1
  p2 = p2
  Name = {a, b, f}
  Wild = {}
  Procs = {p1, p2}
  Data = {c1, c2}
  NoData = NoData
  Partial = Partial
  Torn = Torn
  Stored <- OneFile
  Requests <- CopyRequests
  Faults = {}
  MaxRequests = 2
  MaxFaults = 0
PROPERTIES
  StillServed
CHECK_DEADLOCK FALSE
