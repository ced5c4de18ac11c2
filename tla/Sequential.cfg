SPECIFICATION Spec
CONSTANTS
  a = a
  b = b
  f = f
  c1 = c1
  c2 = c2
  p1 = p1
  Name = {a, b, f}
  Wild = {}
  Procs = {p1}
  Data = {c1, c2}
  NoData = NoData
  Partial = Partial
  Torn = Torn
  Stored <- MCStored
  Requests <- LegalRequests
  Faults = {}
  TreePaths <- MCTreePaths
  MaxRequests = 4
  MaxFaults = 0
INVARIANTS
  TypeOK
  Agree
PROPERTIES
  ImplementsTree
  NoLateRefusal
CHECK_DEADLOCK FALSE
