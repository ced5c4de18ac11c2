SPECIFICATION SpecStorage
CONSTANTS
  a = a
  b = b
  f = f
  c1 = c1
  c2 = c2
  p1 = p1
  p2 = p2
  Name = {a, b, f}
  Wild = {}
  Procs = {p1}
  Data = {c1, c2}
  NoData = NoData
  Partial = Partial
  Torn = Torn
  Stored <- OneFile
  Requests <- EveryRequest
  Faults = {"db", "disk", "stream", "drop", "crash"}
  MaxRequests = 3
  MaxFaults = 3
  PartName = {}
  QuietRecovery = TRUE
INVARIANTS
  PassCleans
  TwoPassesReconcile
PROPERTIES
  PassKeepsFiles
CHECK_DEADLOCK FALSE
