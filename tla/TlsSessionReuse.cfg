SPECIFICATION Spec
CONSTANTS
  Names = {n1, n2}
  NoName = NoName
  MaxConnections = 2
  Units = {0, 1, 3, 4}
  MaxRecord = 3
  MaxData = 8
  LenBase = 16
  CertUnits = {0, 1, 15}
  MaxChain = 2
INVARIANTS
  SessionIsOfOneConnection
CHECK_DEADLOCK FALSE
