SPECIFICATION FairSpec
CONSTANTS
  cert = cert
  suite = suite
  tls13 = tls13
  NoSuite = NoSuite
  Assets = {cert, suite}
  Suites = {tls13}
  SuiteOf <- MCSuiteOf
  Streams = {s1, s2}
  MaxSize = 2
INVARIANTS
  TypeOK
  LoopIsAlone
  NothingLost
  CleanReturnOwesNothing
  ReportMatchesBatch
  FullIsExact
PROPERTIES
  BufferSpec
  CancelReturns
  HeldIsDelivered
  StreamsEnd
