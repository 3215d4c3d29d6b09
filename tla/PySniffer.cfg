SPECIFICATION FairSpec
CONSTANTS
  Assets = {a1, a2, a3}
  MaxBuf = 2
INVARIANTS
  NothingLost
  BufferIsBounded
  PatientExitOwesNothing
PROPERTIES
  SignalEndsProcess
  BufferedIsFlushed
  ReportsContinue
