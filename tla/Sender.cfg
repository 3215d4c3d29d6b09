SPECIFICATION FairSpec
CONSTANTS
  Batches = {b1, b2}
INVARIANTS
  SuccessIsIngested
  CallIsBounded
PROPERTIES
  FailsOnlyAfterBackoffs
  KeepsPromise
