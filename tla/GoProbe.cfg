SPECIFICATION FairSpec
CONSTANTS
  MaxCycles = 3
INVARIANTS
  EndCutsNothing
  IdleOnlyIf
PROPERTIES
  ProbeEnds
