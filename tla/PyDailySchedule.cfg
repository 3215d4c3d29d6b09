SPECIFICATION Spec
CONSTANTS
  Exprs <- OnceADay
  Durations = {0, 1, 5}
  Days = 2
  FirstWday = 0
PROPERTIES
  MatchedPollFires
