SPECIFICATION Spec
CONSTANTS
  Exprs <- SeveralADay
  Durations = {0, 1, 5}
  Days = 2
  FirstWday = 0
PROPERTIES
  OncePerMinute
  MatchedPollFires
  FiresAreScheduled
  StopEndsLoop
