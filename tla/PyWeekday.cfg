SPECIFICATION Spec
CONSTANTS
  Exprs <- OnceAWeek
  Durations = {0, 1, 5}
  Days = 2
  FirstWday = 0
PROPERTIES
  FiresAreScheduled
