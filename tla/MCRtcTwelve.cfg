CONSTANTS
  PERIOD = 12
  LEAD = 8
  STEAL = 2
  MAX_UPDATES = 3
  Starts <- MCStarts
  Formats <- MCTwelveHour
SPECIFICATION Spec
CHECK_DEADLOCK FALSE
INVARIANTS
  DateTimeIsReal
