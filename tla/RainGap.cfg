SPECIFICATION Spec
CONSTANTS
  Zones = {"z1"}
  Amounts = {0, 2}
  Turning = {}
  Short = 2
  Long = 3
  RainRules <- MCRainRules
  KeepUnseen = 2
  TrackKept = 1
  Gaps = TRUE
  MaxHours = 3
  MaxChanges = 0
  MaxFailures = 0
PROPERTY UnknownIsNotSafe
CHECK_DEADLOCK FALSE
