SPECIFICATION AnySpec
CONSTANTS
  NoData = NoData
  Stations = {s1}
  Syncers = {p1, p2}
  Rules <- MCRules
  Readings <- MCReadings
  KeepUnseen = 0
  MaxChanges = 1
  MaxAborts = 1
  Zones = {"z1"}
  KeepHours = 0
  MaxFailures = 1
INVARIANTS AnyTypeOK
PROPERTIES SoloSyncExact SameJudgementSameRow RowsConverge SilenceHolds UnknownIsNotSafe ZonesFollowOffice
CHECK_DEADLOCK FALSE
