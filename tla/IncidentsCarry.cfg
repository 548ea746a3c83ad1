SPECIFICATION Spec
CONSTANTS
  Assessments = {1, 2}
  Hazard <- MCHazard
  Level <- MCLevel
  Area <- MCArea
  Messages = {}
  Jobs = {job}
  Polls = {poll}
  None = None
  MaxIncidents = 4
  MaxStaffActs = 0
  MaxCrashes = 0
PROPERTY CarriedIfSuccessor
CHECK_DEADLOCK FALSE
