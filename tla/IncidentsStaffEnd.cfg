SPECIFICATION Spec
CONSTANTS
  Assessments = {1, 2}
  Hazard <- MCHazard
  Level <- MCLevel
  Area <- MCArea
  Messages = {}
  Jobs = {job}
  Polls = {}
  None = None
  MaxIncidents = 4
  MaxStaffActs = 1
  MaxCrashes = 0
PROPERTY StaffEndHolds
CHECK_DEADLOCK FALSE
