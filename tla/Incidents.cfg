SPECIFICATION FairOneSubject
CONSTANTS
  Assessments = {1, 2}
  Hazard <- MCHazard
  Level <- MCLevel
  Area <- MCArea
  Messages = {m1}
  Jobs = {job}
  Polls = {poll}
  None = None
  MaxIncidents = 5
  MaxStaffActs = 1
  MaxCrashes = 1
INVARIANTS TypeOK OneOpenIncident OneIncidentPerMessage
PROPERTIES KeepsLife RunEndsOnlyDead EvacGetsIncident IncidentsSettle
CHECK_DEADLOCK FALSE
