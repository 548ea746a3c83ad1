SPECIFICATION FairSpec
CONSTANTS
  u1 = u1
  Residents = {u1}
  Homes = {}
  Owner <- MCOwner
  Requests = {r1}
  None = None
  LastJudgement = 1
  ReminderInterval = 1
  EscalateAfter = 2
  Recheck = 2
  MaxAnswers = 1
  MaxDeaths = 0
  MaxErrors = 1
PROPERTY HelpEscalates
CHECK_DEADLOCK FALSE
