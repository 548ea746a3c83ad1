SPECIFICATION BoundedSpec
CONSTANTS
  u1 = u1
  Residents = {u1}
  Homes = {h1}
  Owner <- MCOwner
  Requests = {r1}
  None = None
  LastJudgement = 2
  ReminderInterval = 1
  EscalateAfter = 2
  Recheck = 2
  MaxAnswers = 1
  MaxDeaths = 1
  MaxErrors = 1
INVARIANTS TypeOK
PROPERTIES SilentEscalates EvacuatingRechecked RecordedIsFollowed HomeTracked AnswerSticks EscalatedForReason
CHECK_DEADLOCK FALSE
