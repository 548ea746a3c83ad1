SPECIFICATION FairSpec
CONSTANTS
  Alerts = {a1, a2}
  MaxAnswers = 3
  MaxBreaks = 3
  MaxRestarts = 1
  Fields = {f, g}
  AiFields = {g}
  Values = {1, 2}
  Pulls = {l1}
  MaxEdits = 2
  MaxAiEdits = 1
  MaxFailures = 1
  MaxStarts = 1
  Uids = {u1, u2}
  Codes = {"carer code", "code"}
  Grants <- MCGrants
  Requests = {r1, r2}
  MaxAccounts = 3
  MaxHouses = 2
  MaxRequests = 4
  Responders = {p1, p2}
  Targets = {t1}
  MaxActs = 3
  Turns = 3
  Said <- MCSaid
  Writers = {w1, w2}
  Findable = {"a", "b", "c"}
  MaxDeletes = 1
  Users = {"u1", "u2"}
  Rows <- MCRows
  Residents = {"u2"}
  MaxDeaths = 1
  MaxLosses = 1
  MaxSwitches = 1
  Statuses = {"need_help", "evacuated"}
  MaxDrills = 1
  MaxReplies = 2
  MaxDepartures = 1
  MaxResets = 1
  MaxLost = 1
  None = None
INVARIANTS TypeOK PromiseHeld AccountsInOrder ResidentKnowsHelper ProfileIsWhatWasSaid DrillAnswerStands
PROPERTIES EditsSurvive PromisedSettled AlertsArrive
CHECK_DEADLOCK FALSE
