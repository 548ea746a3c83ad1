SPECIFICATION FairAnySpec
CONSTANTS
  Users = {u1, u2}
  Conversations = {c1, c2}
  Questions = {q1, q2}
  MAX_RETRY = 1
  MaxLapses = 1
  MaxRestarts = 1
  MaxShelters = 2
  MaxSteps = 2
  Given <- MCGiven
  Teams = {{"flood"}, {"wind"}, {"life"}, {"recovery"}, {"landslide", "wind"}}
  MaxPasses = 2
  MaxReadChanges = 1
  MaxInventions = 1
  Zones = {"z1", "z2", "z3"}
  Nodes = {"home", "fork", "goal"}
  Start = "home"
  Goal = "goal"
  Legs = {"out", "back", "shore", "hill", "ring"}
  To <- MCTo
  Ways <- MCWays
  Length <- MCLength
  Covers <- MCCovers
  Holds <- MCHolds
  Noticed <- MCNoticed
  MaxChanges = 2
  MaxFailures = 1
  MaxStrays = 1
  Stops = 3
  Distances = {1, 2}
  UNREACHABLE = 9
  Tiers = {1, 2}
  MaxUnreachable = 1
  MaxReads = 1
  MaxTurns = 3
  MaxOutages = 1
  Costs = {1, 3}
  Ratios = {2, 3, 4}
  MaxCalls = 3
  MaxMonths = 2
  MaxAborts = 1
  Unreadable = Unreadable
  Rows = 2
  Columns = 3
  Berths <- MCBerths
  Order <- MCOrder
  MaxWalls = 1
  MaxNear = 1
  Shelters = {1, 2}
  Callers = {1, 2}
  CACHE_S = 0
  MAX_ITEMS = 3
  MaxAsks = 2
  MaxClock = 1
  MaxWeather = 1
  None = None
INVARIANTS AnyTypeOK ConversationsApart AdviceFits HonestAnswer OneWorld SpendCounted SeaWayHolds BestOrder
PROPERTIES EveryQuestionEnds ZonesAnnounced
CHECK_DEADLOCK FALSE
