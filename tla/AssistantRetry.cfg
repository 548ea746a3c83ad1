SPECIFICATION AnySpec
CONSTANTS
  Users = {u1, u2}
  Conversations = {c1, c2}
  Questions = {q1, q2}
  MAX_RETRY = 1
  MaxLapses = 1
  MaxRestarts = 1
  MaxShelters = 0
  MaxSteps = 0
  Given <- MCGiven
  Teams = {}
  MaxPasses = 0
  MaxReadChanges = 0
  MaxInventions = 0
  Zones = {"z1", "z2", "z3"}
  Nodes = {"home", "fork", "goal"}
  Start = "home"
  Goal = "goal"
  Legs = {"out", "back", "shore", "hill", "ring"}
  To <- MCTo
  Ways <- MCWays
  Length <- MCLength
  Covers <- MCCovers
  Holds <- MCHolds
  Noticed <- MCNoticed
  MaxChanges = 0
  MaxFailures = 1
  MaxStrays = 1
  Stops = 3
  Distances = {1}
  UNREACHABLE = 9
  Tiers = {1, 2}
  MaxUnreachable = 0
  MaxReads = 1
  MaxTurns = 0
  MaxOutages = 1
  Costs = {1, 3}
  Ratios = {2, 3, 4}
  MaxCalls = 0
  MaxMonths = 2
  MaxAborts = 1
  Unreadable = Unreadable
  Rows = 2
  Columns = 3
  Berths <- MCBerths
  Order <- MCOrder
  MaxWalls = 0
  MaxNear = 0
  Shelters = {1, 2}
  Callers = {1, 2}
  CACHE_S = 1
  MAX_ITEMS = 3
  MaxAsks = 0
  MaxClock = 0
  MaxWeather = 0
  None = None
INVARIANT RetryIsReturn
CHECK_DEADLOCK FALSE
