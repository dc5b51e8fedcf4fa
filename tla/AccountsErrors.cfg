SPECIFICATION SignedInSpec
CONSTANTS
  Modes = {"pages"}
  Null = Null
  Requests = {r1, r2, r3}
  Asks <- MCAsks
  Stores = {"mem", "pg"}
  Given <- MCGiven
  Serial = 3
  Now = 2
  MaxFails = 1
  Uids = {2}
  Name = "n"
  SportList <- MCSportList
  TeamList = {"t2"}
  NewTeams = {"t3"}
  TeamIds = {"t1", "t2", "t3"}
  GameIds = {"g1", "g2", "g3"}
  StartTime <- MCStartTime
  Areas <- MCAreas
  MaxWrites = 3
  Wanted <- MCWanted
  MaxQueue = 2
  Overflow = 1
  MaxBatch = 1
  MaxUpdates = 4
  Sports = {"NBA", "NFL", "MLB"}
  FavoriteLists <- MCFavoriteLists
  MaxClicks = 2
  MaxEdits = 2
  MaxOpens = 1
  MaxFailures = 1
  None = None
  Nothing = Nothing
  MaxRetries = 1
  ToastLimit = 1
  NoticeLimit = 2
  Slots = {1, 2}
  MaxErrors = 2
  MaxToasts = 1
  MaxHeard = 3
  MaxLinks = 3
  DetectedSports = {"NBA", "NFL", "MLB"}
  Absent = Absent
  Segments <- MCSegments
  Paths <- MCPaths
  CleanupIds = {"widget"}
  MaxHistory = 1
  MaxCached = 1
  MaxRequests = 3
  MaxRefreshes = 2
  MaxActs = 2
INVARIANTS
  ErrorsRecoverable
SYMMETRY Symmetry
CHECK_DEADLOCK FALSE
