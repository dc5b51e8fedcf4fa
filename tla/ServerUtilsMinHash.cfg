SPECIFICATION UtilitiesSpec
CONSTANTS
  Modes = {"dedup"}
  bulk1 = bulk1
  bulk2 = bulk2
  favorites = favorites
  Calls <- MCCalls
  ByClient <- MCByClient
  Items <- MCItems
  BatchSize = 2
  MaxRetries = 2
  Clients = {k1, k2}
  MaxCrashes = 1
  None = None
  a1 = a1
  a2 = a2
  t1 = t1
  c1 = c1
  c2 = c2
  Callers = {c1, c2}
  Articles = {a1, a2}
  TeamIds = {t1, t2}
  TeamOf <- MCTeamOf
  Texts <- MCAlike
  Kept = {1, 2}
  ShingleSize = 2
  NumHashes = 2
  MaxJobs = 3
  MaxPosts = 2
  MaxFailures = 1
  Unreadable = Unreadable
  RateLimit = 2
  CriticalLimit = 1
  LongWindow = 3
  History = 4
  CleanupEvery = 2
  Shown = 2
  MaxErrors = 6
  MaxTime = 7
  Leagues <- MCLeagues
  LeagueTeams <- MCLeagueTeams
  Intervals = {every30, every60}
  WorkersLimit = 1
  Attempts = 2
  MorePorts = 0
  MaxStarts = 2
  MaxEdits = 1
  MaxFaults = 1
  MaxDue = 1
SYMMETRY MCPerms
INVARIANTS
  OnlyNearDuplicates
CHECK_DEADLOCK FALSE
