SPECIFICATION PageSpec
CONSTANTS
  Sockets = {s1, s2}
  None = None
  AutoReconnect = TRUE
  MaxReconnectAttempts = 2
  MaxWaiting = 2
  MaxOrphans = 1
  ProviderAutoConnect = FALSE
  MaxUserActs = 3
  PageModes = {"socket", "context", "live", "feed", "loads"}
  LiveSports = {"A", "B"}
  First = "A"
  Audiences <- MCAudiences
  MaxGoals = 2
  MaxRetries = 1
  MaxFails = 1
  MaxActs = 1
  Messages <- MCMessages
  CacheSize = 2
  MaxHistory = 4
  MaxMessages = 5
  Ids = {"page", "scores"}
  MaxCalls = 5
INVARIANTS
  TransientStatesMove
  RepeatsSpaced
PROPERTIES
  Settles
  CatchesUp
  LoadingEnds
CHECK_DEADLOCK FALSE
