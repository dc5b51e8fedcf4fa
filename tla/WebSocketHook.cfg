SPECIFICATION HookSpec
CONSTANTS
  Sockets = {s1, s2, s3}
  Users = {u1}
  None = None
  AutoConnect = TRUE
  AutoReconnect = TRUE
  MaxReconnectAttempts = 2
  FreshHandlers = {TRUE, FALSE}
  spare = s3
  HookModes = {"alone", "feed"}
  FeedSports = {"NFL", "NBA"}
  Messages <- MCMessages
  FilterEdits <- MCFilterEdits
  FirstFilters <- MCFirstFilters
  MaxRecentUpdates = 1
  MaxErrorHistory = 1
  MaxPageActs = 2
  MaxFeedMessages = 1
INVARIANTS
  SportsAsked
PROPERTIES
  LostIsRetried
