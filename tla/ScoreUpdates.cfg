SPECIFICATION FairSpec
CONSTANTS
  Games = {"soccerGame", "nbaGame"}
  Sports = {"Soccer", "NBA"}
  SportOf <- MCSportOf
  Statuses <- MCStatuses
  Overtime = {}
  Periods = {"1st", "pause", "2nd"}
  Times = {"early", "late"}
  MaxScore = 2
  Payloads <- MCPayloads
  AllScores = {"Soccer"}
  MinDifference <- MCMinDifference
  BigStatuses <- MCBigStatuses
  BigPeriods <- MCBigPeriods
  MaxQueueSize = 2
  MaxReceived = 4
  None = None
PROPERTIES
  FeedKept
  FeedCatchesUp
