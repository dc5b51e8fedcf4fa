SPECIFICATION OutsideSpec
CONSTANTS
  c1 = c1
  c2 = c2
  None = None
  q1 = q1
  q2 = q2
  s1 = s1
  s2 = s2
  Modes = {"scraping", "database"}
  Callers = {c1, c2}
  Delay = 1
  FetchRetries = 2
  Table <- MCTable
  Pages <- MCPages
  Asks <- MCAsks
  Sites <- MCSites
  Calls = {q1, q2, q3}
  RawCalls = {q1, q2}
  Starters = {s1, s2}
  Size = 1
  QueryErrors = {"reset", "deadlock"}
  MaxPools = 2
  Threshold = 2
  Timeout = 1
  MaxRetries = 2
  MaxTime = 2
SYMMETRY MCPerms
INVARIANTS
  Answered
  ReadsTheBoard
  NoClientLost
PROPERTIES
  RobotsHeard
  Spaced
  AdmissionAfterCoolDown
\* Every database call has returned, and the clock is at its bound.
CHECK_DEADLOCK FALSE
