SPECIFICATION FairSpec
CONSTANTS
  u = u
  a = a
  g = g
  None = None
  Undefined = Undefined
  Sockets = {s1, s2}
  Users = {u}
  UserOf <- MCUserOf
  Teams = {a}
  KnownTeams = {a}
  Games = {g}
  TeamsOf <- MCTeamsOf
  Updates <- MCUpdates
  ThrottleMs = 2
  KeepMs = 2
  MaxTime = 3
  MaxEdits = 1
INVARIANTS
  UnsubscribedStaysOut
PROPERTIES
  ReachesOnlyLive
  HandshakeSettles
