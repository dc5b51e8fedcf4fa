SPECIFICATION IngestSpec
CONSTANTS
  nba = nba
  a = a
  b = b
  g = g
  None = None
  Absent = Absent
  Workers = {w1}
  Requests = {q1}
  Sports = {nba}
  DefaultSport = nba
  Teams = {a, b}
  TeamSport <- MCTeamSport
  Games = {g}
  TeamsOf <- MCTeamsOf
  RefreshTeams <- MCRefreshTeams
  Timeline <- MCTimeline
  nfl = nfl
  u = u
  v = v
  nbaA = nbaA
  nflA = nflA
  odd = odd
  IngestModes = {"runs", "users"}
  Fetchers = {f1, f2}
  People = {u, v}
  Favorable = {nbaA, nflA, odd}
  Lists <- MCLists
  Valid = {nbaA, nflA}
  Prefix <- MCPrefix
  Code <- MCCode
  Fixtures <- MCFixtures
  Asked <- MCAsked
  Source = nba
  NoSport = NoSport
  NoEntry = NoEntry
  MaxProfileEdits = 1
  MaxFailedReads = 1
INVARIANTS
  TeamIsolation
  PgCopiesAgree
  OwnGames
PROPERTIES
  AnnouncedIsStored
  RefreshGuardReleased
