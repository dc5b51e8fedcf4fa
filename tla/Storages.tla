------------------------------ MODULE Storages ------------------------------
(***************************************************************************)
(* MemStorage and PgStorage under the same calls.  What the repository     *)
(* tests, it tests on MemStorage; it says something about PgStorage only   *)
(* as far as the two answer alike.  The order of rows of one rank is       *)
(* anyone's in both, and so is which of them are cut.                      *)
(*                                                                         *)
(* The calls are those the routes, the agents and the seeds make: a        *)
(* favorite or an RSVP is added once, a team gets one index, and           *)
(* getGamesByTeamIds is asked about some team.  Each behavior works on one *)
(* area of the schema, for at most MaxWrites calls, until PostgreSQL       *)
(* rejects a write.                                                        *)
(***************************************************************************)
EXTENDS Tables

CONSTANTS
  TeamIds, GameIds,   \* the ids that callers choose; StartTime orders the games
  StartTime,          \* of each game
  Areas,              \* the tables each area starts with
  MaxWrites

Mem == INSTANCE MemStorage
Pg == INSTANCE PgStorage

\* The rows of some tables.
Columns == [
  sessions |-> [userId : Nat, expiresAt : Nat],
  userTeams |-> [userId : Nat, teamId : TeamIds],
  games |-> [homeTeamId : TeamIds, awayTeamId : TeamIds, homePts : Nat, awayPts : Nat,
             startTime : 0..All, cachedAt : Nat],
  updates |-> [teamId : TeamIds, category : {"news", "injury"}, timestamp : Nat],
  experiences |-> [teamId : TeamIds, title : {"party", "tailgate"}, startTime : Nat],
  indexes |-> [teamId : TeamIds, totalDocuments : Nat, rebuildInProgress : BOOLEAN,
               totalQueries : Nat]]

\* What the schema and the callers see to: no favorite, RSVP or index twice, games of
\* known teams, rows of the columns they have, ids that were made.
Once(name, table) ==
  \A n, m \in DOMAIN table :
    CASE name = "userTeams" -> table[n] = table[m] => n = m
      [] name = "rsvps" -> /\ table[n].experienceId = table[m].experienceId
                           /\ table[n].userId = table[m].userId
                           => n = m
      [] name = "indexes" -> table[n].teamId = table[m].teamId => n = m
      [] OTHER -> TRUE
Scheduled(table, teams) ==
  /\ IsFiniteSet(DOMAIN table) /\ DOMAIN table \subseteq GameIds
  /\ \A id \in DOMAIN table :
       /\ table[id].startTime = StartTime[id]
       /\ {table[id].homeTeamId, table[id].awayTeamId} \subseteq teams
IsTable(table) == table = [id \in DOMAIN table |-> table[id]]
FitTable(name, table, teams, time) ==
  /\ IsTable(table)
  /\ name \in DOMAIN Columns => \A id \in DOMAIN table : table[id] \in Columns[name]
  /\ name \in {"users", "userTeams", "rsvps", "updates", "experiences", "indexes"} =>
       DOMAIN table \subseteq 1..(time - 1)
  /\ Once(name, table)
  /\ name = "games" => Scheduled(table, teams)
Fit(db, time) ==
  /\ db = [name \in Names |-> db[name]]
  /\ \A name \in Names : FitTable(name, db[name], DOMAIN db.teams, time)

ASSUME StoragesAssumption ==
  /\ MaxWrites \in Nat /\ 10 + MaxWrites <= All
  /\ StartTime \in [GameIds -> 0..All]
  /\ \A a \in DOMAIN Areas : Fit(Areas[a], 10)
  /\ Null \notin Nat \cup {Pg!Conflict, Pg!Reference}
  /\ \A table \in DOMAIN Columns : Null \notin Columns[table]

VARIABLES
  area,    \* the part of the schema that is worked on
  mem, pg, \* the two databases
  answers, \* what the last write was answered by each
  clock    \* the time, and the id of the next row

storages == <<area, mem, pg, answers, clock>>

StoragesInit ==
  /\ area \in DOMAIN Areas
  /\ mem = Areas[area] /\ pg = Areas[area]
  /\ answers = [mem |-> Null, pg |-> Null, rejected |-> FALSE]
  /\ clock = 10

Rejected == answers.rejected
Both(m, p) ==
  /\ ~Rejected /\ clock < 10 + MaxWrites
  /\ mem' = m.db /\ pg' = p.db
  /\ answers' = [mem |-> m.answer, pg |-> p.answer, rejected |-> p.error # Null]
  /\ clock' = clock + 1
  /\ UNCHANGED area

Users == DOMAIN pg.users

PeopleCall ==
  /\ area = "people"
  /\ \/ \E name \in {"ann", "bob"} :
          LET user == [username |-> name]
          IN Both(Mem!CreateUser(mem, clock, user), Pg!CreateUser(pg, clock, user))
     \/ \E user \in Users \cup {clock}, lasts \in 1..2 :
          LET session == [userId |-> user, expiresAt |-> clock + lasts]
          IN Both(Mem!CreateSession(mem, clock, session), Pg!CreateSession(pg, clock, session))
     \/ \E id \in DOMAIN mem.sessions \cup DOMAIN pg.sessions :
          \/ Both(Mem!GetSession(mem, id, clock), Pg!GetSession(pg, id, clock))
          \/ Both(Mem!DeleteSession(mem, id), Pg!DeleteSession(pg, id))
     \/ Both(Mem!DeleteExpiredSessions(mem, clock), Pg!DeleteExpiredSessions(pg, clock))
     \/ \E uid \in 1..2, data \in {[name |-> "n"], [sports |-> "s", done |-> TRUE]} :
          \/ Both(Mem!CreateUserProfile(mem, uid, data), Pg!CreateUserProfile(pg, uid, data))
          \/ Both(Mem!UpdateUserProfile(mem, uid, data), Pg!UpdateUserProfile(pg, uid, data))

FavoritesCall ==
  /\ area = "favorites"
  /\ \E team \in TeamIds :
       \/ LET row == [league |-> "NFL"]
          IN Both(Mem!CreateTeam(mem, team, row), Pg!CreateTeam(pg, team, row))
       \/ \E user \in Users :
            \/ LET row == [userId |-> user, teamId |-> team]
               IN /\ \A r \in Pg!GetUserTeams(pg, user) : pg.userTeams[r] # row
                  /\ Both(Mem!CreateUserTeam(mem, clock, row), Pg!CreateUserTeam(pg, clock, row))
            \/ Both(Mem!DeleteUserTeam(mem, user, team), Pg!DeleteUserTeam(pg, user, team))
            \/ Both(Mem!ClearUserTeams(mem, user), Pg!ClearUserTeams(pg, user))
            \/ LET data == [teams |-> <<team, "t1">>]
               IN Both(Mem!CreateUserProfile(mem, user, data), Pg!CreateUserProfile(pg, user, data))
       \/ LET row == [teamId |-> team, generatedAt |-> clock]
          IN Both(Mem!CreateSummary(mem, clock, row), Pg!CreateSummary(pg, clock, row))
       \/ \E category \in {"news", "injury"} :
            LET row == [teamId |-> team, category |-> category, timestamp |-> clock]
            IN Both(Mem!CreateUpdate(mem, clock, row), Pg!CreateUpdate(pg, clock, row))

GamesCall ==
  /\ area = "games"
  /\ \E id \in GameIds, home, away \in TeamIds, pts \in 0..1 :
       LET game == [homeTeamId |-> home, awayTeamId |-> away, homePts |-> pts, awayPts |-> 0,
                    startTime |-> StartTime[id], cachedAt |-> clock]
       IN home # away /\ Both(Mem!CreateGame(mem, id, game), Pg!CreateGame(pg, id, game))

EventsCall ==
  /\ area = "events"
  /\ \/ \E team \in TeamIds, start \in 1..2 :
          LET row == [teamId |-> team, title |-> "party", startTime |-> start]
          IN Both(Mem!CreateExperience(mem, clock, row), Pg!CreateExperience(pg, clock, row))
     \/ \E id \in DOMAIN pg.experiences :
          \/ \E data \in {[title |-> "tailgate"], [startTime |-> 2]} :
               Both(Mem!UpdateExperience(mem, id, data), Pg!UpdateExperience(pg, id, data))
          \/ Both(Mem!DeleteExperience(mem, id), Pg!DeleteExperience(pg, id))
          \/ \E user \in Users \cup {clock} :
               LET row == [experienceId |-> id, userId |-> user]
               IN /\ ~Pg!HasRsvp(pg, id, user)
                  /\ Both(Mem!CreateRsvp(mem, clock, row), Pg!CreateRsvp(pg, clock, row))
          \/ \E user \in Users : Both(Mem!DeleteRsvp(mem, id, user), Pg!DeleteRsvp(pg, id, user))

ArticlesCall ==
  /\ area = "articles"
  /\ \/ \E team \in TeamIds, url \in {"u1", "u2"}, category \in {"news", "injury"}, age \in {0, 1, 5} :
          LET row == [teamId |-> team, sourceUrl |-> url, category |-> category,
                      publishedAt |-> clock - age, scrapedAt |-> clock]
          IN Both(Mem!CreateArticle(mem, clock, row), Pg!CreateArticle(pg, clock, row))
     \/ \E id \in DOMAIN pg.articles :
          \/ LET data == [isProcessed |-> TRUE]
             IN Both(Mem!UpdateArticle(mem, id, data), Pg!UpdateArticle(pg, id, data))
          \/ Both(Mem!DeleteArticle(mem, id), Pg!DeleteArticle(pg, id))
          \/ LET row == [articleId |-> id, classifiedAt |-> clock]
             IN Both(Mem!CreateArticleClassification(mem, clock, row),
                     Pg!CreateArticleClassification(pg, clock, row))
     \/ \E id \in DOMAIN pg.classes :
          Both(Mem!DeleteArticleClassification(mem, id), Pg!DeleteArticleClassification(pg, id))

SourcesCall ==
  /\ area = "sources"
  /\ \/ \E team \in TeamIds :
          \/ LET row == [teamId |-> team]
             IN /\ Pg!GetBM25IndexByTeam(pg, team) = Null
                /\ Both(Mem!CreateBM25Index(mem, clock, row), Pg!CreateBM25Index(pg, clock, row))
          \/ \E stats \in {[rebuildInProgress |-> TRUE], [totalDocuments |-> 2]} :
               Both(Mem!UpdateBM25IndexStats(mem, team, stats),
                    Pg!UpdateBM25IndexStats(pg, team, stats))
     \/ \E name \in {"espn", "cbs"} :
          LET row == [name |-> name]
          IN Both(Mem!CreateNewsSource(mem, clock, row), Pg!CreateNewsSource(pg, clock, row))
     \/ \E id \in DOMAIN pg.sources \cup {clock},
           data \in {[isActive |-> FALSE], [totalArticles |-> 1]} :
          Both(Mem!UpdateNewsSource(mem, id, data), Pg!UpdateNewsSource(pg, id, data))

StoragesNext ==
  \/ PeopleCall \/ FavoritesCall \/ GamesCall
  \/ EventsCall \/ ArticlesCall \/ SourcesCall
StoragesSpec == StoragesInit /\ [][StoragesNext]_storages

-----------------------------------------------------------------------------
\* Every list there may be has the rows, in whatever order.
ListsRows(lists, rows) == {SeqSet(list) : list \in lists} = {rows}

SamePeople ==
  /\ \A id \in Users : Find(mem, "users", id) = Find(pg, "users", id)
  /\ \A name \in {"ann", "bob"} : Mem!GetUserByUsername(mem, name) = Pg!GetUserByUsername(pg, name)
  /\ \A uid \in 1..2 : Mem!GetUserProfile(mem, uid) = Pg!GetUserProfile(pg, uid)

SameFavorites ==
  /\ \A user \in Users :
       /\ Mem!GetUserTeams(mem, user) = Pg!GetUserTeams(pg, user)
       /\ \A sport \in {"football", "basketball"} :
            SeqSet(Mem!GetUserFavoriteTeamBySport(mem, user, sport))
              = Pg!GetUserFavoriteTeamBySport(pg, user, sport)
  /\ \A league \in {"NFL", "NBA"} : Mem!GetTeamsByLeague(mem, league) = Pg!GetTeamsByLeague(pg, league)
  /\ ListsRows(Mem!GetAllUpdates(mem), Pg!GetAllUpdates(pg))
  /\ \A team \in TeamIds :
       /\ Mem!GetLatestSummaryByTeamId(mem, team) = Pg!GetLatestSummaryByTeamId(pg, team)
       /\ ListsRows(Mem!GetUpdatesByTeamId(mem, team), Pg!GetUpdatesByTeamId(pg, team))
       /\ \A category \in {"news", "injury"} :
            ListsRows(Mem!GetUpdatesByTeamAndCategory(mem, team, category),
                      Pg!GetUpdatesByTeamAndCategory(pg, team, category))

SameGames ==
  /\ \A id \in GameIds, pts \in 0..1 :
       Mem!HasScoreChanged(mem, id, pts, 0) = Pg!HasScoreChanged(pg, id, pts, 0)
  /\ \A team \in TeamIds : Mem!GetLatestTeamScore(mem, team) = Pg!GetLatestTeamScore(pg, team)
  /\ \A limit \in 1..3, since \in 0..2 :
       /\ \A team \in TeamIds :
            Pg!GetGamesByTeamId(pg, team, limit, since, All)
              \in (SUBSET Mem!GetGamesByTeamId(mem, team, limit, since, All)) \ {{}}
       /\ \A teams \in (SUBSET TeamIds) \ {{}} :
            Mem!GetGamesByTeamIds(mem, teams, limit, since, All)
              = Pg!GetGamesByTeamIds(pg, teams, limit, since, All)

SameEvents ==
  /\ ListsRows(Mem!GetAllExperiences(mem), Pg!GetAllExperiences(pg))
  /\ \A team \in TeamIds :
       ListsRows(Mem!GetExperiencesByTeamId(mem, team), Pg!GetExperiencesByTeamId(pg, team))
  /\ \A id \in DOMAIN pg.experiences :
       /\ mem.experiences[id] = pg.experiences[id]
       /\ Mem!GetRsvpCount(mem, id) = Pg!GetRsvpCount(pg, id)
       /\ \A user \in Users : Mem!HasRsvp(mem, id, user) = Pg!HasRsvp(pg, id, user)
  /\ \A user \in Users : Mem!GetRsvpsByUserId(mem, user) = Pg!GetRsvpsByUserId(pg, user)

SameArticles ==
  /\ \A team \in TeamIds, limit \in 1..2 :
       /\ Mem!GetArticlesByTeam(mem, team, limit) = Pg!GetArticlesByTeam(pg, team, limit)
       /\ Mem!GetArticlesByTeamAndCategory(mem, team, "news", limit)
            = Pg!GetArticlesByTeamAndCategory(pg, team, "news", limit)
       /\ Mem!GetRecentArticles(mem, team, clock - 3) = Pg!GetRecentArticles(pg, team, clock - 3)
  /\ Mem!GetUnprocessedArticles(mem, 1) = Pg!GetUnprocessedArticles(pg, 1)
  /\ \A url \in {"u1", "u2"} : Mem!GetArticleBySourceUrl(mem, url) = Pg!GetArticleBySourceUrl(pg, url)
  /\ \A id \in DOMAIN pg.articles :
       Mem!GetClassificationsByArticle(mem, id) = Pg!GetClassificationsByArticle(pg, id)

SameSources ==
  /\ \A team \in TeamIds : Mem!GetBM25IndexByTeam(mem, team) = Pg!GetBM25IndexByTeam(pg, team)
  /\ \A name \in {"espn", "cbs"} : Mem!GetNewsSourceByName(mem, name) = Pg!GetNewsSourceByName(pg, name)
  /\ Mem!GetActiveNewsSources(mem) = Pg!GetActiveNewsSources(pg)

SameReads ==
  SamePeople /\ SameFavorites /\ SameGames /\ SameEvents /\ SameArticles /\ SameSources

(***************************************************************************)
(* As long as PostgreSQL has accepted every write, every query of          *)
(* IStorage is answered by it as MemStorage may answer: a test on          *)
(* MemStorage tells what the queries of PgStorage select, sort, merge and  *)
(* cut.  Only the rows are the same, not their order, where PgStorage asks *)
(* for none: of news updates, of experiences, and of the favorite teams of *)
(* a sport, which it only knows in lower case.  And every write that       *)
(* PostgreSQL accepts gets the same answer: the row with its defaults,     *)
(* nothing for an id that is not there, a session unless it has expired    *)
(* (storage.ts getSession and deleteExpiredSessions treat the very moment  *)
(* of expiry differently from the SQL).                                    *)
(***************************************************************************)
Called == clock > 10
SameAnswers == Called /\ ~Rejected => SameReads /\ answers.mem = answers.pg
=============================================================================
