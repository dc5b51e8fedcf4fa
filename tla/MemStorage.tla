----------------------------- MODULE MemStorage -----------------------------
(***************************************************************************)
(* MemStorage (server/storage.ts), the storage of tests and of development *)
(* without a database: Maps that take every row they are given.  A write   *)
(* returns the tables it leaves and its answer, a read only its answer; one *)
(* that sorts has a set of them, as rows of one rank may come in any order. *)
(***************************************************************************)
EXTENDS Tables

Insert(db, table, id, row) == Done(Put(db, table, id, row), row)
Update(db, table, id, data) ==
  IF id \in DOMAIN db[table]
  THEN LET changed == Change(db, table, {id}, data) IN Done(changed, changed[table][id])
  ELSE Done(db, Null)

\* Users and sessions
GetUserByUsername(db, name) ==
  FirstRow(db, "users", Where(db, "users", LAMBDA u : u.username = name))
CreateUser(db, id, user) == Insert(db, "users", id, user)
CreateSession(db, id, session) == Insert(db, "sessions", id, session)
\* Bug: a session is still good at the very time it expires.
BugGetSession(db, id, now) ==
  LET session == Find(db, "sessions", id) IN
  IF session # Null /\ session.expiresAt >= now THEN Done(db, session)
  ELSE Done(Drop(db, "sessions", {id}), Null)
GetSession(db, id, now) ==
  LET session == Find(db, "sessions", id) IN
  IF session # Null /\ session.expiresAt > now THEN Done(db, session)
  ELSE Done(Drop(db, "sessions", {id}), Null)
DeleteSession(db, id) == Done(Drop(db, "sessions", {id}), "ok")
DeleteExpiredSessions(db, now) ==
  Done(Drop(db, "sessions", Where(db, "sessions", LAMBDA s : s.expiresAt <= now)), "ok")

\* Profiles.  A profile that exists is replaced by the one that is created.
GetUserProfile(db, uid) == Find(db, "profiles", uid)
CreateUserProfile(db, uid, data) ==
  Insert(db, "profiles", uid,
         Over(data, [name |-> Null, sports |-> Null, teams |-> Null, done |-> FALSE]))
UpdateUserProfile(db, uid, data) == Update(db, "profiles", uid, data)
\* The favorites of a sport however it is spelled, in their order, with that spelling.
ToLowerCase(sport) ==
  CASE sport = "Football" -> "football" [] sport = "Basketball" -> "basketball" [] OTHER -> sport
GetUserFavoriteTeamBySport(db, uid, sport) ==
  LET profile == Find(db, "profiles", uid) IN
  IF profile = Null THEN <<>>
  ELSE IF profile.teams = Null THEN <<>>
  ELSE [n \in {n \in DOMAIN profile.teams :
                 /\ profile.teams[n] \in DOMAIN db.teams
                 /\ SportOf(db.teams[profile.teams[n]].league) = ToLowerCase(sport)}
          |-> [teamId |-> profile.teams[n], sport |-> sport]]

\* Teams, favorites and summaries
CreateTeam(db, id, team) == Insert(db, "teams", id, team)
GetTeamsByLeague(db, league) == Where(db, "teams", LAMBDA t : t.league = league)
CreateUserTeam(db, id, row) == Insert(db, "userTeams", id, row)
GetUserTeams(db, user) == Where(db, "userTeams", LAMBDA r : r.userId = user)
DeleteUserTeam(db, user, team) ==
  LET found == Where(db, "userTeams", LAMBDA r : r.userId = user /\ r.teamId = team)
  IN Done(Drop(db, "userTeams", {First(found)}), "ok")
ClearUserTeams(db, user) == Done(Drop(db, "userTeams", GetUserTeams(db, user)), "ok")
CreateSummary(db, id, summary) == Insert(db, "summaries", id, summary)
GetLatestSummaryByTeamId(db, team) ==
  Greatest(db, "summaries", Where(db, "summaries", LAMBDA s : s.teamId = team),
           "generatedAt", 1)

\* Games.  A game that exists is replaced.
CreateGame(db, id, game) == Insert(db, "games", id, game)
GamesOf(db, teams, since, until) ==
  Where(db, "games", LAMBDA g : /\ g.homeTeamId \in teams \/ g.awayTeamId \in teams
                                /\ g.startTime >= since /\ g.startTime <= until)
GetGamesByTeamId(db, team, limit, since, until) ==
  Greatest(db, "games", GamesOf(db, {team}, since, until), "startTime", limit)
\* No team at all stands for every team.
GetGamesByTeamIds(db, teams, limit, since, until) ==
  LET found == IF teams = {}
               THEN Where(db, "games", LAMBDA g : g.startTime >= since /\ g.startTime <= until)
               ELSE GamesOf(db, teams, since, until)
  IN Greatest(db, "games", found, "startTime", limit)
LatestScore(db, team, last) ==
  IF last = <<>> THEN Null
  ELSE LET g == db.games[last[1]] IN
       IF g.homeTeamId \notin DOMAIN db.teams \/ g.awayTeamId \notin DOMAIN db.teams THEN Null
       ELSE [game |-> last[1], isHomeGame |-> g.homeTeamId = team,
             teamScore |-> IF g.homeTeamId = team THEN g.homePts ELSE g.awayPts,
             opponentScore |-> IF g.homeTeamId = team THEN g.awayPts ELSE g.homePts]
GetLatestTeamScore(db, team) ==
  {LatestScore(db, team, last) : last \in GetGamesByTeamId(db, team, 1, 0, All)}
HasScoreChanged(db, id, home, away) ==
  LET g == Find(db, "games", id) IN g = Null \/ ~(g.homePts = home /\ g.awayPts = away)
DeleteOldGames(db, before) ==
  Done(Drop(db, "games", Where(db, "games", LAMBDA g : g.cachedAt < before)), "ok")

\* News updates
CreateUpdate(db, id, update) == Insert(db, "updates", id, update)
GetAllUpdates(db) == Greatest(db, "updates", DOMAIN db.updates, "timestamp", All)
GetUpdatesByTeamId(db, team) ==
  Greatest(db, "updates", Where(db, "updates", LAMBDA u : u.teamId = team), "timestamp", All)
GetUpdatesByTeamAndCategory(db, team, category) ==
  Greatest(db, "updates",
           Where(db, "updates", LAMBDA u : u.teamId = team /\ u.category = category),
           "timestamp", All)

\* Experiences and RSVPs.  An experience takes its RSVPs with it.
CreateExperience(db, id, experience) == Insert(db, "experiences", id, experience)
GetAllExperiences(db) == LeastFirst(db, "experiences", DOMAIN db.experiences, "startTime")
GetExperiencesByTeamId(db, team) ==
  LeastFirst(db, "experiences", Where(db, "experiences", LAMBDA e : e.teamId = team), "startTime")
UpdateExperience(db, id, data) == Update(db, "experiences", id, data)
GetRsvpsByExperienceId(db, id) == Where(db, "rsvps", LAMBDA r : r.experienceId = id)
GetRsvpsByUserId(db, user) == Where(db, "rsvps", LAMBDA r : r.userId = user)
GetRsvpCount(db, id) == Cardinality(GetRsvpsByExperienceId(db, id))
DeleteExperience(db, id) ==
  Done(Drop(Drop(db, "experiences", {id}), "rsvps", GetRsvpsByExperienceId(db, id)), "ok")
CreateRsvp(db, id, rsvp) == Insert(db, "rsvps", id, rsvp)
RsvpsOf(db, id, user) ==
  Where(db, "rsvps", LAMBDA r : r.experienceId = id /\ r.userId = user)
DeleteRsvp(db, id, user) == Done(Drop(db, "rsvps", {First(RsvpsOf(db, id, user))}), "ok")
HasRsvp(db, id, user) == RsvpsOf(db, id, user) # {}

\* Articles
CreateArticle(db, id, article) ==
  Insert(db, "articles", id, Over(article, [isProcessed |-> FALSE, isDeleted |-> FALSE]))
Living(db, Test(_)) == Where(db, "articles", LAMBDA a : ~a.isDeleted /\ Test(a))
GetArticlesByTeam(db, team, limit) ==
  Greatest(db, "articles", Living(db, LAMBDA a : a.teamId = team), "publishedAt", limit)
GetArticlesByTeamAndCategory(db, team, category, limit) ==
  Greatest(db, "articles", Living(db, LAMBDA a : a.teamId = team /\ a.category = category),
           "publishedAt", limit)
GetArticleBySourceUrl(db, url) ==
  FirstRow(db, "articles", Where(db, "articles", LAMBDA a : a.sourceUrl = url))
GetRecentArticles(db, team, cutoff) ==
  Greatest(db, "articles", Living(db, LAMBDA a : a.teamId = team /\ a.publishedAt >= cutoff),
           "publishedAt", All)
UpdateArticle(db, id, data) == Update(db, "articles", id, data)
DeleteArticle(db, id) ==
  Done(Change(db, "articles", {id}, [isDeleted |-> TRUE]), "ok")
GetUnprocessedArticles(db, limit) ==
  Greatest(db, "articles", Living(db, LAMBDA a : ~a.isProcessed), "scrapedAt", limit)

\* Search indexes, news sources, classifications
IndexesOf(db, team) == Where(db, "indexes", LAMBDA i : i.teamId = team)
GetBM25IndexByTeam(db, team) == FirstRow(db, "indexes", IndexesOf(db, team))
CreateBM25Index(db, id, index) ==
  Insert(db, "indexes", id,
         Over(index, [totalDocuments |-> 0, rebuildInProgress |-> FALSE, totalQueries |-> 0]))
UpdateBM25IndexStats(db, team, stats) ==
  IF IndexesOf(db, team) = {} THEN Done(db, Null)
  ELSE Update(db, "indexes", First(IndexesOf(db, team)), stats)
CreateNewsSource(db, id, source) ==
  Insert(db, "sources", id, Over(source, [totalArticles |-> 0, isActive |-> TRUE]))
GetNewsSourceByName(db, name) ==
  FirstRow(db, "sources", Where(db, "sources", LAMBDA s : s.name = name))
GetActiveNewsSources(db) == Where(db, "sources", LAMBDA s : s.isActive)
UpdateNewsSource(db, id, data) == Update(db, "sources", id, data)
CreateArticleClassification(db, id, class) == Insert(db, "classes", id, class)
GetClassificationsByArticle(db, article) ==
  Greatest(db, "classes", Where(db, "classes", LAMBDA c : c.articleId = article),
           "classifiedAt", All)
DeleteArticleClassification(db, id) == Done(Drop(db, "classes", {id}), "ok")
=============================================================================
