----------------------------- MODULE PgStorage ------------------------------
(***************************************************************************)
(* PgStorage (server/pgStorage.ts): one SQL statement per method, on the   *)
(* tables of shared/schema.ts.  PostgreSQL rejects a row that repeats a    *)
(* unique key (23505) or refers to a row that is not there (23503), and    *)
(* the deletion of a row that others refer to.                             *)
(***************************************************************************)
EXTENDS Tables

Conflict == "23505"
Reference == "23503"

\* UNIQUE columns, and the columns of each table that REFERENCE another one: of
\* accounts, of what is written about teams, and of news.  (Experiences are
\* created without the user who created them, which is NULL then.)
UniqueColumn == [users |-> "username", articles |-> "sourceUrl", sources |-> "name"]
AccountKeys ==
  [users |-> {}, sessions |-> {<<"userId", "users">>}, teams |-> {}, profiles |-> {},
   userTeams |-> {<<"userId", "users">>, <<"teamId", "teams">>}]
TeamKeys ==
  [games |-> {<<"homeTeamId", "teams">>, <<"awayTeamId", "teams">>},
   rsvps |-> {<<"experienceId", "experiences">>, <<"userId", "users">>},
   summaries |-> {<<"teamId", "teams">>}, updates |-> {<<"teamId", "teams">>},
   experiences |-> {<<"teamId", "teams">>}]
NewsKeys ==
  [articles |-> {<<"teamId", "teams">>}, classes |-> {<<"articleId", "articles">>},
   sources |-> {}, indexes |-> {<<"teamId", "teams">>}]
References == Over(AccountKeys, Over(TeamKeys, NewsKeys))

Repeats(db, table, id, row) ==
  \/ id \in DOMAIN db[table]
  \/ /\ table \in DOMAIN UniqueColumn
     /\ \E other \in DOMAIN db[table] :
          db[table][other][UniqueColumn[table]] = row[UniqueColumn[table]]
Dangles(db, table, row) == \E r \in References[table] : row[r[1]] \notin DOMAIN db[r[2]]
ReferredTo(db, table, ids) ==
  \E child \in Names : \E r \in References[child] :
    r[2] = table /\ \E c \in DOMAIN db[child] : db[child][c][r[1]] \in ids

Insert(db, table, id, row) ==
  IF Repeats(db, table, id, row) THEN Throw(db, Conflict)
  ELSE IF Dangles(db, table, row) THEN Throw(db, Reference)
  ELSE Done(Put(db, table, id, row), row)
\* UPDATE ... SET the columns that are given, WHERE id, RETURNING the row.
Update(db, table, id, data) ==
  Done(Change(db, table, {id}, data), IF id \in DOMAIN db[table] THEN Over(data, db[table][id]) ELSE Null)
Delete(db, table, ids) ==
  IF ReferredTo(db, table, ids \cap DOMAIN db[table]) THEN Throw(db, Reference)
  ELSE Done(Drop(db, table, ids), "ok")

\* Users and sessions
GetUserByUsername(db, name) ==
  FirstRow(db, "users", Where(db, "users", LAMBDA u : u.username = name))
CreateUser(db, id, user) == Insert(db, "users", id, user)
CreateSession(db, id, session) == Insert(db, "sessions", id, session)
GetSession(db, id, now) ==
  LET session == Find(db, "sessions", id) IN
  IF session = Null THEN Done(db, Null)
  ELSE IF session.expiresAt > now THEN Done(db, session)
  ELSE Done(Delete(db, "sessions", {id}).db, Null)
DeleteSession(db, id) == Delete(db, "sessions", {id})
DeleteExpiredSessions(db, now) ==
  Delete(db, "sessions", Where(db, "sessions", LAMBDA s : s.expiresAt < now))

\* Profiles
GetUserProfile(db, uid) == Find(db, "profiles", uid)
CreateUserProfile(db, uid, data) ==
  Insert(db, "profiles", uid,
         Over(data, [name |-> Null, sports |-> Null, teams |-> Null, done |-> FALSE]))
\* Bug: the columns that are not given are written as well.
BugUpdateUserProfile(db, uid, data) ==
  Update(db, "profiles", uid, Over(data, [name |-> Null]))
UpdateUserProfile(db, uid, data) == Update(db, "profiles", uid, data)
\* The favorites of a sport spelled as SportOf spells it, in the order of the table.
GetUserFavoriteTeamBySport(db, uid, sport) ==
  LET profile == Find(db, "profiles", uid)
      favorites == IF profile = Null THEN {}
                   ELSE IF profile.teams = Null THEN {} ELSE SeqSet(profile.teams)
  IN {[teamId |-> t, sport |-> SportOf(db.teams[t].league)] :
        t \in {t \in favorites \cap DOMAIN db.teams : SportOf(db.teams[t].league) = sport}}

\* Teams, favorites and summaries
CreateTeam(db, id, team) == Insert(db, "teams", id, team)
GetTeamsByLeague(db, league) == Where(db, "teams", LAMBDA t : t.league = league)
CreateUserTeam(db, id, row) == Insert(db, "userTeams", id, row)
GetUserTeams(db, user) == Where(db, "userTeams", LAMBDA r : r.userId = user)
DeleteUserTeam(db, user, team) ==
  Delete(db, "userTeams", Where(db, "userTeams", LAMBDA r : r.userId = user /\ r.teamId = team))
ClearUserTeams(db, user) == Delete(db, "userTeams", GetUserTeams(db, user))
CreateSummary(db, id, summary) == Insert(db, "summaries", id, summary)
GetLatestSummaryByTeamId(db, team) ==
  Greatest(db, "summaries", Where(db, "summaries", LAMBDA s : s.teamId = team),
           "generatedAt", 1)

\* Games
CreateGame(db, id, game) == Insert(db, "games", id, game)
\* Bug: the newest at home and away are put together and cut without being sorted.
BugGetGamesByTeamId(db, team, limit, since, until) ==
  LET Of(side) == Where(db, "games", LAMBDA g : /\ g[side] = team /\ g.startTime >= since
                                                /\ g.startTime <= until)
  IN {SubSeq(home \o away, 1, Smaller(limit, Len(home \o away))) :
        home \in Greatest(db, "games", Of("homeTeamId"), "startTime", limit),
        away \in Greatest(db, "games", Of("awayTeamId"), "startTime", limit)}
\* The newest at home and the newest away, without repetition, the newest of both.
GetGamesByTeamId(db, team, limit, since, until) ==
  LET window == Where(db, "games", LAMBDA g : g.startTime >= since /\ g.startTime <= until)
      Newest(ids) == Greatest(db, "games", ids, "startTime", limit)
  IN UNION {Newest(SeqSet(home) \cup SeqSet(away)) :
              home \in Newest({g \in window : db.games[g].homeTeamId = team}),
              away \in Newest({g \in window : db.games[g].awayTeamId = team})}
GetGamesByTeamIds(db, teams, limit, since, until) ==
  IF teams = {} THEN {<<>>}
  ELSE Greatest(db, "games",
                Where(db, "games", LAMBDA g : /\ g.homeTeamId \in teams \/ g.awayTeamId \in teams
                                              /\ g.startTime >= since /\ g.startTime <= until),
                "startTime", limit)
\* A game whose teams are not in the table makes it throw.
LatestScore(db, team, last) ==
  IF last = <<>> THEN Null
  ELSE LET g == db.games[last[1]]
           isHomeGame == g.homeTeamId = team
       IN IF {g.homeTeamId, g.awayTeamId} \subseteq DOMAIN db.teams
          THEN [game |-> last[1], isHomeGame |-> isHomeGame,
                teamScore |-> IF isHomeGame THEN g.homePts ELSE g.awayPts,
                opponentScore |-> IF isHomeGame THEN g.awayPts ELSE g.homePts]
          ELSE "Incomplete team data"
GetLatestTeamScore(db, team) ==
  {LatestScore(db, team, last) :
     last \in Greatest(db, "games", Where(db, "games", LAMBDA g : \/ g.homeTeamId = team
                                                                  \/ g.awayTeamId = team),
                       "startTime", 1)}
HasScoreChanged(db, id, home, away) ==
  IF id \notin DOMAIN db.games THEN TRUE
  ELSE db.games[id].homePts # home \/ db.games[id].awayPts # away
DeleteOldGames(db, before) == Done(db, "ok")

\* News updates.  No order is asked for: the answer is a set.
CreateUpdate(db, id, update) == Insert(db, "updates", id, update)
GetAllUpdates(db) == DOMAIN db.updates
GetUpdatesByTeamId(db, team) == Where(db, "updates", LAMBDA u : u.teamId = team)
GetUpdatesByTeamAndCategory(db, team, category) ==
  Where(db, "updates", LAMBDA u : u.teamId = team /\ u.category = category)

\* Experiences, in no order, and RSVPs
CreateExperience(db, id, experience) == Insert(db, "experiences", id, experience)
GetAllExperiences(db) == DOMAIN db.experiences
GetExperiencesByTeamId(db, team) ==
  Where(db, "experiences", LAMBDA e : e.teamId = team)
UpdateExperience(db, id, data) == Update(db, "experiences", id, data)
DeleteExperience(db, id) == Delete(db, "experiences", {id})
CreateRsvp(db, id, rsvp) == Insert(db, "rsvps", id, rsvp)
GetRsvpsByExperienceId(db, id) == Where(db, "rsvps", LAMBDA r : r.experienceId = id)
GetRsvpsByUserId(db, user) == Where(db, "rsvps", LAMBDA r : r.userId = user)
GetRsvpCount(db, id) == Cardinality(GetRsvpsByExperienceId(db, id))
DeleteRsvp(db, id, user) ==
  Delete(db, "rsvps", Where(db, "rsvps", LAMBDA r : r.experienceId = id /\ r.userId = user))
HasRsvp(db, id, user) ==
  \E r \in DOMAIN db.rsvps : db.rsvps[r].experienceId = id /\ db.rsvps[r].userId = user

\* Articles
CreateArticle(db, id, article) ==
  Insert(db, "articles", id, Over(article, [isProcessed |-> FALSE, isDeleted |-> FALSE]))
GetArticlesByTeam(db, team, limit) ==
  Greatest(db, "articles", Where(db, "articles", LAMBDA a : a.teamId = team /\ ~a.isDeleted),
           "publishedAt", limit)
GetArticlesByTeamAndCategory(db, team, category, limit) ==
  Greatest(db, "articles",
           Where(db, "articles", LAMBDA a : a.teamId = team /\ a.category = category /\ ~a.isDeleted),
           "publishedAt", limit)
GetArticleBySourceUrl(db, url) ==
  FirstRow(db, "articles", Where(db, "articles", LAMBDA a : a.sourceUrl = url))
GetRecentArticles(db, team, cutoff) ==
  Greatest(db, "articles",
           Where(db, "articles", LAMBDA a : a.teamId = team /\ a.publishedAt >= cutoff /\ ~a.isDeleted),
           "publishedAt", All)
UpdateArticle(db, id, data) == Update(db, "articles", id, data)
DeleteArticle(db, id) == Done(Change(db, "articles", {id}, [isDeleted |-> TRUE]), "ok")
GetUnprocessedArticles(db, limit) ==
  Greatest(db, "articles", Where(db, "articles", LAMBDA a : ~a.isProcessed /\ ~a.isDeleted),
           "scrapedAt", limit)

\* Search indexes, news sources, classifications
GetBM25IndexByTeam(db, team) ==
  FirstRow(db, "indexes", Where(db, "indexes", LAMBDA i : i.teamId = team))
CreateBM25Index(db, id, index) ==
  Insert(db, "indexes", id,
         Over(index, [totalDocuments |-> 0, rebuildInProgress |-> FALSE, totalQueries |-> 0]))
UpdateBM25IndexStats(db, team, stats) ==
  LET changed == Change(db, "indexes", Where(db, "indexes", LAMBDA i : i.teamId = team), stats)
  IN Done(changed, GetBM25IndexByTeam(changed, team))
CreateNewsSource(db, id, source) ==
  Insert(db, "sources", id, Over(source, [totalArticles |-> 0, isActive |-> TRUE]))
GetNewsSourceByName(db, name) ==
  FirstRow(db, "sources", Where(db, "sources", LAMBDA s : s.name = name))
GetActiveNewsSources(db) == Where(db, "sources", LAMBDA s : s.isActive)
UpdateNewsSource(db, id, data) == Update(db, "sources", id, data)
CreateArticleClassification(db, id, class) == Insert(db, "classes", id, class)
GetClassificationsByArticle(db, article) ==
  Greatest(db, "classes", Where(db, "classes", LAMBDA c : c.articleId = article),
           "classifiedAt", All)
DeleteArticleClassification(db, id) == Delete(db, "classes", {id})
=============================================================================
