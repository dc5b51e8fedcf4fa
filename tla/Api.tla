-------------------------------- MODULE Api ---------------------------------
(***************************************************************************)
(* The request handlers of server/routes.ts that read and write accounts,  *)
(* experiences, news and scores, with the middleware in front of them      *)
(* (authenticateFirebase, loadUserContext, validateTeamAccess).  A handler *)
(* is a chain of awaits, and other requests are served between them: on    *)
(* PostgreSQL at every storage call, on MemStorage, whose promises are     *)
(* resolved already, only while a token is verified or a password hashed.  *)
(* A storage call may fail, and a write that fails may have been done.     *)
(***************************************************************************)
EXTENDS Tables

CONSTANTS
  Requests,  \* what may be in flight at the same time
  Asks,      \* what may be asked
  Stores,    \* "mem", "pg", or both
  Given,     \* the tables at the start
  Serial,    \* the first id that is free
  Now,       \* the time, which a schedule starts at
  MaxFails   \* bound: storage calls that fail, requests refused before their handler

M == INSTANCE MemStorage
P == INSTANCE PgStorage

VARIABLES store, db, call, serial, fails
api == <<store, db, call, serial, fails>>

Own == {"read", "upsert", "onboarded", "patch", "rsvp", "unrsvp"}  \* of the user's uid only
Lists == {"scores", "schedule"}
Scores == Lists \cup {"teamScores", "boxScore"}
Creating == {"register", "createUser", "rsvp", "createExperience", "generate"}  \* with new ids
News == {"updates", "experiences"}
Listing == News \cup {"teams", "users"}     \* the latter and "games": development only
Found == {"summary", "update"}
Open == (Listing \ {"experiences"}) \cup Found \cup
        {"register", "login", "createUser", "createTeam", "createGame", "games",
         "health"}                          \* to anyone
WithToken == {"register", "login"}              \* with a CSRF token
Limited == Scores \cup WithToken \cup {"generate"}   \* behind a rate limiter
InContext == Scores \cup {"generate"}
Edits == {"upsert", "onboarded", "patch"}
Operations == Own \cup Scores \cup Creating \cup Listing \cup Open
              \cup {"patchExperience", "deleteExperience"}

\* A page of scores has a number and a size, and a game a time; what a user chooses
\* is finite.
WellAsked(ask) ==
  /\ ask.op \in Operations
  /\ ask.op \in Edits /\ "teams" \in DOMAIN ask.data => IsFiniteSet(ask.data.teams)
  /\ ask.op \in Scores => IsFiniteSet(ask.teams)
  /\ ask.op \in Lists \cup {"teamScores"} => ask.limit \in Nat /\ ask.page \in Nat \ {0}
  /\ ask.op = "createGame" => ask.row.startTime \in Nat

ASSUME ApiAssumption ==
  /\ \A ask \in Asks : WellAsked(ask)
  /\ Stores \subseteq {"mem", "pg"}
  /\ DOMAIN Given = Names /\ Serial \in Nat
  /\ IsFiniteSet(DOMAIN Given.games)
  /\ \A id \in DOMAIN Given.games : Given.games[id].startTime \in Nat
  /\ DOMAIN Given.rsvps \subseteq Nat
  /\ \A n, m \in DOMAIN Given.rsvps :
       /\ Given.rsvps[n].experienceId = Given.rsvps[m].experienceId
       /\ Given.rsvps[n].userId = Given.rsvps[m].userId
       => n = m
  /\ \A uid \in DOMAIN Given.profiles :
       /\ {"teams", "done"} \subseteq DOMAIN Given.profiles[uid]
       /\ Given.profiles[uid].teams = Null \/ IsFiniteSet(Given.profiles[uid].teams)
  /\ Null \notin {P!Conflict, P!Reference}

\* pc is the next await; of a request that is over, status is the answer.
NoCall == [pc |-> "idle", ask |-> Null, teams |-> {}, sport |-> Null, ids |-> {},
           rows |-> {}, found |-> FALSE, status |-> 0, body |-> Null,
           contested |-> {}, favorites |-> {}, overview |-> FALSE]

ApiInit ==
  /\ store \in Stores
  /\ db = Given
  /\ call = [r \in Requests |-> NoCall]
  /\ serial = Serial
  /\ fails = 0

Storing == {"context", "league", "games", "list", "look", "write"}
InFlight(c) == c.pc \notin {"idle", "over"}
Turn(r) == store = "mem" => \A q \in Requests \ {r} : call[q].pc \notin Storing

FavoritesOf(tables, uid) ==
  LET profile == P!GetUserProfile(tables, uid) IN
  IF profile = Null THEN {} ELSE IF profile.teams = Null THEN {} ELSE profile.teams

\* What a request changes and another may change as well.
Touches(ask) ==
  IF ask.op \in Edits THEN {<<"profile", ask.who, column>> : column \in DOMAIN ask.data}
  ELSE IF ask.op = "rsvp" THEN {<<"rsvp", ask.who, ask.id>>} ELSE {}

\* Every step notes for each request for scores what were favorites meanwhile.
Noted(c, tables) ==
  IF ~InFlight(c) \/ c.ask.op \notin Scores THEN c
  ELSE LET now == FavoritesOf(tables, c.ask.by)
       IN [c EXCEPT !.favorites = @ \cup now, !.overview = @ \/ now = {}]
Goes(r, tables, next) ==
  /\ db' = tables
  /\ call' = [q \in Requests |-> Noted(IF q = r THEN next ELSE call[q], tables)]
  /\ UNCHANGED store

Answer(c, status, body) == [c EXCEPT !.pc = "over", !.status = status, !.body = body]
At(r, pc) == call[r].pc = pc /\ Turn(r)

-----------------------------------------------------------------------------
\* The middleware.

Arrives(r, ask) ==
  LET others == {q \in Requests \ {r} : InFlight(call[q])}
      new == [NoCall EXCEPT !.pc = "auth", !.ask = ask,
                            !.contested = UNION {Touches(call[q].ask) : q \in others}]
  IN /\ call[r].pc = "idle"
     /\ db' = db
     /\ call' = [q \in Requests |->
          IF q = r THEN Noted(new, db)
          ELSE IF call[q].pc = "idle" THEN call[q]
          ELSE [call[q] EXCEPT !.contested = @ \cup Touches(ask)]]
     /\ UNCHANGED <<store, serial, fails>>

Enters(op) ==
  IF op \in InContext THEN "context"
  ELSE IF op \in {"read", "upsert", "register", "createUser", "login", "rsvp"} \cup Found THEN "look"
  ELSE IF op \in Listing THEN "list" ELSE IF op = "games" THEN "league"
  ELSE IF op = "health" THEN "check" ELSE "write"

\* The limiters come first, so that all count by address, the one meant for users
\* too: whoever shares it may have used up the minute.
LimitReached(r) ==
  /\ call[r].pc = "auth" /\ Turn(r) /\ call[r].ask.op \in Limited
  /\ fails < MaxFails /\ fails' = fails + 1
  /\ Goes(r, db, Answer(call[r], 429, Null))
  /\ UNCHANGED serial

\* csurf: the token is another's, or an old one.
TokenRefused(r) ==
  /\ call[r].pc = "auth" /\ Turn(r) /\ call[r].ask.op \in WithToken
  /\ fails < MaxFails /\ fails' = fails + 1
  /\ Goes(r, db, Answer(call[r], 403, Null))
  /\ UNCHANGED serial

\* authenticateFirebase, where a route has it, and the uid that it compares with
\* the one in the path or the body.
Authenticates(r) ==
  LET c == call[r] IN
  /\ c.pc = "auth" /\ Turn(r)
  /\ Goes(r, db,
          IF c.ask.by = Null /\ c.ask.op \notin Open THEN Answer(c, 401, Null)
          ELSE IF c.ask.op \in Own /\ c.ask.who # c.ask.by THEN Answer(c, 403, Null)
          ELSE [c EXCEPT !.pc = Enters(c.ask.op),
                         !.ids = IF c.ask.op \in News THEN c.ask.teams ELSE @])
  /\ UNCHANGED <<serial, fails>>

\* Bug: one favorite among the teams asked for is enough.
BugAuthorized(requested, favorites) ==
  IF requested # {} THEN IF requested \cap favorites # {} THEN requested ELSE Null ELSE favorites
\* The teams a request is about, Null if it asks for one that is no favorite.
Authorized(requested, favorites) ==
  IF requested # {} THEN IF requested \subseteq favorites THEN requested ELSE Null ELSE favorites

\* loadUserContext, then the checks that wait for nothing.  Scores of the
\* favorites need some; other scores are an overview without any.
LoadsUserContext(r) ==
  LET c == call[r]
      profile == P!GetUserProfile(db, c.ask.by)
      favorites == FavoritesOf(db, c.ask.by)
      sport == IF c.ask.sport # Null THEN c.ask.sport
               ELSE IF profile.sports \in {Null, <<>>} THEN Null ELSE profile.sports[1]
      teams == Authorized(c.ask.teams, favorites)
  IN /\ At(r, "context")
     /\ Goes(r, db,
          IF profile = Null THEN Answer(c, 404, Null)
          ELSE IF c.ask.op = "generate"
            THEN IF c.ask.team \in favorites THEN [c EXCEPT !.pc = "write"] ELSE Answer(c, 403, Null)
          ELSE IF c.ask.op = "teamScores"
            THEN IF favorites = {} THEN Answer(c, 404, Null)
                 ELSE [c EXCEPT !.teams = favorites, !.sport = c.ask.sport, !.ids = favorites,
                                !.pc = IF c.ask.sport # Null THEN "league" ELSE "games"]
          ELSE IF teams = Null THEN Answer(c, 403, Null)
          ELSE [c EXCEPT !.teams = teams, !.sport = sport, !.ids = teams,
                         !.pc = IF c.ask.op \in Lists /\ (teams = {} \/ sport # Null)
                                THEN "league" ELSE "games"])
     /\ UNCHANGED <<serial, fails>>

-----------------------------------------------------------------------------
\* Scores.

\* The teams are cut to those of the league; an overview has all of them.
LeagueListed(r) ==
  LET c == call[r]
      league == IF c.sport = Null THEN DOMAIN db.teams ELSE P!GetTeamsByLeague(db, c.sport)
      ids == IF c.teams = {} THEN league ELSE c.teams \cap league
  IN /\ At(r, "league")
     /\ Goes(r, db, IF c.ask.op = "teamScores" /\ ids = {} THEN Answer(c, 404, Null)
                    ELSE [c EXCEPT !.ids = ids, !.pc = "games"])
     /\ UNCHANGED <<serial, fails>>

GamesByTeamIds(ids, limit, since) ==
  IF store = "mem" THEN M!GetGamesByTeamIds(db, ids, limit, since, All)
  ELSE P!GetGamesByTeamIds(db, ids, limit, since, All)

Page(list, page, size) ==
  SubSeq(list, (page - 1) * size + 1, Smaller(page * size, Len(list)))

\* The limit of the query is for each team.
Listed(c, since) ==
  LET number == IF c.teams = {} /\ c.ids = {} THEN 1 ELSE Cardinality(c.ids)
  IN GamesByTeamIds(c.ids, c.ask.limit * number, since)

\* /api/schedule lists the last games to come, the soonest of them first.
Schedule(c) == {Page(Backwards(list), c.ask.page, 1) : list \in Listed(c, Now)}

\* The list is cut once more, and the rows of it are answered.
Rows(list) == [n \in DOMAIN list |-> db.games[list[n]]]
GamesListed(r) ==
  LET c == call[r]
      lists == CASE c.ask.op = "scores" -> {Page(list, c.ask.page, 1) : list \in Listed(c, 0)}
                 [] c.ask.op = "schedule" -> Schedule(c)
                 [] c.ask.op = "games" -> GamesByTeamIds(c.ids, 10 * Cardinality(c.ids), 0)
                 [] c.ask.op = "teamScores" -> {Page(list, 1, c.ask.limit) : list \in Listed(c, 0)}
  IN /\ At(r, "games") /\ c.ask.op # "boxScore"
     /\ \E games \in lists : Goes(r, db, Answer(c, 200, Rows(games)))
     /\ UNCHANGED <<serial, fails>>

\* /api/scores/:gameId, open to all who have no favorites.
GameFound(r) ==
  LET c == call[r]
      game == Find(db, "games", c.ask.game)
  IN /\ At(r, "games") /\ c.ask.op = "boxScore"
     /\ Goes(r, db, IF game = Null THEN Answer(c, 500, Null)
                    ELSE IF c.teams # {} /\ {game.homeTeamId, game.awayTeamId} \cap c.teams = {}
                    THEN Answer(c, 401, Null)
                    ELSE Answer(c, 200, <<game>>))
     /\ UNCHANGED <<serial, fails>>

-----------------------------------------------------------------------------
\* News, experiences, and the lists of development.

OfTeam(c, team) ==
  CASE c.ask.op = "updates" /\ c.ask.category = Null -> P!GetUpdatesByTeamId(db, team)
    [] c.ask.op = "updates" /\ c.ask.category # Null ->
         P!GetUpdatesByTeamAndCategory(db, team, c.ask.category)
    [] c.ask.op = "experiences" -> P!GetExperiencesByTeamId(db, team)

AllRows(c) ==
  IF c.ask.op = "updates"
  THEN {id \in DOMAIN db.updates : c.ask.category \in {Null, db.updates[id].category}}
  ELSE DOMAIN db[c.ask.op]

\* The rows of the teams are asked for team by team, in no order, and are put
\* together without repetitions; nobody compares the teams with the favorites.
RowsListed(r) ==
  LET c == call[r] IN
  /\ At(r, "list")
  /\ \/ /\ c.ids = {} /\ Goes(r, db, Answer(c, 200, AllRows(c)))
     \/ \E team \in c.ids :
          LET rows == c.rows \cup OfTeam(c, team)
          IN Goes(r, db, IF c.ids = {team} THEN Answer(c, 200, rows)
                         ELSE [c EXCEPT !.ids = @ \ {team}, !.rows = rows])
  /\ UNCHANGED <<serial, fails>>

\* healthz says how the database, Redis, the jobs and the sockets are; it fails for
\* none of them, and asks PostgreSQL only.
HealthChecked(r) ==
  /\ At(r, "check")
  /\ \E status \in {"ok", "degraded", "down"} :
       /\ status = "down" => store = "pg" /\ fails < MaxFails
       /\ fails' = IF status = "down" THEN fails + 1 ELSE fails
       /\ Goes(r, db, Answer(call[r], 200, status))
  /\ UNCHANGED serial

-----------------------------------------------------------------------------
\* Accounts and experiences.

\* Bug: the arguments are swapped.
BugHasRsvp(ask) ==
  IF store = "mem" THEN M!HasRsvp(db, ask.who, ask.id) ELSE P!HasRsvp(db, ask.who, ask.id)
HasRsvp(ask) ==
  IF store = "mem" THEN M!HasRsvp(db, ask.id, ask.who) ELSE P!HasRsvp(db, ask.id, ask.who)

\* A password is only compared when there is a user of that name.
LocalStrategy(c) ==
  IF P!GetUserByUsername(db, c.ask.name) = Null THEN Answer(c, 401, Null)
  ELSE [c EXCEPT !.pc = "verify"]

\* The last summary, whose absence counts as an error of the database, or an update.
FoundRow(c) ==
  LET update == Find(db, "updates", c.ask.id)
  IN IF c.ask.op = "summary"
     THEN {IF summary = <<>> THEN Answer(c, 500, Null) ELSE Answer(c, 200, summary) :
             summary \in P!GetLatestSummaryByTeamId(db, c.ask.team)}
     ELSE {IF update = Null THEN Answer(c, 404, Null) ELSE Answer(c, 200, update)}

\* What a handler reads before it writes.
Looks(r) ==
  LET c == call[r]
      profile == P!GetUserProfile(db, c.ask.who)
  IN /\ At(r, "look")
     /\ \E row \in IF c.ask.op \in Found THEN FoundRow(c) ELSE {Null} : Goes(r, db,
          CASE c.ask.op = "read" -> IF profile = Null THEN Answer(c, 404, Null) ELSE Answer(c, 200, profile)
            [] c.ask.op = "upsert" -> [c EXCEPT !.pc = "write", !.found = c.ask.who \in DOMAIN db.profiles]
            [] c.ask.op \in {"register", "createUser"} ->
                 IF P!GetUserByUsername(db, c.ask.name) # Null THEN Answer(c, 409, Null)
                 ELSE [c EXCEPT !.pc = "hash"]
            [] c.ask.op = "login" -> LocalStrategy(c)
            [] c.ask.op \in Found -> row
            [] c.ask.op = "rsvp" ->
                 IF HasRsvp(c.ask) THEN Answer(c, 409, Null) ELSE [c EXCEPT !.pc = "write"])
     /\ UNCHANGED <<serial, fails>>

PasswordHashed(r) ==
  /\ call[r].pc = "hash" /\ Turn(r)
  /\ Goes(r, db, [call[r] EXCEPT !.pc = "write"])
  /\ UNCHANGED <<serial, fails>>

PasswordVerified(r) ==
  /\ call[r].pc = "verify" /\ Turn(r)
  /\ \E status \in {200, 401} : Goes(r, db, Answer(call[r], status, Null))
  /\ UNCHANGED <<serial, fails>>

\* The routes of development make teams and games, without any check.
Developed(a) ==
  CASE a.op = "createTeam" /\ store = "mem" -> M!CreateTeam(db, a.team, a.row)
    [] a.op = "createTeam" /\ store = "pg"  -> P!CreateTeam(db, a.team, a.row)
    [] a.op = "createGame" /\ store = "mem" -> M!CreateGame(db, a.game, a.row)
    [] a.op = "createGame" /\ store = "pg"  -> P!CreateGame(db, a.game, a.row)

\* The storage call that a handler writes with.
Written(c) ==
  LET a == c.ask
      mem == store = "mem"
  IN CASE a.op = "upsert" ->
          IF c.found THEN IF mem THEN M!UpdateUserProfile(db, a.who, a.data)
                          ELSE P!UpdateUserProfile(db, a.who, a.data)
          ELSE IF mem THEN M!CreateUserProfile(db, a.who, a.data)
               ELSE P!CreateUserProfile(db, a.who, a.data)
       [] a.op \in {"patch", "onboarded"} ->
          IF mem THEN M!UpdateUserProfile(db, a.who, a.data) ELSE P!UpdateUserProfile(db, a.who, a.data)
       [] a.op \in {"register", "createUser"} ->
          LET user == [username |-> a.name]
          IN IF mem THEN M!CreateUser(db, serial, user) ELSE P!CreateUser(db, serial, user)
       [] a.op \in {"createTeam", "createGame"} -> Developed(a)
       [] a.op = "rsvp" ->
          LET row == [experienceId |-> a.id, userId |-> a.who]
          IN IF mem THEN M!CreateRsvp(db, serial, row) ELSE P!CreateRsvp(db, serial, row)
       [] a.op = "unrsvp" ->
          IF mem THEN M!DeleteRsvp(db, a.id, a.who) ELSE P!DeleteRsvp(db, a.id, a.who)
       [] a.op = "createExperience" ->
          LET row == [teamId |-> a.team, title |-> "party"]
          IN IF mem THEN M!CreateExperience(db, serial, row) ELSE P!CreateExperience(db, serial, row)
       [] a.op = "patchExperience" ->
          LET data == [title |-> "tailgate"]
          IN IF mem THEN M!UpdateExperience(db, a.id, data) ELSE P!UpdateExperience(db, a.id, data)
       [] a.op = "deleteExperience" ->
          IF mem THEN M!DeleteExperience(db, a.id) ELSE P!DeleteExperience(db, a.id)
       [] a.op = "generate" ->
          LET row == [teamId |-> a.team, generatedAt |-> serial]
          IN IF mem THEN M!CreateSummary(db, serial, row) ELSE P!CreateSummary(db, serial, row)

\* sendFriendlyDbError; registration and summaries do not use it.
StatusOf(op, error) ==
  IF op \in {"register", "generate"} THEN 500
  ELSE CASE error = P!Reference -> 422 [] error = P!Conflict -> 409 [] OTHER -> 500

Writes(r) ==
  LET c == call[r]
      w == Written(c)
  IN /\ At(r, "write")
     /\ Goes(r, w.db,
          IF w.error # Null THEN Answer(c, StatusOf(c.ask.op, w.error), Null)
          ELSE IF w.answer = Null /\ c.ask.op \in {"patch", "onboarded", "patchExperience"}
            THEN Answer(c, 404, Null)
          ELSE Answer(c, 200, w.answer))
     /\ serial' = IF c.ask.op \in Creating THEN serial + 1 ELSE serial
     /\ UNCHANGED fails

StorageFails(r) ==
  LET c == call[r] IN
  /\ store = "pg" /\ c.pc \in Storing
  /\ fails < MaxFails
  /\ fails' = fails + 1
  /\ \E tables \in {db} \cup (IF c.pc = "write" THEN {Written(c).db} ELSE {}) :
       Goes(r, tables, Answer(c, IF c.ask.op = "teamScores" /\ c.pc = "games" THEN 503 ELSE 500, Null))
  /\ serial' = IF c.ask.op \in Creating THEN serial + 1 ELSE serial

Serves(r) ==
  \/ LimitReached(r) \/ TokenRefused(r) \/ Authenticates(r) \/ LoadsUserContext(r)
  \/ LeagueListed(r) \/ GamesListed(r) \/ GameFound(r) \/ RowsListed(r)
  \/ HealthChecked(r) \/ Looks(r) \/ PasswordHashed(r) \/ PasswordVerified(r) \/ Writes(r) \/ StorageFails(r)

ApiNext == \E r \in Requests : Serves(r) \/ \E ask \in Asks : Arrives(r, ask)

ApiSpec == ApiInit /\ [][ApiNext]_api

-----------------------------------------------------------------------------
Acknowledged(r, ops) ==
  call[r].pc = "over" /\ call[r].ask.op \in ops /\ call[r].status = 200

(***************************************************************************)
(* An edit of a profile that was acknowledged is not lost: unless another  *)
(* edit of that column was in flight with it or came later, the profile    *)
(* has what it wrote, whatever edits of other columns ran meanwhile        *)
(* (routes.ts: upsert, onboarding, name, sports and teams).                *)
(***************************************************************************)
EditsKept ==
  \A r \in Requests :
    Acknowledged(r, Edits) =>
      LET a == call[r].ask
      IN \A column \in DOMAIN a.data :
           <<"profile", a.who, column>> \notin call[r].contested
             => db.profiles[a.who][column] = a.data[column]

(***************************************************************************)
(* An RSVP that was withdrawn is gone: unless the user was answering to    *)
(* the experience again meanwhile or later, no row of it is left.  The     *)
(* check for a duplicate and the insert are two calls, and the storages    *)
(* delete differently, the first row or all of them (routes.ts rsvp).      *)
(***************************************************************************)
Withdrawn ==
  \A r \in Requests :
    Acknowledged(r, {"unrsvp"}) =>
      LET a == call[r].ask
      IN <<"rsvp", a.who, a.id>> \notin call[r].contested => ~P!HasRsvp(db, a.id, a.who)

(***************************************************************************)
(* A user with favorites is shown their games only: every game of an       *)
(* answer is of a team that was a favorite at some time since the request  *)
(* arrived, though the favorites are read once and may be edited before    *)
(* the games are (validateTeamAccess and the score routes).                *)
(***************************************************************************)
FavoritesOnly ==
  \A r \in Requests :
    (Acknowledged(r, Scores) /\ ~call[r].overview) =>
      \A i \in DOMAIN call[r].body :
        LET game == call[r].body[i]
        IN {game.homeTeamId, game.awayTeamId} \cap call[r].favorites # {}
=============================================================================
