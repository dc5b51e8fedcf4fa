----------------------------- MODULE MCAccounts -----------------------------
(***************************************************************************)
(* The accounts and the pages of those who have one, one mode at a time.   *)
(*                                                                         *)
(* One instance of Storages and two of Api.  In mode "tables" the same     *)
(* calls are made on both storages, two teams of two leagues and a third   *)
(* that is not in the table, three games two of which start at one time.   *)
(* In mode "api" any requests of two users arrive; in mode "pages" the     *)
(* requests are those of a browser in which user 2 signs up, in and out;   *)
(* there only PostgreSQL, where requests interleave.                       *)
(*                                                                         *)
(* Of a page, the sport it has selected, with two profiles that share a    *)
(* sport, so that an edit may keep the selected sport, replace it, or      *)
(* leave none; its error handler with toasts; its notices; the detection   *)
(* of sports; their cache; the smart updates of its scores.                *)
(***************************************************************************)
EXTENDS AccountPages, Storages, SportSession, PageFeedback, SportDetection, SmartUpdates, TLC

CONSTANT Modes  \* what is run

MCGiven ==
  [NoRows EXCEPT
     !.teams = ("t1" :> [league |-> "NFL"]) @@ ("t2" :> [league |-> "NBA"])
               @@ ("t3" :> [league |-> "NFL"]),
     !.users = <<[username |-> "ann"]>>,
     !.profiles = <<[name |-> Null, sports |-> <<"NFL">>, teams |-> {"t1"}, done |-> TRUE]>>,
     !.experiences = 2 :> [teamId |-> "t1", title |-> "party"],
     !.updates = <<[teamId |-> "t1", category |-> "injuries", timestamp |-> 1]>>,
     !.games = ("g1" :> [homeTeamId |-> "t1", awayTeamId |-> "t2", startTime |-> 1])
               @@ ("g2" :> [homeTeamId |-> "t2", awayTeamId |-> "t3", startTime |-> 2])]

User1 == [by |-> 1, who |-> 1, sport |-> Null, teams |-> {}, limit |-> 1, page |-> 1]
User2 == [User1 EXCEPT !.by = 2, !.who = 2]
Anyone == [User1 EXCEPT !.by = Null]
MCGame == [homeTeamId |-> "t3", awayTeamId |-> "t1", startTime |-> 3]
MCAsks == {
  [op |-> "read"] @@ User1,
  [op |-> "upsert", data |-> [sports |-> <<"NBA">>, teams |-> {"t1", "t2"}]] @@ User1,
  [op |-> "upsert", data |-> [name |-> "n"]] @@ User2,
  [op |-> "onboarded", data |-> [done |-> TRUE]] @@ User2,
  [op |-> "patch", data |-> [name |-> "m"]] @@ User1,
  [op |-> "patch", data |-> [teams |-> {"t3"}]] @@ User1,
  [op |-> "register", by |-> Null, name |-> "bob"],
  [op |-> "rsvp", id |-> 2] @@ User1,
  [op |-> "unrsvp", id |-> 2] @@ User1,
  [op |-> "createExperience", team |-> "t1"] @@ User1,
  [op |-> "patchExperience", id |-> 2] @@ User1,
  [op |-> "deleteExperience", id |-> 2] @@ User1,
  [op |-> "generate", team |-> "t1"] @@ User1,
  [op |-> "scores"] @@ User1,
  [op |-> "scores"] @@ User2,
  [User1 EXCEPT !.sport = "NBA", !.teams = {"t1", "t2"}] @@ [op |-> "scores"],
  [User1 EXCEPT !.sport = "NBA"] @@ [op |-> "schedule"],
  [User1 EXCEPT !.sport = "NFL"] @@ [op |-> "teamScores"],
  [op |-> "boxScore", game |-> "g2"] @@ User1,
  [op |-> "updates", category |-> "injuries"] @@ [Anyone EXCEPT !.teams = {"t1", "t2"}],
  [op |-> "update", id |-> 1] @@ Anyone,
  [op |-> "experiences"] @@ [User2 EXCEPT !.teams = {"t1", "t2"}],
  [op |-> "summary", team |-> "t1"] @@ Anyone,
  [op |-> "login", name |-> "ann"] @@ Anyone,
  [op |-> "createUser", name |-> "bob"] @@ Anyone,
  [op |-> "createTeam", team |-> "t4", row |-> [league |-> "NBA"]] @@ Anyone,
  [op |-> "createGame", game |-> "g3", row |-> MCGame] @@ Anyone,
  [op |-> "games"] @@ Anyone,
  [op |-> "health"] @@ Anyone,
  [op |-> "read", by |-> 2, who |-> 1] }

MCSportList == <<"NBA">>

MCTeams == ("t1" :> [league |-> "NFL"]) @@ ("t2" :> [league |-> "NBA"])
MCUsers == <<[username |-> "ann"], [username |-> "bob"]>>
MCGame1 == [homeTeamId |-> "t1", awayTeamId |-> "t2", homePts |-> 1, awayPts |-> 0,
            startTime |-> 1, cachedAt |-> 0]
MCParty == [teamId |-> "t1", title |-> "party", startTime |-> 5]
MCWithTeams == [NoRows EXCEPT !.teams = MCTeams]
MCAreas ==
  [people |-> NoRows,
   favorites |-> [MCWithTeams EXCEPT !.users = MCUsers,
                                     !.userTeams = <<[userId |-> 1, teamId |-> "t1"]>>],
   games |-> [MCWithTeams EXCEPT !.games = "g1" :> MCGame1],
   events |-> [MCWithTeams EXCEPT !.users = MCUsers, !.experiences = <<MCParty>>],
   articles |-> MCWithTeams, sources |-> MCWithTeams]
MCStartTime == ("g1" :> 1) @@ ("g2" :> 3) @@ ("g3" :> 3)

MCFavoriteLists == {<<"NBA", "NFL">>, <<"MLB", "NFL">>}

MCSegments == [nba |-> "NBA", nfl |-> "NFL"]
MCPaths == {<<"sports", "nba">>, <<"nfl", "nba">>, <<"settings">>}

\* A throttled and a batched request of one game, one that waits for the
\* first, and a deferred one.
MCWanted ==
  {ScoreUpdateOf("g1", High),
   [StatusUpdateOf("g2", Medium) EXCEPT !.cond = "deferred"],
   [SportChangeTo("A", High) EXCEPT !.deps = {1}]}
  \cup BatchOf({ScoreUpdateOf("g1", Low)})

VARIABLE mode
session == <<vars, feedback, detectionVars, cacheVars, smart>>
accountVars == <<mode, storages, api, pages, session>>
Symmetry == Permutations(Requests)

\* Bound: beside a request that is not of the user's own profile or RSVPs there is
\* one other.
Beside ==
  (\E r \in Requests : InFlight(call[r]) /\ call[r].ask.op \notin Own)
    => \E r \in Requests : call[r] = NoCall

\* Bound: a browser has two requests in flight, those of earlier pages included.
TwoRequests == \E r \in Requests : call[r] = NoCall

AccountsInit ==
  /\ mode \in Modes
  /\ StoragesInit /\ ApiInit /\ PagesInit({})
  /\ mode # "api" => store = "pg"
  /\ mode # "tables" => area = "people"
  /\ Init /\ FeedbackInit /\ (mode # "errors" => ~own)
  /\ DetectionInit /\ CacheInit /\ SmartInit

AccountsNext ==
  \/ mode = "tables" /\ StoragesNext /\ UNCHANGED <<api, pages>>
  \/ mode = "api" /\ ApiNext /\ Beside' /\ UNCHANGED <<storages, pages>>
  \/ mode = "pages" /\ PagesNext /\ TwoRequests' /\ UNCHANGED storages

SessionNext ==
  /\ IF mode = "session" THEN Next ELSE UNCHANGED vars
  /\ IF mode = "detection" THEN DetectionNext ELSE UNCHANGED detectionVars
  /\ IF mode = "cache" THEN CacheNext ELSE UNCHANGED cacheVars
  /\ IF mode = "smart" THEN SmartNext ELSE UNCHANGED smart
  /\ \/ mode = "errors" /\ ErrorsNext /\ UNCHANGED noticeVars
     \/ mode = "notices" /\ NoticesNext /\ UNCHANGED <<errorVars, toastVars>>
     \/ mode \in {"session", "detection", "cache", "smart"} /\ UNCHANGED feedback

SignedInNext ==
  /\ UNCHANGED mode
  /\ \/ AccountsNext /\ UNCHANGED session
     \/ SessionNext /\ UNCHANGED <<storages, api, pages>>

SignedInSpec == AccountsInit /\ [][SignedInNext]_accountVars
=============================================================================
