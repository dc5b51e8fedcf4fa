------------------------------ MODULE TeamScores ------------------------------
(***************************************************************************)
(* The scores of a user's favorite teams: ScoresAgent.fetchUserTeamScores  *)
(* (server/agents/scoresAgent.ts) on top of runOnce, with a cache of its   *)
(* own in Redis, one entry per user, sport and mode.                       *)
(*                                                                         *)
(* The profile is read twice, and the cache, the run and the write of the  *)
(* cache are awaited, so fetches of a user overlap with each other and     *)
(* with edits of the favorites.  runOnce is one step here; ScoresIngest    *)
(* has its inside.  An entry may expire at any time: only the order counts.*)
(***************************************************************************)
EXTENDS Naturals, FiniteSets

CONSTANTS
  Fetchers,    \* concurrent calls of fetchUserTeamScores
  People,      \* firebaseUid
  Favorable,   \* what a profile may list as a favorite team
  Lists,       \* the lists of favorites to look at
  Valid,       \* those that are team ids (LEAGUE_CODE)
  Prefix,      \* what precedes the first underscore of each: its league, if valid
  Code,        \* what follows it, if valid
  Fixtures,    \* games: records [league, codes]
  Asked,       \* options of the calls: records [uid, sport, mode]
  Source,      \* the league of the agent's adapter
  NoSport,     \* sport is undefined
  NoEntry,     \* nothing is cached
  MaxProfileEdits, MaxFailedReads  \* bounds

Modes == {"live", "schedule", "featured"}

ASSUME TeamScoresAssumption ==
  /\ Valid \subseteq Favorable /\ Lists \subseteq SUBSET Favorable
  /\ \A a \in Asked : a.uid \in People /\ a.mode \in Modes

VARIABLES
  profiles,    \* user -> favoriteTeams, or NoEntry without a profile
  caching,     \* is Redis there
  entries,     \* key -> games cached
  fetch,       \* the call each fetcher is making
  favored,     \* history: every favorite a user has had
  profileEdits, failedReads
teamScores == <<profiles, caching, entries, fetch, favored, profileEdits, failedReads>>

BugKeyWithoutMode(a) == <<a.uid, a.sport, "live">>

\* makeUserTeamCacheKey
UserKey(a) == <<a.uid, a.sport, a.mode>>
Keys == {UserKey(a) : a \in Asked} \cup {BugKeyWithoutMode(a) : a \in Asked}

Nothing == [at |-> "idle", ask |-> NoEntry, teams |-> {}, games |-> {}]

TeamScoresInit ==
  /\ profiles \in [People -> {NoEntry} \cup Lists]
  /\ caching \in BOOLEAN
  /\ entries = [k \in Keys |-> NoEntry]
  /\ fetch = [c \in Fetchers |-> Nothing]
  /\ favored = [u \in People |-> IF profiles[u] = NoEntry THEN {} ELSE profiles[u]]
  /\ profileEdits = 0 /\ failedReads = 0

TeamScoresTypeOK ==
  /\ profiles \in [People -> {NoEntry} \cup SUBSET Favorable]
  /\ entries \in [Keys -> {NoEntry} \cup SUBSET Fixtures]
  /\ fetch \in [Fetchers -> [at : {"idle", "profile", "teams", "cache", "run", "store", "answered", "rejected"},
                             ask : Asked \cup {NoEntry}, teams : SUBSET Favorable,
                             games : SUBSET Fixtures]]
  /\ favored \in [People -> SUBSET Favorable]

Goes(c, at) == fetch' = [fetch EXCEPT ![c].at = at]
Ask(c) == fetch[c].ask

\* UserTeamScoresError: no profile, no team, or a read that failed.
Rejected(c) == Goes(c, "rejected")
ReadFails(c) ==
  /\ failedReads < MaxFailedReads /\ failedReads' = failedReads + 1
  /\ Rejected(c)

Begins(c) ==
  /\ fetch[c].at = "idle"
  /\ \E a \in Asked : fetch' = [fetch EXCEPT ![c] = [Nothing EXCEPT !.at = "profile", !.ask = a]]
  /\ UNCHANGED <<profiles, caching, entries, favored, profileEdits, failedReads>>

\* The first read of the profile only tells whether there is one.
ProfileIsThere(c) ==
  /\ fetch[c].at = "profile"
  /\ \/ /\ IF profiles[Ask(c).uid] = NoEntry THEN Rejected(c) ELSE Goes(c, "teams")
        /\ UNCHANGED failedReads
     \/ ReadFails(c)
  /\ UNCHANGED <<profiles, caching, entries, favored, profileEdits>>

\* The favorites of the asked sport, by the prefix of their ids.
OfSport(teams, sport) == {t \in teams : sport # NoSport => Prefix[t] = sport}

\* getUserFavoriteTeams reads it again.
TeamsRead(c) ==
  /\ fetch[c].at = "teams"
  /\ \/ LET had == profiles[Ask(c).uid]
            teams == IF had = NoEntry THEN {} ELSE OfSport(had, Ask(c).sport)
        IN  /\ IF teams = {} THEN Rejected(c)
               ELSE fetch' = [fetch EXCEPT ![c].teams = teams,
                                           ![c].at = IF Ask(c).mode = "schedule" THEN "run" ELSE "cache"]
            /\ UNCHANGED failedReads
     \/ ReadFails(c)
  /\ UNCHANGED <<profiles, caching, entries, favored, profileEdits>>

\* getCachedUserTeamScores: an entry answers, whatever the favorites are now.
CacheAnswers(c) ==
  /\ fetch[c].at = "cache" /\ caching
  /\ entries[UserKey(Ask(c))] # NoEntry
  /\ fetch' = [fetch EXCEPT ![c].games = entries[UserKey(Ask(c))], ![c].teams = {},
                             ![c].at = "answered"]
  /\ UNCHANGED <<profiles, caching, entries, favored, profileEdits, failedReads>>

\* No Redis, no entry, or a read that failed.
NotCached(c) ==
  /\ fetch[c].at = "cache"
  /\ IF caching /\ entries[UserKey(Ask(c))] # NoEntry
     THEN failedReads < MaxFailedReads /\ failedReads' = failedReads + 1
     ELSE UNCHANGED failedReads
  /\ Goes(c, "run")
  /\ UNCHANGED <<profiles, caching, entries, favored, profileEdits>>

\* What runOnce may give for these teams: live scores of the adapter's league
\* are checked for the teams; a schedule only has their codes, or all games
\* without any; featured games are nobody's, and come from a cache that the
\* agents of other leagues also fill.  A live run without a valid team does
\* nothing.
Found(teams, a) ==
  LET ids == teams \cap Valid
      codes == {Code[t] : t \in ids}
      shown == {f \in Fixtures : f.league = Source}
  IN  CASE ids # {} /\ a.mode # "schedule" ->
             {f \in shown : \E t \in ids : Prefix[t] = f.league /\ Code[t] \in f.codes}
        [] ids # {} /\ a.mode = "schedule" -> {f \in shown : f.codes \cap codes # {}}
        [] ids = {} /\ a.mode = "schedule" -> shown
        [] ids = {} /\ a.mode = "featured" -> Fixtures
        [] ids = {} /\ a.mode = "live" -> {}

\* runOnce returns, with nothing if the source failed; only games that are to
\* be cached take another await.
RunReturns(c) ==
  /\ fetch[c].at = "run"
  /\ \E games \in SUBSET Found(fetch[c].teams, Ask(c)) :
       fetch' = [fetch EXCEPT ![c].games = games, ![c].teams = {},
                   ![c].at = IF Ask(c).mode # "schedule" /\ games # {} THEN "store"
                                                                   ELSE "answered"]
  /\ UNCHANGED <<profiles, caching, entries, favored, profileEdits, failedReads>>

\* cacheUserTeamScores; an error is only logged.
Stored(c) ==
  /\ fetch[c].at = "store"
  /\ Goes(c, "answered")
  /\ \/ /\ caching
        /\ entries' = [entries EXCEPT ![UserKey(Ask(c))] = fetch[c].games]
        /\ UNCHANGED failedReads
     \/ /\ caching => failedReads < MaxFailedReads
        /\ failedReads' = failedReads + (IF caching THEN 1 ELSE 0)
        /\ UNCHANGED entries
  /\ UNCHANGED <<profiles, caching, favored, profileEdits>>

Taken(c) ==
  /\ fetch[c].at \in {"answered", "rejected"}
  /\ fetch' = [fetch EXCEPT ![c] = Nothing]
  /\ UNCHANGED <<profiles, caching, entries, favored, profileEdits, failedReads>>

\* A minute after a live answer, five after others.
EntryExpires(k) ==
  /\ entries[k] # NoEntry
  /\ entries' = [entries EXCEPT ![k] = NoEntry]
  /\ UNCHANGED <<profiles, caching, fetch, favored, profileEdits, failedReads>>

FavoritesChange(u) ==
  /\ profileEdits < MaxProfileEdits /\ profileEdits' = profileEdits + 1
  /\ \E teams \in Lists :
       /\ profiles' = [profiles EXCEPT ![u] = teams]
       /\ favored' = [favored EXCEPT ![u] = @ \cup teams]
  /\ UNCHANGED <<caching, entries, fetch, failedReads>>

TeamScoresNext ==
  \/ \E c \in Fetchers :
       \/ Begins(c) \/ ProfileIsThere(c) \/ TeamsRead(c) \/ CacheAnswers(c) \/ NotCached(c)
       \/ RunReturns(c) \/ Stored(c) \/ Taken(c)
  \/ \E k \in Keys : EntryExpires(k)
  \/ \E u \in People : FavoritesChange(u)

TeamScoresSpec == TeamScoresInit /\ [][TeamScoresNext]_teamScores

-----------------------------------------------------------------------------
(***************************************************************************)
(* A live answer has only games of teams that this user has had as         *)
(* favorites, in the league that was asked for: not another user's, not    *)
(* another sport's, and not the featured games that a list without valid   *)
(* ids is given in the other modes, although all go through one cache.     *)
(***************************************************************************)
OwnGames ==
  \A c \in Fetchers :
    fetch[c].at = "answered" /\ Ask(c).mode = "live" =>
      \A f \in fetch[c].games :
        \E t \in OfSport(favored[Ask(c).uid], Ask(c).sport) \cap Valid :
          Prefix[t] = f.league /\ Code[t] \in f.codes

=============================================================================
