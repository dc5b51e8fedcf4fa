----------------------------- MODULE ScoresIngest -----------------------------
(***************************************************************************)
(* How scores enter the server: ScoresAgent.runOnce                        *)
(* (server/agents/scoresAgent.ts) run by the workers of the scores_ingest  *)
(* queue (server/jobs/workers.ts, concurrency 2) and by the handlers of    *)
(* POST /api/scores/refresh (server/routes.ts), over one storage           *)
(* (MemStorage or PgStorage) and one Redis cache.                          *)
(*                                                                         *)
(* A slot is a worker or a refresh request; run[s] is the call of runOnce  *)
(* it is making.  Every await of runOnce is a boundary between actions, so *)
(* the runs of two teams of the same game interleave as they do in Node.   *)
(* storage.createGame and the broadcast that follows it are one action:    *)
(* nothing else that touches the game or the sockets runs in between that  *)
(* could change their order.                                               *)
(***************************************************************************)
EXTENDS Naturals, Sequences, FiniteSets

CONSTANTS
  Workers,       \* the concurrent processors of the scores_ingest queue
  Requests,      \* concurrent POST /api/scores/refresh requests
  Sports,        \* the leagues
  DefaultSport,  \* what runOnce assumes when no sport is given ("NBA")
  Teams, TeamSport,    \* teams, and the league prefix of a team id
  Games, TeamsOf,      \* games, and the home and away team of each
  RefreshTeams,        \* the authorized team sets refresh requests carry
  Timeline,      \* what the outside source says of a game, in order
  None,          \* no value
  Absent         \* a game without a period (undefined when fetched)

Statuses == {"scheduled", "in_progress", "final"}
Data == [pts : Nat, status : Statuses, period : Nat \cup {Absent}]
Maybe(S) == S \cup {None}

ASSUME IngestAssumption ==
  /\ Workers \cap Requests = {}
  /\ DefaultSport \in Sports
  /\ TeamSport \in [Teams -> Sports]
  /\ TeamsOf \in [Games -> SUBSET Teams]
  /\ \A g \in Games : \E s \in Sports : \A t \in TeamsOf[g] : TeamSport[t] = s
  /\ RefreshTeams \subseteq SUBSET Teams
  /\ Timeline \in Seq(Data) /\ Timeline # <<>>
  /\ None \notin Data
  /\ Absent \notin Nat

VARIABLES
  storageKind,   \* which IStorage the process was started with
  redis,         \* is REDIS_URL set
  phase,         \* how far each game is along the Timeline
  stored,        \* the games table
  teamCache,     \* scores:teams:<ids>
  featuredCache, \* scores:sport:<sport>:featured
  refreshInFlight,
  run,           \* the call of runOnce each slot is making
  wire           \* what the last step handed to the WebSocket server

vars == <<storageKind, redis, phase, stored, teamCache, featuredCache,
          refreshInFlight, run, wire>>

Slots == Workers \cup Requests
Stages == {"idle", "cache", "fetch", "work", "returned"}
Tries == {"primary", "fallback", "last"}
GameList == [Games -> Maybe(Data)]
NoGames == [g \in Games |-> None]
In(list) == {g \in Games : list[g] # None}
GamesOf(T) == {g \in Games : TeamsOf[g] \cap T # {}}
GamesIn(sport) == {g \in Games : \A t \in TeamsOf[g] : TeamSport[t] = sport}

Run == [stage : Stages, teams : SUBSET Teams, sport : Sports, adapter : Sports,
        try : Tries, items : GameList, undetected : SUBSET Games,
        unsaved : SUBSET Games, scoreChanges : SUBSET Games,
        statusChanges : SUBSET Games, out : GameList, errors : BOOLEAN]

\* A call of runOnce with these arguments on the adapter of a league.
RunOnce(teams, sport, adapter, try) ==
  [stage |-> "cache", teams |-> teams, sport |-> sport, adapter |-> adapter,
   try |-> try, items |-> NoGames, undetected |-> {}, unsaved |-> {},
   scoreChanges |-> {}, statusChanges |-> {}, out |-> NoGames, errors |-> FALSE]

Idle == [RunOnce({}, DefaultSport, DefaultSport, "primary") EXCEPT !.stage = "idle"]

Message == [kind : {"score"}, game : Games, pts : Nat]
             \cup [kind : {"status"}, game : Games, status : Statuses]

TypeOK ==
  /\ storageKind \in {"mem", "pg"}
  /\ redis \in BOOLEAN
  /\ phase \in [Games -> 1..Len(Timeline)]
  /\ stored \in GameList
  /\ teamCache \in [SUBSET Teams -> Maybe(GameList)]
  /\ featuredCache \in [Sports -> Maybe(GameList)]
  /\ refreshInFlight \subseteq Sports
  /\ run \in [Slots -> Run]
  /\ wire \subseteq Message

Init ==
  /\ storageKind \in {"mem", "pg"}
  /\ redis \in BOOLEAN
  /\ phase = [g \in Games |-> 1]
  /\ stored = NoGames
  /\ teamCache = [T \in SUBSET Teams |-> None]
  /\ featuredCache = [s \in Sports |-> None]
  /\ refreshInFlight = {}
  /\ run = [s \in Slots |-> Idle]
  /\ wire = {}

setup == <<storageKind, redis>>
caches == <<teamCache, featuredCache>>

-----------------------------------------------------------------------------
\* The outside world.

\* A game moves on at the source.
GameProgresses(g) ==
  /\ phase[g] < Len(Timeline)
  /\ phase' = [phase EXCEPT ![g] = @ + 1]
  /\ wire' = {}
  /\ UNCHANGED <<setup, stored, caches, refreshInFlight, run>>

\* A cached entry reaches its TTL, or the maintenance job deletes its key.
CacheExpires ==
  /\ \/ \E T \in SUBSET Teams :
          /\ teamCache[T] # None
          /\ teamCache' = [teamCache EXCEPT ![T] = None]
          /\ UNCHANGED featuredCache
     \/ \E s \in Sports :
          /\ featuredCache[s] # None
          /\ featuredCache' = [featuredCache EXCEPT ![s] = None]
          /\ UNCHANGED teamCache
  /\ wire' = {}
  /\ UNCHANGED <<setup, phase, stored, refreshInFlight, run>>

-----------------------------------------------------------------------------
\* Who calls runOnce.

\* A worker takes a repeatable job: a live job of one team, or the featured
\* job of one league.  Without Redis there are no workers.  When the first
\* progress report rejects, the job goes straight to its last resort, which
\* runs without the sport and the mode, so runOnce falls back to its defaults.
StartJob(w) ==
  /\ redis
  /\ run[w].stage = "idle"
  /\ \E T \in {{}} \cup {{t} : t \in Teams}, s \in Sports :
       /\ \A t \in T : TeamSport[t] = s
       /\ \/ run' = [run EXCEPT ![w] = RunOnce(T, s, s, "primary")]
          \/ run' = [run EXCEPT ![w] = RunOnce(T, DefaultSport, s, "last")]
  /\ wire' = {}
  /\ UNCHANGED <<setup, phase, stored, caches, refreshInFlight>>

\* The primary run had errors or nothing to show: run once more.
Fallback(w) ==
  /\ run[w].stage = "returned"
  /\ run[w].try = "primary"
  /\ run[w].errors \/ In(run[w].out) = {}
  /\ run' = [run EXCEPT ![w] =
               RunOnce(run[w].teams, run[w].sport, run[w].adapter, "fallback")]
  /\ wire' = {}
  /\ UNCHANGED <<setup, phase, stored, caches, refreshInFlight>>

\* job.log or job.updateProgress rejected after a run: the last resort.
LastResort(w) ==
  /\ run[w].stage = "returned"
  /\ run[w].try # "last"
  /\ run' = [run EXCEPT ![w] =
               RunOnce(run[w].teams, DefaultSport, run[w].adapter, "last")]
  /\ wire' = {}
  /\ UNCHANGED <<setup, phase, stored, caches, refreshInFlight>>

\* The job completes; or it fails, because logging the error rejected too, and
\* BullMQ starts it again later.
JobEnds(w) ==
  /\ run[w].stage = "returned"
  /\ run' = [run EXCEPT ![w] = Idle]
  /\ wire' = {}
  /\ UNCHANGED <<setup, phase, stored, caches, refreshInFlight>>

\* A refresh request the guard lets through.
RefreshStarts(q) ==
  /\ run[q].stage = "idle"
  /\ \E s \in Sports \ refreshInFlight, T \in RefreshTeams :
       /\ refreshInFlight' = refreshInFlight \cup {s}
       /\ run' = [run EXCEPT ![q] = RunOnce(T, s, s, "primary")]
  /\ wire' = {}
  /\ UNCHANGED <<setup, phase, stored, caches>>

\* One more refresh request, which the guard refuses: the throw unwinds through
\* the same finally clause, which deletes the key of the refresh that is running.
RefreshRefused ==
  /\ \E s \in refreshInFlight : refreshInFlight' = refreshInFlight \ {s}
  /\ wire' = {}
  /\ UNCHANGED <<setup, phase, stored, caches, run>>

\* Bug: the guard is cleared only after a run without errors.
BugRefreshLeaksGuard(q) ==
  /\ run[q].stage = "returned"
  /\ refreshInFlight' = IF run[q].errors THEN refreshInFlight
                        ELSE refreshInFlight \ {run[q].sport}
  /\ run' = [run EXCEPT ![q] = Idle]
  /\ wire' = {}
  /\ UNCHANGED <<setup, phase, stored, caches>>

RefreshReturns(q) ==
  /\ run[q].stage = "returned"
  /\ refreshInFlight' = refreshInFlight \ {run[q].sport}
  /\ run' = [run EXCEPT ![q] = Idle]
  /\ wire' = {}
  /\ UNCHANGED <<setup, phase, stored, caches>>

-----------------------------------------------------------------------------
\* runOnce.  An empty team list means featured mode.

Live(s) == run[s].teams # {}
\* What is left of a call that returned: its arguments and its result.
Returned(r, out, errors) ==
  [RunOnce(r.teams, r.sport, r.adapter, r.try)
     EXCEPT !.stage = "returned", !.out = out, !.errors = errors]

Cached(s) == IF Live(s) THEN teamCache[run[s].teams]
                        ELSE featuredCache[run[s].sport]

\* The cache short-circuit.
CacheHit(s) ==
  /\ run[s].stage = "cache"
  /\ redis
  /\ Cached(s) # None
  /\ run' = [run EXCEPT ![s] = Returned(@, Cached(s), FALSE)]
  /\ wire' = {}
  /\ UNCHANGED <<setup, phase, stored, caches, refreshInFlight>>

\* No Redis, no entry, or a failed read.
CacheMiss(s) ==
  /\ run[s].stage = "cache"
  /\ run' = [run EXCEPT ![s].stage = "fetch"]
  /\ wire' = {}
  /\ UNCHANGED <<setup, phase, stored, caches, refreshInFlight>>

\* Bug: the source's answer is not filtered by team.
BugSelectUnfiltered(s, found) ==
  [g \in Games |->
    IF g \in found
      THEN IF Live(s) THEN Timeline[phase[g]]
           ELSE [Timeline[phase[g]] EXCEPT !.pts = 0, !.period = Absent]
      ELSE None]

\* What runOnce makes of the games the adapter found: the validated live
\* scores of the requested teams, or the featured schedule, which carries no
\* score and no period.
Select(s, found) ==
  [g \in Games |->
    CASE Live(s) /\ g \in found \cap GamesOf(run[s].teams) -> Timeline[phase[g]]
      [] ~Live(s) /\ g \in found ->
           [Timeline[phase[g]] EXCEPT !.pts = 0, !.period = Absent]
      [] OTHER -> None]

Fetch(s) ==
  /\ run[s].stage = "fetch"
  /\ \E found \in SUBSET GamesIn(run[s].adapter) :
       LET items == Select(s, found) IN
       run' = [run EXCEPT ![s].stage = "work", ![s].items = items,
                          ![s].undetected = In(items), ![s].unsaved = In(items)]
  /\ wire' = {}
  /\ UNCHANGED <<setup, phase, stored, caches, refreshInFlight>>

FetchFails(s) ==
  /\ run[s].stage = "fetch"
  /\ run' = [run EXCEPT ![s] = Returned(@, NoGames, TRUE)]
  /\ wire' = {}
  /\ UNCHANGED <<setup, phase, stored, caches, refreshInFlight>>

\* The storage keeps null for a missing period and the fetched item has
\* undefined, so a game without a period always differs.
PeriodDiffers(old, new) == new.period = Absent \/ old.period # new.period

\* detectGameChanges, one game: compare with what is stored now.
Detect(s) ==
  /\ run[s].stage = "work"
  /\ \E g \in run[s].undetected :
       LET new == run[s].items[g]
           old == stored[g]
           score == old # None /\ old.pts # new.pts
           status == old = None \/ old.status # new.status \/ PeriodDiffers(old, new)
       IN run' = [run EXCEPT
                    ![s].undetected = @ \ {g},
                    ![s].scoreChanges = IF score THEN @ \cup {g} ELSE @,
                    ![s].statusChanges = IF status THEN @ \cup {g} ELSE @]
  /\ wire' = {}
  /\ UNCHANGED <<setup, phase, stored, caches, refreshInFlight>>

\* detectGameChanges when getGame rejects: treat the game as new.
DetectFails(s) ==
  /\ run[s].stage = "work"
  /\ storageKind = "pg"
  /\ \E g \in run[s].undetected :
       run' = [run EXCEPT ![s].undetected = @ \ {g},
                          ![s].statusChanges = @ \cup {g}]
  /\ wire' = {}
  /\ UNCHANGED <<setup, phase, stored, caches, refreshInFlight>>

Announce(s, g, data) ==
  wire' = (IF g \in run[s].scoreChanges
             THEN {[kind |-> "score", game |-> g, pts |-> data.pts]} ELSE {})
          \cup (IF g \in run[s].statusChanges
             THEN {[kind |-> "status", game |-> g, status |-> data.status]} ELSE {})

Persisting(s, g) ==
  /\ run[s].stage = "work"
  /\ run[s].undetected = {}
  /\ g \in run[s].unsaved

\* Bug: PgStorage overwrites like MemStorage.
BugPersistUpserts(s) ==
  \E g \in Games :
    /\ Persisting(s, g)
    /\ stored' = [stored EXCEPT ![g] = run[s].items[g]]
    /\ run' = [run EXCEPT ![s].unsaved = @ \ {g},
                          ![s].out[g] = run[s].items[g]]
    /\ Announce(s, g, run[s].items[g])
    /\ UNCHANGED <<setup, phase, caches, refreshInFlight>>

\* createGame stores the item: MemStorage overwrites, PgStorage inserts.
\* Then the change detected earlier is broadcast.
Persist(s) ==
  \E g \in Games :
    /\ Persisting(s, g)
    /\ storageKind = "pg" => stored[g] = None
    /\ stored' = [stored EXCEPT ![g] = run[s].items[g]]
    /\ run' = [run EXCEPT ![s].unsaved = @ \ {g},
                          ![s].out[g] = run[s].items[g]]
    /\ Announce(s, g, run[s].items[g])
    /\ UNCHANGED <<setup, phase, caches, refreshInFlight>>

\* Bug: a game that is already there counts as saved and is broadcast.
BugPersistConflict(s) ==
  \E g \in Games :
    /\ Persisting(s, g)
    /\ storageKind = "pg" /\ stored[g] # None
    /\ run' = [run EXCEPT ![s].unsaved = @ \ {g},
                          ![s].out[g] = run[s].items[g]]
    /\ Announce(s, g, run[s].items[g])
    /\ UNCHANGED <<setup, phase, stored, caches, refreshInFlight>>

\* PgStorage rejects the insert of a game it has with 23505: skipped.
PersistConflict(s) ==
  \E g \in Games :
    /\ Persisting(s, g)
    /\ storageKind = "pg" /\ stored[g] # None
    /\ run' = [run EXCEPT ![s].unsaved = @ \ {g}]
    /\ wire' = {}
    /\ UNCHANGED <<setup, phase, stored, caches, refreshInFlight>>

\* Any other error of the insert.
PersistFails(s) ==
  \E g \in Games :
    /\ Persisting(s, g)
    /\ storageKind = "pg"
    /\ run' = [run EXCEPT ![s].unsaved = @ \ {g}, ![s].errors = TRUE]
    /\ wire' = {}
    /\ UNCHANGED <<setup, phase, stored, caches, refreshInFlight>>

FillCache(s, list) ==
  IF Live(s)
    THEN /\ teamCache' = [teamCache EXCEPT ![run[s].teams] = list]
         /\ UNCHANGED featuredCache
    ELSE /\ featuredCache' = [featuredCache EXCEPT ![run[s].sport] = list]
         /\ UNCHANGED teamCache

Finished(s) ==
  /\ run[s].stage = "work"
  /\ run[s].undetected = {}
  /\ run[s].unsaved = {}

\* runOnce caches what it saved and returns it.
Return(s) ==
  /\ Finished(s)
  /\ redis
  /\ In(run[s].out) # {}
  /\ FillCache(s, run[s].out)
  /\ run' = [run EXCEPT ![s] = Returned(@, @.out, @.errors)]
  /\ wire' = {}
  /\ UNCHANGED <<setup, phase, stored, refreshInFlight>>

\* It saved nothing, there is no Redis, or the write failed.
ReturnUncached(s) ==
  /\ Finished(s)
  /\ run' = [run EXCEPT ![s] = Returned(@, @.out, @.errors)]
  /\ wire' = {}
  /\ UNCHANGED <<setup, phase, stored, caches, refreshInFlight>>

-----------------------------------------------------------------------------

RunStep(s) ==
  \/ CacheHit(s) \/ CacheMiss(s)
  \/ Fetch(s) \/ FetchFails(s)
  \/ Detect(s) \/ DetectFails(s)
  \/ Persist(s) \/ PersistConflict(s) \/ PersistFails(s)
  \/ Return(s) \/ ReturnUncached(s)

WorkerStep(w) == StartJob(w) \/ Fallback(w) \/ LastResort(w) \/ JobEnds(w)

RequestStep(q) == RefreshStarts(q) \/ RefreshReturns(q)

Next ==
  \/ \E s \in Slots : RunStep(s)
  \/ \E w \in Workers : WorkerStep(w)
  \/ \E q \in Requests : RequestStep(q)
  \/ RefreshRefused
  \/ \E g \in Games : GameProgresses(g)
  \/ CacheExpires

Spec == Init /\ [][Next]_vars

\* Every await of runOnce settles, and a handler whose run returned goes on to
\* its finally clause.  Nothing makes a job or a request start.
Fairness ==
  /\ \A s \in Slots : WF_vars(RunStep(s))
  /\ \A q \in Requests : WF_vars(RefreshReturns(q))

FairSpec == Spec /\ Fairness

-----------------------------------------------------------------------------

\* Team isolation: what is cached for a set of teams, and what a live run for
\* them returns, is about games of those teams only, whichever of the runs
\* that share the adapter, the storage and the cache came first.
TeamIsolation ==
  /\ \A T \in SUBSET Teams :
       teamCache[T] # None => T # {} /\ In(teamCache[T]) \subseteq GamesOf(T)
  /\ \A s \in Slots : Live(s) => In(run[s].out) \subseteq GamesOf(run[s].teams)

\* A cached list is never empty: runOnce reads an entry before anything else,
\* so an empty one would hide the games of a team for a whole TTL.
NoEmptyEntry ==
  /\ \A T \in SUBSET Teams : teamCache[T] # None => In(teamCache[T]) # {}
  /\ \A s \in Sports : featuredCache[s] # None => In(featuredCache[s]) # {}

\* On PostgreSQL nothing overwrites a game, so no cached copy and no answer of
\* a run can disagree with the table, however late it was written.
PgCopiesAgree ==
  LET Agrees(list) == \A g \in In(list) : list[g] = stored[g] IN
  storageKind = "pg" =>
    /\ \A T \in SUBSET Teams : teamCache[T] # None => Agrees(teamCache[T])
    /\ \A s \in Sports : featuredCache[s] # None => Agrees(featuredCache[s])
    /\ \A s \in Slots : Agrees(run[s].out)

\* What clients are told of a game is what the table holds when they are told,
\* although the change was detected against an earlier state of the table; and
\* on PostgreSQL only the insert of a game is ever announced.
AnnouncedIsStored ==
  [][\A m \in wire' :
       /\ stored'[m.game] # None
       /\ m.kind = "score" => m.pts = stored'[m.game].pts
       /\ m.kind = "status" => m.status = stored'[m.game].status
       /\ storageKind = "pg" => stored[m.game] = None]_vars

\* The refresh guard of a league is not held for ever: whatever happens to the
\* refresh that took it, the finally clause gives it back.
RefreshGuardReleased ==
  \A s \in Sports : (s \in refreshInFlight) ~> (s \notin refreshInFlight)

-----------------------------------------------------------------------------
\* What comments and tests of the repository say, and the code does not do.

=============================================================================
