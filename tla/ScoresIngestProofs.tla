-------------------------- MODULE ScoresIngestProofs --------------------------
(***************************************************************************)
(* Team isolation of ScoresIngest, for any teams, games, leagues, workers  *)
(* and requests, whatever the source answers and however runs interleave.  *)
(*                                                                         *)
(* Isolation is not inductive by itself: a run saves what it selected at   *)
(* the fetch, several awaits before it caches what it saved.  The          *)
(* invariant therefore follows the games through each run (GoodRun), from  *)
(* the filter of the fetch over the saved games to the cache, and back     *)
(* from the cache into the answer of a later run.                          *)
(*                                                                         *)
(* At the end, the same question for the scores of a user (TeamScores),    *)
(* whose cache is shared by all users, sports and modes.                   *)
(***************************************************************************)
EXTENDS ScoresIngest, TeamScores, TLAPS

\* What a list may hold for a set of teams; no teams is featured mode.
Isolated(T, list) == T # {} => In(list) \subseteq GamesOf(T)

\* A run holds games of its teams only, from the fetch to its answer.
GoodRun(r) ==
  /\ r \in Run
  /\ Isolated(r.teams, r.items)
  /\ Isolated(r.teams, r.out)
  /\ r.unsaved \subseteq In(r.items)

\* A cache entry for teams holds games of these teams.
GoodCache ==
  \A T \in SUBSET Teams :
    teamCache[T] # None => T # {} /\ In(teamCache[T]) \subseteq GamesOf(T)

IInv == TypeOK /\ (\A s \in Slots : GoodRun(run[s])) /\ GoodCache

-----------------------------------------------------------------------------
\* Lists and runs.

\* The empty list is a list without games.
LEMMA NoGamesIsList == NoGames \in GameList /\ In(NoGames) = {}
BY DEF NoGames, GameList, Maybe, In

\* A call that starts, on any teams, holds nothing.
LEMMA RunOnceGood ==
  ASSUME NEW T \in SUBSET Teams, NEW sport \in Sports, NEW adapter \in Sports,
         NEW try \in Tries
  PROVE  GoodRun(RunOnce(T, sport, adapter, try))
BY NoGamesIsList DEF RunOnce, GoodRun, Run, Stages, Isolated

\* A slot without a call holds nothing.
LEMMA IdleGood == GoodRun(Idle)
<1>1. GoodRun(RunOnce({}, DefaultSport, DefaultSport, "primary"))
  BY RunOnceGood, IngestAssumption DEF Tries
<1>2. QED
  BY <1>1, NoGamesIsList DEF Idle, RunOnce, GoodRun, Run, Stages, Isolated

\* A call that returns a list for its teams holds that list only.
LEMMA ReturnedGood ==
  ASSUME NEW r \in Run, NEW list \in GameList, NEW e \in BOOLEAN,
         Isolated(r.teams, list)
  PROVE  GoodRun(Returned(r, list, e))
<1>1. /\ r.teams \in SUBSET Teams /\ r.sport \in Sports
      /\ r.adapter \in Sports /\ r.try \in Tries
  BY DEF Run
<1>2. GoodRun(RunOnce(r.teams, r.sport, r.adapter, r.try))
  BY <1>1, RunOnceGood
<1>3. QED
  BY <1>1, NoGamesIsList DEF Returned, RunOnce, GoodRun, Run, Stages, Isolated

\* What the fetch selects is a list, and one of the run's teams.
LEMMA SelectGood ==
  ASSUME TypeOK, NEW s \in Slots, NEW found \in SUBSET Games
  PROVE  /\ Select(s, found) \in GameList
         /\ Isolated(run[s].teams, Select(s, found))
<1>1. ASSUME NEW g \in Games PROVE Timeline[phase[g]] \in Data
  BY <1>1, IngestAssumption DEF TypeOK
<1>2. ASSUME NEW g \in Games
      PROVE [Timeline[phase[g]] EXCEPT !.pts = 0, !.period = Absent] \in Data
  BY <1>1, <1>2 DEF Data
<1>3. ASSUME NEW g \in Games PROVE Select(s, found)[g] \in Data \cup {None}
  <2>1. CASE Live(s) /\ g \in found \cap GamesOf(run[s].teams)
    BY <1>1, <2>1 DEF Select
  <2>2. CASE ~Live(s) /\ g \in found
    BY <1>2, <2>2 DEF Select
  <2>3. CASE ~(Live(s) /\ g \in found \cap GamesOf(run[s].teams)) /\ ~(~Live(s) /\ g \in found)
    BY <2>3 DEF Select
  <2>4. QED BY <2>1, <2>2, <2>3
<1>4. Select(s, found) \in GameList
  <2>1. Select(s, found) = [g \in Games |-> Select(s, found)[g]]
    BY DEF Select
  <2>2. QED BY <1>3, <2>1 DEF GameList, Maybe
<1>5. ASSUME Live(s), NEW g \in Games, g \notin GamesOf(run[s].teams)
      PROVE  Select(s, found)[g] = None
  BY <1>5 DEF Select
<1>6. QED
  BY <1>4, <1>5 DEF Isolated, In, Live

-----------------------------------------------------------------------------
\* Steps.

\* What the parts of the state outside run must still satisfy after a step.
RestOK ==
  /\ storageKind \in {"mem", "pg"}
  /\ redis \in BOOLEAN
  /\ phase \in [Games -> 1..Len(Timeline)]
  /\ stored \in GameList
  /\ teamCache \in [SUBSET Teams -> Maybe(GameList)]
  /\ featuredCache \in [Sports -> Maybe(GameList)]
  /\ refreshInFlight \subseteq Sports

\* A step that leaves one slot with a good run keeps the invariant, if it also
\* keeps the rest in shape.
LEMMA SlotStep ==
  ASSUME IInv, RestOK', GoodCache', wire' \subseteq Message,
         NEW s \in Slots, NEW r, GoodRun(r), run' = [run EXCEPT ![s] = r]
  PROVE  IInv'
<1>1. run \in [Slots -> Run] /\ r \in Run
  BY DEF IInv, TypeOK, GoodRun
<1>2. run' \in [Slots -> Run]
  BY <1>1
<1>3. TypeOK'
  BY <1>2, ZenonT(30) DEF TypeOK, RestOK
<1>4. ASSUME NEW z \in Slots PROVE GoodRun(run'[z])
  <2>1. CASE z = s
    BY <1>1, <2>1
  <2>2. CASE z # s
    BY <1>1, <2>2 DEF IInv
  <2>3. QED BY <2>1, <2>2
<1>5. QED
  BY <1>3, <1>4 DEF IInv

\* The invariant gives what the lemma above asks of an unchanged rest.
LEMMA RestUnchanged ==
  ASSUME IInv, UNCHANGED <<setup, phase, stored, caches, refreshInFlight>>
  PROVE  RestOK' /\ GoodCache'
<1>1. RestOK
  BY ZenonT(30) DEF IInv, TypeOK, RestOK
<1>2. RestOK'
  BY <1>1, ZenonT(30) DEF RestOK, setup, caches
<1>3. GoodCache'
  BY DEF IInv, GoodCache, caches, GamesOf, In
<1>4. QED BY <1>2, <1>3

\* Most steps of a run change nothing but the run and say nothing.
LEMMA QuietStep ==
  ASSUME IInv, UNCHANGED <<setup, phase, stored, caches, refreshInFlight>>,
         wire' = {}, NEW s \in Slots, NEW r, GoodRun(r),
         run' = [run EXCEPT ![s] = r]
  PROVE  IInv'
BY RestUnchanged, SlotStep

\* What the invariant says of the run of one slot.
LEMMA RunOf ==
  ASSUME IInv, NEW s \in Slots
  PROVE  /\ GoodRun(run[s])
         /\ run[s] \in Run
         /\ run[s].teams \in SUBSET Teams
         /\ run[s].sport \in Sports
         /\ run[s].adapter \in Sports
         /\ run[s].try \in Tries
         /\ run[s].out \in GameList
         /\ run[s].errors \in BOOLEAN
         /\ Isolated(run[s].teams, run[s].out)
BY DEF IInv, GoodRun, Run

-----------------------------------------------------------------------------
\* The initial states.

\* A process that starts holds nothing.
LEMMA InitIInv == Init => IInv
<1> SUFFICES ASSUME Init PROVE IInv
  OBVIOUS
<1>1. Idle \in Run /\ GoodRun(Idle)
  BY IdleGood DEF GoodRun
<1>2. RestOK
  <2>1. phase \in [Games -> 1..Len(Timeline)]
    BY IngestAssumption DEF Init
  <2>2. teamCache \in [SUBSET Teams -> Maybe(GameList)]
    BY DEF Init, Maybe
  <2>3. featuredCache \in [Sports -> Maybe(GameList)]
    BY DEF Init, Maybe
  <2>4. stored \in GameList /\ refreshInFlight \subseteq Sports
    BY NoGamesIsList DEF Init
  <2>5. QED
    BY <2>1, <2>2, <2>3, <2>4, ZenonT(30) DEF Init, RestOK
<1>3. run \in [Slots -> Run] /\ \A s \in Slots : run[s] = Idle
  BY <1>1 DEF Init
<1>4. wire \subseteq Message
  BY DEF Init
<1>5. GoodCache
  BY DEF Init, GoodCache
<1>6. TypeOK
  BY <1>2, <1>3, <1>4, ZenonT(30) DEF TypeOK, RestOK
<1>7. QED
  BY <1>1, <1>3, <1>5, <1>6 DEF IInv

-----------------------------------------------------------------------------
\* The actions.

\* A game that moves on at the source touches nothing that was fetched.
LEMMA GameProgressesKeeps ==
  ASSUME IInv, NEW g \in Games, GameProgresses(g)
  PROVE  IInv'
<1>1. phase' \in [Games -> 1..Len(Timeline)]
  <2>1. phase \in [Games -> 1..Len(Timeline)] /\ Len(Timeline) \in Nat
    BY IngestAssumption DEF IInv, TypeOK
  <2>2. phase[g] + 1 \in 1..Len(Timeline)
    BY <2>1 DEF GameProgresses
  <2>3. QED
    BY <2>1, <2>2 DEF GameProgresses
<1>2. RestOK'
  BY <1>1, ZenonT(30) DEF IInv, TypeOK, RestOK, GameProgresses, setup, caches
<1>3. run' = run /\ wire' = {}
  BY DEF GameProgresses
<1>4. TypeOK'
  BY <1>2, <1>3, ZenonT(30) DEF IInv, TypeOK, RestOK
<1>5. GoodCache'
  BY DEF IInv, GoodCache, GameProgresses, caches, In, GamesOf
<1>6. QED
  BY <1>3, <1>4, <1>5 DEF IInv

\* Losing a cache entry leaves the others.
LEMMA CacheExpiresKeeps ==
  ASSUME IInv, CacheExpires
  PROVE  IInv'
<1>1. /\ teamCache \in [SUBSET Teams -> Maybe(GameList)]
      /\ featuredCache \in [Sports -> Maybe(GameList)]
  BY DEF IInv, TypeOK
<1>2. /\ teamCache' \in [SUBSET Teams -> Maybe(GameList)]
      /\ featuredCache' \in [Sports -> Maybe(GameList)]
      /\ \A T \in SUBSET Teams : teamCache'[T] = teamCache[T] \/ teamCache'[T] = None
  <2>1. CASE \E T \in SUBSET Teams :
               /\ teamCache[T] # None
               /\ teamCache' = [teamCache EXCEPT ![T] = None]
               /\ UNCHANGED featuredCache
    BY <1>1, <2>1 DEF Maybe
  <2>2. CASE \E s \in Sports :
               /\ featuredCache[s] # None
               /\ featuredCache' = [featuredCache EXCEPT ![s] = None]
               /\ UNCHANGED teamCache
    BY <1>1, <2>2 DEF Maybe
  <2>3. QED BY <2>1, <2>2 DEF CacheExpires
<1>3. RestOK'
  BY <1>2, ZenonT(30) DEF IInv, TypeOK, RestOK, CacheExpires, setup
<1>4. run' = run /\ wire' = {}
  BY DEF CacheExpires
<1>5. TypeOK'
  BY <1>3, <1>4, ZenonT(30) DEF IInv, TypeOK, RestOK
<1>6. GoodCache'
  BY <1>2 DEF IInv, GoodCache, In, GamesOf
<1>7. QED
  BY <1>4, <1>5, <1>6 DEF IInv

\* A worker's step starts a call, or ends one.
LEMMA WorkerStepKeeps ==
  ASSUME IInv, NEW w \in Workers, WorkerStep(w)
  PROVE  IInv'
<1>0. w \in Slots
  BY DEF Slots
<1> DEFINE t == run[w].teams
           r == run[w].sport
           a == run[w].adapter
<1>1. t \in SUBSET Teams /\ r \in Sports /\ a \in Sports
  BY <1>0, RunOf
<1>2. CASE StartJob(w)
  <2>1. PICK T \in {{}} \cup {{x} : x \in Teams}, l \in Sports :
          \/ run' = [run EXCEPT ![w] = RunOnce(T, l, l, "primary")]
          \/ run' = [run EXCEPT ![w] = RunOnce(T, DefaultSport, l, "last")]
    BY <1>2 DEF StartJob
  <2>2. T \in SUBSET Teams
    BY <2>1
  <2>3. /\ GoodRun(RunOnce(T, l, l, "primary"))
        /\ GoodRun(RunOnce(T, DefaultSport, l, "last"))
    BY <2>2, RunOnceGood, IngestAssumption DEF Tries
  <2>4. QED
    BY <1>0, <1>2, <2>1, <2>3, QuietStep DEF StartJob
<1>3. CASE Fallback(w)
  <2>1. GoodRun(RunOnce(t, r, a, "fallback"))
    BY <1>1, RunOnceGood DEF Tries
  <2>2. QED
    BY <1>0, <1>3, <2>1, QuietStep DEF Fallback
<1>4. CASE LastResort(w)
  <2>1. GoodRun(RunOnce(t, DefaultSport, a, "last"))
    BY <1>1, RunOnceGood, IngestAssumption DEF Tries
  <2>2. QED
    BY <1>0, <1>4, <2>1, QuietStep DEF LastResort
<1>5. CASE JobEnds(w)
  BY <1>0, <1>5, IdleGood, QuietStep DEF JobEnds
<1>6. QED
  BY <1>2, <1>3, <1>4, <1>5 DEF WorkerStep

\* A refresh request takes or gives back the guard as its call starts or ends.
LEMMA RequestStepKeeps ==
  ASSUME IInv, NEW q \in Requests, RequestStep(q)
  PROVE  IInv'
<1>0. q \in Slots /\ refreshInFlight \subseteq Sports
  BY DEF Slots, IInv, TypeOK
<1>1. UNCHANGED <<setup, phase, stored, caches>> /\ wire' = {}
  BY DEF RequestStep, RefreshStarts, RefreshReturns
<1>2. refreshInFlight' \subseteq Sports
  BY <1>0 DEF RequestStep, RefreshStarts, RefreshReturns
<1>3. RestOK'
  BY <1>1, <1>2, ZenonT(30) DEF IInv, TypeOK, RestOK, setup, caches
<1>4. GoodCache'
  BY <1>1 DEF IInv, GoodCache, caches, In, GamesOf
<1>5. CASE RefreshStarts(q)
  <2>1. PICK l \in Sports, T \in RefreshTeams :
          run' = [run EXCEPT ![q] = RunOnce(T, l, l, "primary")]
    BY <1>5 DEF RefreshStarts
  <2>2. T \in SUBSET Teams
    BY <2>1, IngestAssumption
  <2>3. GoodRun(RunOnce(T, l, l, "primary"))
    BY <2>2, RunOnceGood DEF Tries
  <2>4. QED
    BY <1>0, <1>1, <1>3, <1>4, <2>1, <2>3, SlotStep
<1>6. CASE RefreshReturns(q)
  BY <1>0, <1>1, <1>3, <1>4, <1>6, IdleGood, SlotStep DEF RefreshReturns
<1>7. QED
  BY <1>5, <1>6 DEF RequestStep

\* A refused request only clears the guard.
LEMMA RefreshRefusedKeeps ==
  ASSUME IInv, RefreshRefused
  PROVE  IInv'
<1>1. refreshInFlight' \subseteq Sports
  BY DEF IInv, TypeOK, RefreshRefused
<1>2. run' = run /\ wire' = {}
  BY DEF RefreshRefused
<1>3. TypeOK'
  BY <1>1, <1>2, ZenonT(30) DEF IInv, TypeOK, RefreshRefused, setup, caches
<1>4. GoodCache'
  BY DEF IInv, GoodCache, RefreshRefused, caches, In, GamesOf
<1>5. QED
  BY <1>2, <1>3, <1>4 DEF IInv

\* The answer from the cache is the entry of the run's own teams.
LEMMA CacheHitKeeps ==
  ASSUME IInv, NEW s \in Slots, CacheHit(s)
  PROVE  IInv'
<1>1. /\ Cached(s) \in GameList
      /\ Isolated(run[s].teams, Cached(s))
  <2>1. /\ teamCache \in [SUBSET Teams -> Maybe(GameList)]
        /\ featuredCache \in [Sports -> Maybe(GameList)]
        /\ Cached(s) # None
    BY DEF IInv, TypeOK, CacheHit
  <2>2. run[s].teams \in SUBSET Teams /\ run[s].sport \in Sports
    BY RunOf
  <2>3. CASE Live(s)
    BY <2>1, <2>2, <2>3 DEF Cached, Maybe, IInv, GoodCache, Isolated
  <2>4. CASE ~Live(s)
    BY <2>1, <2>2, <2>4 DEF Cached, Maybe, Isolated, Live
  <2>5. QED BY <2>3, <2>4
<1>2. GoodRun(Returned(run[s], Cached(s), FALSE))
  BY <1>1, RunOf, ReturnedGood
<1>3. QED
  BY <1>2, QuietStep DEF CacheHit

\* The fetch filters what it found.
LEMMA FetchKeeps ==
  ASSUME IInv, NEW s \in Slots, Fetch(s)
  PROVE  IInv'
<1>1. PICK found \in SUBSET GamesIn(run[s].adapter) :
        run' = [run EXCEPT ![s].stage = "work", ![s].items = Select(s, found),
                           ![s].undetected = In(Select(s, found)),
                           ![s].unsaved = In(Select(s, found))]
  BY DEF Fetch
<1> DEFINE list == Select(s, found)
           r == [run[s] EXCEPT !.stage = "work", !.items = list,
                               !.undetected = In(list), !.unsaved = In(list)]
<1>2. found \in SUBSET Games
  BY <1>1 DEF GamesIn
<1>3. list \in GameList /\ Isolated(run[s].teams, list)
  BY <1>2, SelectGood DEF IInv
<1>4. In(list) \subseteq Games
  BY DEF In
<1>5. GoodRun(r)
  <2> HIDE DEF list
  <2>1. run[s] \in Run /\ Isolated(run[s].teams, run[s].out)
    BY RunOf
  <2>2. QED
    BY <1>3, <1>4, <2>1 DEF GoodRun, Run, Stages
<1>6. run' = [run EXCEPT ![s] = r]
  BY <1>1
<1>7. QED
  BY <1>5, <1>6, QuietStep DEF Fetch

\* Detection only notes which games changed.
LEMMA DetectKeeps ==
  ASSUME IInv, NEW s \in Slots, Detect(s) \/ DetectFails(s)
  PROVE  IInv'
<1>1. GoodRun(run[s])
  BY RunOf
<1>2. PICK u \in SUBSET Games, c \in SUBSET Games, d \in SUBSET Games :
        run' = [run EXCEPT ![s] = [run[s] EXCEPT !.undetected = u,
                                     !.scoreChanges = c, !.statusChanges = d]]
  <2>1. /\ run[s].undetected \subseteq Games
        /\ run[s].scoreChanges \subseteq Games
        /\ run[s].statusChanges \subseteq Games
        /\ run[s] \in Run /\ run \in [Slots -> Run]
    BY <1>1 DEF GoodRun, Run, IInv, TypeOK
  <2>2. CASE Detect(s)
    <3>1. PICK g \in run[s].undetected, score \in BOOLEAN, status \in BOOLEAN :
            run' = [run EXCEPT
                      ![s].undetected = @ \ {g},
                      ![s].scoreChanges = IF score THEN @ \cup {g} ELSE @,
                      ![s].statusChanges = IF status THEN @ \cup {g} ELSE @]
      BY <2>2, Zenon DEF Detect
    <3> DEFINE u == run[s].undetected \ {g}
               c == IF score THEN run[s].scoreChanges \cup {g} ELSE run[s].scoreChanges
               d == IF status THEN run[s].statusChanges \cup {g} ELSE run[s].statusChanges
    <3>2. u \in SUBSET Games /\ c \in SUBSET Games /\ d \in SUBSET Games
      BY <2>1, <3>1
    <3>3. run' = [run EXCEPT ![s] = [run[s] EXCEPT !.undetected = u,
                                       !.scoreChanges = c, !.statusChanges = d]]
      BY <2>1, <3>1
    <3>4. QED BY <3>2, <3>3
  <2>3. CASE DetectFails(s)
    <3>1. PICK g \in run[s].undetected :
            run' = [run EXCEPT ![s].undetected = @ \ {g},
                               ![s].statusChanges = @ \cup {g}]
      BY <2>3 DEF DetectFails
    <3>2. run' = [run EXCEPT ![s] = [run[s] EXCEPT
                    !.undetected = run[s].undetected \ {g},
                    !.scoreChanges = run[s].scoreChanges,
                    !.statusChanges = run[s].statusChanges \cup {g}]]
      BY <2>1, <3>1 DEF Run
    <3>3. /\ run[s].undetected \ {g} \in SUBSET Games
          /\ run[s].scoreChanges \in SUBSET Games
          /\ run[s].statusChanges \cup {g} \in SUBSET Games
      BY <2>1, <3>1
    <3>4. QED BY <3>2, <3>3
  <2>4. QED BY <2>2, <2>3
<1>3. GoodRun([run[s] EXCEPT !.undetected = u, !.scoreChanges = c,
                             !.statusChanges = d])
  BY <1>1, <1>2 DEF GoodRun, Run
<1>4. UNCHANGED <<setup, phase, stored, caches, refreshInFlight>> /\ wire' = {}
  BY DEF Detect, DetectFails
<1>5. QED
  BY <1>2, <1>3, <1>4, QuietStep

\* A game that is saved was among the items, so it is one of the run's teams.
LEMMA PersistKeeps ==
  ASSUME IInv, NEW s \in Slots, Persist(s)
  PROVE  IInv'
<1>1. PICK g \in Games :
        /\ g \in run[s].unsaved
        /\ stored' = [stored EXCEPT ![g] = run[s].items[g]]
        /\ run' = [run EXCEPT ![s].unsaved = @ \ {g},
                              ![s].out[g] = run[s].items[g]]
        /\ Announce(s, g, run[s].items[g])
        /\ UNCHANGED <<setup, phase, caches, refreshInFlight>>
  BY DEF Persist, Persisting
<1> DEFINE data == run[s].items[g]
           out == [run[s].out EXCEPT ![g] = data]
           r == [run[s] EXCEPT !.unsaved = @ \ {g}, !.out = out]
<1>2. /\ run[s] \in Run
      /\ run[s].items \in GameList /\ run[s].out \in GameList
      /\ Isolated(run[s].teams, run[s].items)
      /\ Isolated(run[s].teams, run[s].out)
      /\ run[s].unsaved \subseteq In(run[s].items)
  BY RunOf DEF GoodRun, Run
<1>3. data \in Data /\ g \in In(run[s].items)
  BY <1>1, <1>2 DEF In, GameList, Maybe
<1>4. GoodRun(r)
  <2>1. out \in GameList
    BY <1>2, <1>3 DEF GameList, Maybe
  <2>2. In(out) \subseteq In(run[s].out) \cup {g}
    BY <1>2, <1>1 DEF In, GameList
  <2>3. Isolated(run[s].teams, out)
    BY <1>2, <1>3, <2>2 DEF Isolated
  <2> HIDE DEF out
  <2>4. QED
    BY <1>2, <2>1, <2>3 DEF GoodRun, Run
<1>5. run' = [run EXCEPT ![s] = r]
  BY <1>1
<1>6. wire' \subseteq Message
  <2>1. /\ data.pts \in Nat
        /\ data.status \in Statuses
    BY <1>3 DEF Data
  <2>2. /\ [kind |-> "score", game |-> g, pts |-> data.pts] \in Message
        /\ [kind |-> "status", game |-> g, status |-> data.status] \in Message
    BY <1>1, <2>1 DEF Message
  <2>3. QED
    BY <1>1, <2>2 DEF Announce
<1>7. stored' \in GameList
  BY <1>1, <1>3 DEF IInv, TypeOK, GameList, Maybe
<1>8. RestOK'
  BY <1>1, <1>7, ZenonT(30) DEF IInv, TypeOK, RestOK, setup, caches
<1>9. GoodCache'
  BY <1>1 DEF IInv, GoodCache, caches, In, GamesOf
<1>10. QED
  BY <1>4, <1>5, <1>6, <1>8, <1>9, SlotStep

\* A game that is not saved leaves the run with less to save.
LEMMA NotSavedKeeps ==
  ASSUME IInv, NEW s \in Slots, PersistConflict(s) \/ PersistFails(s)
  PROVE  IInv'
<1>1. run[s] \in Run /\ GoodRun(run[s]) /\ run[s].errors \in BOOLEAN
  BY RunOf
<1>2. PICK g \in Games, e \in BOOLEAN :
        run' = [run EXCEPT ![s] = [run[s] EXCEPT !.unsaved = @ \ {g}, !.errors = e]]
  <2>1. CASE PersistConflict(s)
    <3>1. PICK g \in Games : run' = [run EXCEPT ![s].unsaved = @ \ {g}]
      BY <2>1 DEF PersistConflict
    <3>2. run' = [run EXCEPT ![s] =
                    [run[s] EXCEPT !.unsaved = @ \ {g}, !.errors = run[s].errors]]
      BY <1>1, <3>1 DEF Run
    <3>3. QED BY <1>1, <3>2
  <2>2. CASE PersistFails(s)
    BY <2>2 DEF PersistFails
  <2>3. QED BY <2>1, <2>2
<1>3. GoodRun([run[s] EXCEPT !.unsaved = @ \ {g}, !.errors = e])
  BY <1>1, <1>2 DEF GoodRun, Run
<1>4. UNCHANGED <<setup, phase, stored, caches, refreshInFlight>> /\ wire' = {}
  BY DEF PersistConflict, PersistFails
<1>5. QED
  BY <1>2, <1>3, <1>4, QuietStep

\* A run caches under its teams what it saved for them.
LEMMA ReturnKeeps ==
  ASSUME IInv, NEW s \in Slots, Return(s) \/ ReturnUncached(s)
  PROVE  IInv'
<1> DEFINE r == Returned(run[s], run[s].out, run[s].errors)
<1>1. GoodRun(r)
  BY RunOf, ReturnedGood
<1>2. run' = [run EXCEPT ![s] = r] /\ wire' = {}
  BY DEF Return, ReturnUncached
<1>3. CASE Return(s)
  <2>1. /\ run[s].teams \in SUBSET Teams /\ run[s].sport \in Sports
        /\ run[s].out \in GameList /\ Isolated(run[s].teams, run[s].out)
    BY RunOf
  <2>2. /\ teamCache \in [SUBSET Teams -> Maybe(GameList)]
        /\ featuredCache \in [Sports -> Maybe(GameList)]
    BY DEF IInv, TypeOK
  <2>3. /\ teamCache' \in [SUBSET Teams -> Maybe(GameList)]
        /\ featuredCache' \in [Sports -> Maybe(GameList)]
    BY <1>3, <2>1, <2>2 DEF Return, FillCache, Maybe
  <2>4. GoodCache'
    BY <1>3, <2>1, <2>2 DEF Return, FillCache, Live, IInv, GoodCache, Isolated,
                            In, GamesOf
  <2>5. RestOK'
    BY <1>3, <2>3, ZenonT(30) DEF Return, IInv, TypeOK, RestOK, setup
  <2> HIDE DEF r
  <2>6. QED
    BY <1>1, <1>2, <2>4, <2>5, SlotStep
<1>4. CASE ReturnUncached(s)
  BY <1>1, <1>2, <1>4, QuietStep DEF ReturnUncached
<1>5. QED
  BY <1>3, <1>4

\* Every step of a run keeps the invariant.
LEMMA RunStepKeeps ==
  ASSUME IInv, NEW s \in Slots, RunStep(s)
  PROVE  IInv'
<1>1. CASE CacheMiss(s)
  <2>1. GoodRun([run[s] EXCEPT !.stage = "fetch"])
    BY RunOf DEF GoodRun, Run, Stages
  <2>2. run' = [run EXCEPT ![s] = [run[s] EXCEPT !.stage = "fetch"]]
    BY <1>1 DEF CacheMiss
  <2>3. QED BY <1>1, <2>1, <2>2, QuietStep DEF CacheMiss
<1>2. CASE FetchFails(s)
  <2>1. GoodRun(Returned(run[s], NoGames, TRUE))
    BY RunOf, ReturnedGood, NoGamesIsList DEF Isolated
  <2>2. QED BY <1>2, <2>1, QuietStep DEF FetchFails
<1>3. QED
  BY <1>1, <1>2, CacheHitKeeps, FetchKeeps, DetectKeeps, PersistKeeps,
     NotSavedKeeps, ReturnKeeps DEF RunStep

-----------------------------------------------------------------------------

\* Every step keeps the invariant,
LEMMA NextIInv == IInv /\ [Next]_vars => IInv'
<1> SUFFICES ASSUME IInv, [Next]_vars PROVE IInv'
  OBVIOUS
<1>1. CASE Next
  BY <1>1, RunStepKeeps, WorkerStepKeeps, RequestStepKeeps, RefreshRefusedKeeps,
     GameProgressesKeeps, CacheExpiresKeeps DEF Next
<1>2. CASE UNCHANGED vars
  <2>1. TypeOK'
    BY <1>2, ZenonT(30) DEF vars, IInv, TypeOK
  <2>2. run' = run /\ teamCache' = teamCache
    BY <1>2 DEF vars
  <2>3. GoodCache'
    BY <2>2 DEF IInv, GoodCache, In, GamesOf
  <2>4. QED BY <2>1, <2>2, <2>3 DEF IInv
<1>3. QED BY <1>1, <1>2

\* so every reachable state satisfies it.
LEMMA SpecIInv == Spec => []IInv
BY InitIInv, NextIInv, PTL DEF Spec

\* The variables keep their types: no run and no cache entry ever holds anything
\* but games as the source described them (scoresAgent.ts, workers.ts, routes.ts).
THEOREM TypeCorrect == Spec => []TypeOK
<1>1. IInv => TypeOK
  BY DEF IInv
<1>2. QED BY <1>1, SpecIInv, PTL

\* Team isolation, for any number of teams, games, leagues, workers and
\* requests: no cache entry and no live answer of runOnce (scoresAgent.ts) ever
\* holds a game of a team it was not asked for.
THEOREM TeamsIsolated == Spec => []TeamIsolation
<1>1. IInv => TeamIsolation
  <2> SUFFICES ASSUME IInv PROVE TeamIsolation
    OBVIOUS
  <2>1. ASSUME NEW s \in Slots, Live(s)
        PROVE  In(run[s].out) \subseteq GamesOf(run[s].teams)
    BY <2>1, RunOf DEF Live, Isolated
  <2>2. QED
    BY <2>1 DEF IInv, GoodCache, TeamIsolation
<1>2. QED BY <1>1, SpecIInv, PTL

-----------------------------------------------------------------------------
(***************************************************************************)
(* What the copies of a game outside the games table say of it: the cache  *)
(* entries, the answers of runOnce and the broadcasts of ScoresIngest, for *)
(* any teams, games, leagues, workers and requests.                        *)
(*                                                                         *)
(* The argument follows where a copy comes from (EntriesFrom, AnswersFrom) *)
(* and who writes the table (TableWrites): only a saved game enters an     *)
(* answer, only an answer enters the cache, and on PostgreSQL a saved game *)
(* was not in the table before.                                            *)
(***************************************************************************)
\* An entry after a step is gone, what it was, or the answer of a run that
\* saved a game.
EntryFrom(new, old) ==
  \/ new = None
  \/ new = old
  \/ \E s \in Slots : new = run[s].out /\ In(run[s].out) # {}

\* A list says of its games what the table says.
Agrees(list) == \A g \in In(list) : list[g] = stored[g]

CopiesAgree ==
  /\ \A T \in SUBSET Teams : teamCache[T] # None => Agrees(teamCache[T])
  /\ \A s \in Sports : featuredCache[s] # None => Agrees(featuredCache[s])
  /\ \A s \in Slots : Agrees(run[s].out)

-----------------------------------------------------------------------------
\* Where the copies come from.

\* Only the return of a run fills the cache.
LEMMA EntriesFrom ==
  ASSUME IInv, [Next]_vars
  PROVE  /\ \A T \in SUBSET Teams : EntryFrom(teamCache'[T], teamCache[T])
         /\ \A s \in Sports : EntryFrom(featuredCache'[s], featuredCache[s])
<1>0. /\ teamCache \in [SUBSET Teams -> Maybe(GameList)]
      /\ featuredCache \in [Sports -> Maybe(GameList)]
  BY DEF IInv, TypeOK
<1>1. CASE UNCHANGED caches
  BY <1>1 DEF caches, EntryFrom
<1>2. CASE CacheExpires
  BY <1>0, <1>2 DEF CacheExpires, EntryFrom
<1>3. CASE \E s \in Slots : Return(s)
  <2>1. PICK s \in Slots : Return(s)
    BY <1>3
  <2>2. In(run[s].out) # {} /\ FillCache(s, run[s].out)
    BY <2>1 DEF Return
  <2>3. CASE Live(s)
    BY <1>0, <2>2, <2>3 DEF FillCache, EntryFrom
  <2>4. CASE ~Live(s)
    BY <1>0, <2>2, <2>4 DEF FillCache, EntryFrom
  <2>5. QED BY <2>3, <2>4
<1>4. UNCHANGED caches \/ CacheExpires \/ \E s \in Slots : Return(s)
  <2>1. ASSUME NEW s \in Slots, RunStep(s)
        PROVE  UNCHANGED caches \/ Return(s)
    BY <2>1 DEF RunStep, CacheHit, CacheMiss, Fetch, FetchFails, Detect, DetectFails,
                Persist, PersistConflict, PersistFails, ReturnUncached
  <2>2. ASSUME NEW w \in Workers, WorkerStep(w) PROVE UNCHANGED caches
    BY <2>2 DEF WorkerStep, StartJob, Fallback, LastResort, JobEnds
  <2>3. ASSUME NEW q \in Requests, RequestStep(q) PROVE UNCHANGED caches
    BY <2>3 DEF RequestStep, RefreshStarts, RefreshReturns
  <2>4. RefreshRefused => UNCHANGED caches
    BY DEF RefreshRefused
  <2>5. ASSUME NEW g \in Games, GameProgresses(g) PROVE UNCHANGED caches
    BY <2>5 DEF GameProgresses
  <2>6. UNCHANGED vars => UNCHANGED caches
    BY DEF vars, caches
  <2>7. QED
    BY <2>1, <2>2, <2>3, <2>4, <2>5, <2>6, Zenon DEF Next
<1>5. QED BY <1>1, <1>2, <1>3, <1>4

\* Only saving a game writes the table, and only that broadcasts.
LEMMA TableWrites ==
  ASSUME [Next]_vars
  PROVE  /\ UNCHANGED storageKind
         /\ \/ \E s \in Slots : Persist(s)
            \/ UNCHANGED stored /\ (wire' = {} \/ UNCHANGED vars)
<1>1. ASSUME NEW s \in Slots, RunStep(s)
      PROVE  UNCHANGED setup /\ (Persist(s) \/ (UNCHANGED stored /\ wire' = {}))
  BY <1>1 DEF RunStep, CacheHit, CacheMiss, Fetch, FetchFails, Detect, DetectFails,
              Persist, PersistConflict, PersistFails, Return, ReturnUncached
<1>2. ASSUME NEW w \in Workers, WorkerStep(w)
      PROVE  UNCHANGED setup /\ UNCHANGED stored /\ wire' = {}
  BY <1>2 DEF WorkerStep, StartJob, Fallback, LastResort, JobEnds
<1>3. ASSUME NEW q \in Requests, RequestStep(q)
      PROVE  UNCHANGED setup /\ UNCHANGED stored /\ wire' = {}
  BY <1>3 DEF RequestStep, RefreshStarts, RefreshReturns
<1>4. RefreshRefused \/ CacheExpires => UNCHANGED setup /\ UNCHANGED stored /\ wire' = {}
  BY DEF RefreshRefused, CacheExpires
<1>5. ASSUME NEW g \in Games, GameProgresses(g)
      PROVE  UNCHANGED setup /\ UNCHANGED stored /\ wire' = {}
  BY <1>5 DEF GameProgresses
<1>6. UNCHANGED vars => UNCHANGED setup /\ UNCHANGED stored
  BY DEF vars, setup
<1>7. UNCHANGED setup => UNCHANGED storageKind
  BY DEF setup
<1>8. QED
  BY <1>1, <1>2, <1>3, <1>4, <1>5, <1>6, <1>7, Zenon DEF Next

\* What an answer holds after a step of the run in slot s.
AnswerFrom(s) ==
  \/ run'[s].out = run[s].out
  \/ run'[s].out = NoGames
  \/ Cached(s) # None /\ run'[s].out = Cached(s)

\* A step that gives a run other fields leaves the answers.
LEMMA AnswerKept ==
  ASSUME IInv, NEW s \in Slots, NEW z \in Slots, NEW r,
         run' = [run EXCEPT ![s] = r], r.out = run[s].out
  PROVE  AnswerFrom(z)
<1>1. run \in [Slots -> Run]
  BY DEF IInv, TypeOK
<1>2. QED BY <1>1 DEF AnswerFrom

\* An answer grows by the games its run saves; else it is kept, dropped or read
\* from the cache.
LEMMA AnswersFrom ==
  ASSUME IInv, [Next]_vars, NEW z \in Slots
  PROVE  AnswerFrom(z) \/ Persist(z)
<1>0. run \in [Slots -> Run]
  BY DEF IInv, TypeOK
<1>1. ASSUME NEW s \in Slots, RunStep(s)
      PROVE  AnswerFrom(z) \/ Persist(z)
  <2>0. run[s] \in Run /\ run[z] \in Run
    BY <1>0
  <2>1. CASE Persist(s)
    <3>1. CASE z = s
      BY <2>1, <3>1
    <3>2. CASE z # s
      BY <1>0, <2>1, <3>2 DEF Persist, AnswerFrom
    <3>3. QED BY <3>1, <3>2
  <2>2. CASE CacheHit(s)
    BY <1>0, <2>2 DEF CacheHit, AnswerFrom, Returned, RunOnce
  <2>3. CASE CacheMiss(s)
    <3>1. run' = [run EXCEPT ![s] = [run[s] EXCEPT !.stage = "fetch"]]
      BY <2>3 DEF CacheMiss
    <3>2. QED BY <2>0, <3>1, AnswerKept DEF Run
  <2>8. CASE Fetch(s)
    <3>1. PICK list :
            run' = [run EXCEPT ![s] = [run[s] EXCEPT !.stage = "work", !.items = list,
                                 !.undetected = In(list), !.unsaved = In(list)]]
      BY <2>8 DEF Fetch
    <3>2. QED BY <2>0, <3>1, AnswerKept DEF Run
  <2>4. CASE FetchFails(s)
    BY <1>0, <2>4 DEF FetchFails, AnswerFrom, Returned, RunOnce
  <2>5. CASE Detect(s)
    <3>1. PICK g \in run[s].undetected, score \in BOOLEAN, status \in BOOLEAN :
            run' = [run EXCEPT
                      ![s].undetected = @ \ {g},
                      ![s].scoreChanges = IF score THEN @ \cup {g} ELSE @,
                      ![s].statusChanges = IF status THEN @ \cup {g} ELSE @]
      BY <2>5, Zenon DEF Detect
    <3>2. PICK u, c, d :
            run' = [run EXCEPT ![s] = [run[s] EXCEPT !.undetected = u,
                                 !.scoreChanges = c, !.statusChanges = d]]
      BY <1>0, <3>1
    <3>3. QED BY <2>0, <3>2, AnswerKept DEF Run
  <2>6. CASE DetectFails(s) \/ PersistConflict(s) \/ PersistFails(s)
    <3>1. PICK u, c, v, e :
            run' = [run EXCEPT ![s] = [run[s] EXCEPT !.undetected = u,
                                 !.statusChanges = c, !.unsaved = v, !.errors = e]]
      <4>1. CASE DetectFails(s)
        <5>1. PICK g : run' = [run EXCEPT ![s].undetected = @ \ {g},
                                          ![s].statusChanges = @ \cup {g}]
          BY <4>1 DEF DetectFails
        <5>2. run' = [run EXCEPT ![s] = [run[s] EXCEPT
                        !.undetected = run[s].undetected \ {g},
                        !.statusChanges = run[s].statusChanges \cup {g},
                        !.unsaved = run[s].unsaved, !.errors = run[s].errors]]
          BY <2>0, <5>1 DEF Run
        <5>3. QED BY <5>2
      <4>2. CASE PersistConflict(s)
        <5>1. PICK g : run' = [run EXCEPT ![s].unsaved = @ \ {g}]
          BY <4>2 DEF PersistConflict
        <5>2. run' = [run EXCEPT ![s] = [run[s] EXCEPT
                        !.undetected = run[s].undetected,
                        !.statusChanges = run[s].statusChanges,
                        !.unsaved = run[s].unsaved \ {g}, !.errors = run[s].errors]]
          BY <2>0, <5>1 DEF Run
        <5>3. QED BY <5>2
      <4>3. CASE PersistFails(s)
        <5>1. PICK g : run' = [run EXCEPT ![s].unsaved = @ \ {g}, ![s].errors = TRUE]
          BY <4>3 DEF PersistFails
        <5>2. run' = [run EXCEPT ![s] = [run[s] EXCEPT
                        !.undetected = run[s].undetected,
                        !.statusChanges = run[s].statusChanges,
                        !.unsaved = run[s].unsaved \ {g}, !.errors = TRUE]]
          BY <2>0, <5>1 DEF Run
        <5>3. QED BY <5>2
      <4>4. QED BY <2>6, <4>1, <4>2, <4>3
    <3>2. QED BY <2>0, <3>1, AnswerKept DEF Run
  <2>7. CASE Return(s) \/ ReturnUncached(s)
    BY <1>0, <2>7 DEF Return, ReturnUncached, AnswerFrom, Returned, RunOnce
  <2>10. QED
    BY <1>1, <2>1, <2>2, <2>3, <2>4, <2>5, <2>6, <2>7, <2>8 DEF RunStep
<1>2. ASSUME NEW w \in Workers, WorkerStep(w) PROVE AnswerFrom(z)
  <2>1. w \in Slots
    BY DEF Slots
  <2>2. QED
    BY <1>0, <1>2, <2>1 DEF WorkerStep, StartJob, Fallback, LastResort, JobEnds,
                            AnswerFrom, RunOnce, Idle
<1>3. ASSUME NEW q \in Requests, RequestStep(q) PROVE AnswerFrom(z)
  <2>1. q \in Slots
    BY DEF Slots
  <2>2. QED
    BY <1>0, <1>3, <2>1 DEF RequestStep, RefreshStarts, RefreshReturns,
                            AnswerFrom, RunOnce, Idle
<1>4. UNCHANGED run => AnswerFrom(z)
  BY DEF AnswerFrom
<1>5. RefreshRefused \/ CacheExpires \/ UNCHANGED vars => UNCHANGED run
  BY DEF RefreshRefused, CacheExpires, vars
<1>6. ASSUME NEW g \in Games, GameProgresses(g) PROVE UNCHANGED run
  BY <1>6 DEF GameProgresses
<1>7. QED
  BY <1>1, <1>2, <1>3, <1>4, <1>5, <1>6, Zenon DEF Next

\* A game is saved as it was fetched, and on PostgreSQL only if it is new.
LEMMA Saved ==
  ASSUME IInv, NEW s \in Slots, Persist(s)
  PROVE  \E g \in Games, d \in Data :
           /\ storageKind = "pg" => stored[g] = None
           /\ stored' = [stored EXCEPT ![g] = d]
           /\ run'[s].out = [run[s].out EXCEPT ![g] = d]
           /\ Announce(s, g, d)
<1>1. PICK g \in Games :
        /\ g \in run[s].unsaved
        /\ storageKind = "pg" => stored[g] = None
        /\ stored' = [stored EXCEPT ![g] = run[s].items[g]]
        /\ run' = [run EXCEPT ![s].unsaved = @ \ {g},
                              ![s].out[g] = run[s].items[g]]
        /\ Announce(s, g, run[s].items[g])
  BY DEF Persist, Persisting
<1>2. /\ run \in [Slots -> Run] /\ run[s] \in Run
      /\ run[s].items \in GameList
      /\ run[s].unsaved \subseteq In(run[s].items)
  BY RunOf DEF GoodRun, Run, IInv, TypeOK
<1>3. run[s].items[g] \in Data
  BY <1>1, <1>2 DEF In, GameList, Maybe
<1>4. run'[s].out = [run[s].out EXCEPT ![g] = run[s].items[g]]
  BY <1>1, <1>2 DEF Run
<1>5. QED BY <1>1, <1>3, <1>4

-----------------------------------------------------------------------------

\* No cache entry is empty, whoever fills it: an empty one would hide the games
\* of a team from every run until it expires (scoresAgent.ts).
THEOREM EntriesNotEmpty == Spec => []NoEmptyEntry
<1>1. Init => NoEmptyEntry
  BY DEF Init, NoEmptyEntry
<1>2. NoEmptyEntry /\ IInv /\ [Next]_vars => NoEmptyEntry'
  <2> SUFFICES ASSUME NoEmptyEntry, IInv, [Next]_vars PROVE NoEmptyEntry'
    OBVIOUS
  <2>1. ASSUME NEW new, NEW old, EntryFrom(new, old), old # None => In(old) # {},
               new # None
        PROVE  In(new) # {}
    BY <2>1 DEF EntryFrom
  <2>2. ASSUME NEW T \in SUBSET Teams, teamCache'[T] # None
        PROVE  In(teamCache'[T]) # {}
    BY <2>1, <2>2, EntriesFrom DEF NoEmptyEntry
  <2>3. ASSUME NEW s \in Sports, featuredCache'[s] # None
        PROVE  In(featuredCache'[s]) # {}
    BY <2>1, <2>3, EntriesFrom DEF NoEmptyEntry
  <2>4. QED BY <2>2, <2>3 DEF NoEmptyEntry, In
<1>3. QED BY <1>1, <1>2, SpecIInv, PTL DEF Spec

\* What agreed with the table still does after a step on PostgreSQL.
LEMMA AgreesKept ==
  ASSUME IInv, [Next]_vars, storageKind = "pg", NEW CONSTANT list, Agrees(list)
  PROVE  Agrees(list)'
<1>1. CASE UNCHANGED stored
  BY <1>1 DEF Agrees, In
<1>2. CASE \E s \in Slots : Persist(s)
  <2>1. PICK g \in Games, d \in Data :
          stored[g] = None /\ stored' = [stored EXCEPT ![g] = d]
    BY <1>2, Saved
  <2>2. stored \in GameList
    BY DEF IInv, TypeOK
  <2>3. QED BY <2>1, <2>2 DEF Agrees, In, GameList
<1>3. QED BY <1>1, <1>2, TableWrites
\* On PostgreSQL no cached copy and no answer of a run ever disagrees with the
\* games table, however late it was written and whatever else ran: a game is
\* inserted once and never updated (scoresAgent.ts, pgStorage.ts).
THEOREM CopiesNeverDisagree == Spec => []PgCopiesAgree
<1> DEFINE Inv == storageKind = "pg" => CopiesAgree
<1>1. Init => Inv
  BY NoGamesIsList DEF Init, CopiesAgree, Agrees, Idle, RunOnce
<1>2. IInv /\ Inv /\ [Next]_vars => Inv'
  <2> SUFFICES ASSUME IInv, [Next]_vars, storageKind' = "pg", CopiesAgree,
                      storageKind = "pg"
               PROVE  CopiesAgree'
    BY TableWrites
  <2>1. ASSUME NEW CONSTANT s \in Slots PROVE Agrees(run[s].out)
    BY DEF CopiesAgree
  <2>2. ASSUME NEW CONSTANT new, NEW CONSTANT old, EntryFrom(new, old), new # None,
               old # None => Agrees(old)
        PROVE  Agrees(new)
    BY <2>1, <2>2 DEF EntryFrom
  <2>3. ASSUME NEW CONSTANT T \in SUBSET Teams, teamCache'[T] # None
        PROVE  Agrees(teamCache[T])'
    <3>1. PICK list : list = teamCache'[T]
      OBVIOUS
    <3>2. Agrees(list)
      BY <2>2, <2>3, <3>1, EntriesFrom DEF CopiesAgree
    <3>3. Agrees(list)'
      BY <3>2, AgreesKept
    <3>4. QED BY <3>1, <3>3 DEF Agrees, In
  <2>4. ASSUME NEW CONSTANT s \in Sports, featuredCache'[s] # None
        PROVE  Agrees(featuredCache[s])'
    <3>1. PICK list : list = featuredCache'[s]
      OBVIOUS
    <3>2. Agrees(list)
      BY <2>2, <2>4, <3>1, EntriesFrom DEF CopiesAgree
    <3>3. Agrees(list)'
      BY <3>2, AgreesKept
    <3>4. QED BY <3>1, <3>3 DEF Agrees, In
  <2>5. ASSUME NEW CONSTANT s \in Slots
        PROVE  Agrees(run[s].out)'
    <3>1. PICK list : list = run'[s].out
      OBVIOUS
    <3>2. CASE AnswerFrom(s)
      <4>1. run[s].teams \in SUBSET Teams /\ run[s].sport \in Sports
        BY RunOf
      <4>2. Cached(s) # None => Agrees(Cached(s))
        BY <4>1 DEF Cached, CopiesAgree
      <4>3. Agrees(NoGames)
        BY NoGamesIsList DEF Agrees
      <4>4. Agrees(list)
        BY <2>1, <3>1, <3>2, <4>2, <4>3 DEF AnswerFrom
      <4>5. Agrees(list)'
        BY <4>4, AgreesKept
      <4>6. QED BY <3>1, <4>5 DEF Agrees, In
    <3>3. CASE Persist(s)
      <4>1. PICK g \in Games, d \in Data :
              /\ stored[g] = None
              /\ stored' = [stored EXCEPT ![g] = d]
              /\ run'[s].out = [run[s].out EXCEPT ![g] = d]
        BY <3>3, Saved
      <4>2. stored \in GameList /\ run[s].out \in GameList
        BY RunOf DEF IInv, TypeOK
      <4>3. \A h \in Games : run[s].out[h] # None => run[s].out[h] = stored[h]
        BY <2>1 DEF Agrees, In
      <4>4. \A h \in Games : run'[s].out[h] # None => run'[s].out[h] = stored'[h]
        BY <4>1, <4>2, <4>3 DEF GameList
      <4>5. QED BY <4>4 DEF Agrees, In
    <3>4. QED BY <3>2, <3>3, AnswersFrom
  <2>6. QED BY <2>3, <2>4, <2>5 DEF CopiesAgree
<1>3. Inv => PgCopiesAgree
  BY DEF PgCopiesAgree, CopiesAgree, Agrees
<1>4. QED BY <1>1, <1>2, <1>3, SpecIInv, PTL DEF Spec

\* A client is told of a game what the table holds at that moment, although the
\* change was detected against an earlier table; and on PostgreSQL only of a game
\* that was not there (scoresAgent.ts, persistChanges and the broadcasts).
THEOREM ToldWhatIsStored == Spec => AnnouncedIsStored
<1> DEFINE Told ==
      \A m \in wire' :
        /\ stored'[m.game] # None
        /\ m.kind = "score" => m.pts = stored'[m.game].pts
        /\ m.kind = "status" => m.status = stored'[m.game].status
        /\ storageKind = "pg" => stored[m.game] = None
<1>1. IInv /\ [Next]_vars => [Told]_vars
  <2> SUFFICES ASSUME IInv, [Next]_vars, NEW m \in wire', ~UNCHANGED vars
               PROVE  /\ stored'[m.game] # None
                      /\ m.kind = "score" => m.pts = stored'[m.game].pts
                      /\ m.kind = "status" => m.status = stored'[m.game].status
                      /\ storageKind = "pg" => stored[m.game] = None
    OBVIOUS
  <2>1. PICK s \in Slots : Persist(s)
    BY TableWrites
  <2>2. PICK g \in Games, d \in Data :
          /\ storageKind = "pg" => stored[g] = None
          /\ stored' = [stored EXCEPT ![g] = d]
          /\ Announce(s, g, d)
    BY <2>1, Saved
  <2>3. stored'[g] = d /\ d # None
    BY <2>2, IngestAssumption DEF IInv, TypeOK, GameList
  <2>4. \/ m = [kind |-> "score", game |-> g, pts |-> d.pts]
        \/ m = [kind |-> "status", game |-> g, status |-> d.status]
    BY <2>2 DEF Announce
  <2>5. QED BY <2>2, <2>3, <2>4
<1>2. QED BY <1>1, SpecIInv, PTL DEF Spec, AnnouncedIsStored

-----------------------------------------------------------------------------
\* The scores of a user.

\* Favorites that a user has had, of the sport of a call.
Had(a) == OfSport(favored[a.uid], a.sport)

\* Games of valid ones among these teams.
OfTeams(games, teams) ==
  \A f \in games : \E t \in teams \cap Valid : Prefix[t] = f.league /\ Code[t] \in f.codes

FetchState == [at : {"idle", "profile", "teams", "cache", "run", "store", "answered", "rejected"},
          ask : Asked \cup {NoEntry}, teams : SUBSET Favorable, games : SUBSET Fixtures]

\* What a call has at hand is of favorites of its user, from the second read on.
GoodFetch(r) ==
  /\ r \in FetchState
  /\ r.at # "idle" => r.ask \in Asked
  /\ r.at \in {"cache", "run"} => r.teams \subseteq Had(r.ask)
  /\ r.at \in {"store", "answered"} /\ r.ask.mode = "live" => OfTeams(r.games, Had(r.ask))

\* And so is what the cache has for its user, sport and mode.
GoodEntries ==
  /\ entries \in [Keys -> {NoEntry} \cup SUBSET Fixtures]
  /\ \A a \in Asked : a.mode = "live" /\ entries[UserKey(a)] # NoEntry =>
       OfTeams(entries[UserKey(a)], Had(a))

GoodProfiles ==
  /\ profiles \in [People -> {NoEntry} \cup SUBSET Favorable]
  /\ favored \in [People -> SUBSET Favorable]
  /\ \A u \in People : profiles[u] # NoEntry => profiles[u] \subseteq favored[u]

TeamInv ==
  /\ GoodProfiles /\ GoodEntries
  /\ DOMAIN fetch = Fetchers /\ fetch = [c \in Fetchers |-> fetch[c]]
  /\ \A c \in Fetchers : GoodFetch(fetch[c])

\* More favorites never make a game anybody else's.
LEMMA OfMoreTeams ==
  ASSUME NEW games, NEW S, NEW T, S \subseteq T, OfTeams(games, S)
  PROVE  OfTeams(games, T)
  BY DEF OfTeams

\* A live run gives games of its teams (runOnce).
LEMMA FoundIsOwn ==
  ASSUME NEW T, NEW a, a.mode = "live"
  PROVE  OfTeams(Found(T, a), T)
  BY DEF Found, OfTeams

\* One key, one user, sport and mode (makeUserTeamCacheKey).
LEMMA KeysDiffer ==
  ASSUME NEW a \in Asked, NEW b \in Asked, UserKey(a) = UserKey(b)
  PROVE  a.mode = b.mode /\ Had(a) = Had(b)
  BY DEF UserKey, Had

LEMMA InitTeamInv == TeamScoresInit => TeamInv
<1> SUFFICES ASSUME TeamScoresInit PROVE TeamInv
  OBVIOUS
<1> USE TeamScoresAssumption DEF TeamScoresInit
<1>1. GoodProfiles
  BY DEF GoodProfiles
<1>2. GoodEntries
  BY DEF GoodEntries, Keys
<1>3. GoodFetch(Nothing)
  BY DEF GoodFetch, Nothing, FetchState
<1>4. QED
  BY <1>1, <1>2, <1>3 DEF TeamInv

\* A call that goes on with good things at hand, while favorites and cache stay.
LEMMA GoesOn ==
  ASSUME TeamInv, NEW c \in Fetchers, NEW r, GoodFetch(r), fetch' = [fetch EXCEPT ![c] = r],
         UNCHANGED <<profiles, favored, entries>>
  PROVE  TeamInv'
<1>1. GoodProfiles' /\ GoodEntries'
  BY DEF TeamInv, GoodProfiles, GoodEntries, Had
<1>2. \A x : GoodFetch(x)' <=> GoodFetch(x)
  BY DEF GoodFetch, Had
<1>3. \A d \in Fetchers : fetch'[d] = IF d = c THEN r ELSE fetch[d]
  BY DEF TeamInv
<1>4. \A d \in Fetchers : GoodFetch(fetch[d])'
  BY <1>2, <1>3 DEF TeamInv, GoodFetch, Had
<1>5. QED
  BY <1>1, <1>4 DEF TeamInv

\* The steps of one call but for the write of the cache.
LEMMA FetchKeepsOwn ==
  ASSUME TeamInv, NEW c \in Fetchers,
         \/ Begins(c) \/ ProfileIsThere(c) \/ TeamsRead(c) \/ CacheAnswers(c) \/ NotCached(c)
         \/ RunReturns(c) \/ Taken(c)
  PROVE  TeamInv'
<1> USE TeamScoresAssumption DEF Ask
<1> DEFINE f == fetch[c]
<1>0. /\ UNCHANGED <<profiles, favored, entries>>
      /\ GoodFetch(f) /\ f = [at |-> f.at, ask |-> f.ask, teams |-> f.teams, games |-> f.games]
  BY DEF Begins, ProfileIsThere, TeamsRead, CacheAnswers, NotCached, RunReturns, Taken,
         TeamInv, GoodFetch, FetchState
<1>1. CASE Begins(c)
  <2>1. PICK a \in Asked : fetch' = [fetch EXCEPT ![c] = [Nothing EXCEPT !.at = "profile", !.ask = a]]
    BY <1>1 DEF Begins
  <2>2. GoodFetch([Nothing EXCEPT !.at = "profile", !.ask = a])
    BY DEF GoodFetch, Nothing, FetchState
  <2>3. QED
    BY <1>0, <2>1, <2>2, GoesOn
<1>2. ASSUME NEW at \in {"teams", "rejected", "run"}, Goes(c, at), f.at # "idle",
             at = "run" => f.teams \subseteq Had(f.ask)
      PROVE  TeamInv'
  <2>1. GoodFetch([f EXCEPT !.at = at])
    BY <1>0, <1>2 DEF GoodFetch, FetchState
  <2>2. fetch' = [fetch EXCEPT ![c] = [f EXCEPT !.at = at]]
    BY <1>2 DEF Goes
  <2>3. QED
    BY <1>0, <2>1, <2>2, GoesOn
<1>3. CASE ProfileIsThere(c)
  BY <1>2, <1>3 DEF ProfileIsThere, ReadFails, Rejected
<1>4. CASE TeamsRead(c)
  <2> DEFINE teams == OfSport(profiles[f.ask.uid], f.ask.sport)
  <2>1. CASE Rejected(c)
    BY <1>2, <1>4, <2>1 DEF TeamsRead, Rejected
  <2>2. CASE ~Rejected(c)
    <3> DEFINE r == [f EXCEPT !.teams = teams,
                              !.at = IF f.ask.mode = "schedule" THEN "run" ELSE "cache"]
    <3>1. /\ profiles[f.ask.uid] # NoEntry
          /\ fetch' = [fetch EXCEPT ![c] = r]
          /\ f.at = "teams"
      BY <1>4, <2>2 DEF TeamsRead, ReadFails
    <3>2. f.ask \in Asked /\ f.ask.uid \in People
      BY <1>0, <3>1 DEF GoodFetch
    <3>3. teams \subseteq Had(f.ask) /\ teams \subseteq Favorable
      BY <3>1, <3>2 DEF TeamInv, GoodProfiles, Had, OfSport
    <3> HIDE DEF teams
    <3>4. GoodFetch(r)
      BY <1>0, <3>2, <3>3 DEF GoodFetch, FetchState
    <3>5. QED
      BY <1>0, <3>1, <3>4, GoesOn
  <2>3. QED
    BY <2>1, <2>2
<1>5. CASE CacheAnswers(c)
  <2> DEFINE games == entries[UserKey(f.ask)]
             r == [f EXCEPT !.games = games, !.teams = {}, !.at = "answered"]
  <2>1. f.ask \in Asked /\ games # NoEntry /\ fetch' = [fetch EXCEPT ![c] = r]
    BY <1>0, <1>5 DEF CacheAnswers, GoodFetch
  <2>2. games \subseteq Fixtures /\ (f.ask.mode = "live" => OfTeams(games, Had(f.ask)))
    BY <2>1 DEF TeamInv, GoodEntries, Keys
  <2> HIDE DEF games
  <2>3. GoodFetch(r)
    BY <1>0, <2>1, <2>2 DEF GoodFetch, FetchState
  <2>4. QED
    BY <1>0, <2>1, <2>3, GoesOn
<1>6. CASE NotCached(c)
  BY <1>0, <1>2, <1>6 DEF NotCached, GoodFetch
<1>7. CASE RunReturns(c)
  <2>1. PICK games \in SUBSET Found(f.teams, f.ask) :
          fetch' = [fetch EXCEPT ![c] =
                     [f EXCEPT !.games = games, !.teams = {},
                               !.at = IF f.ask.mode # "schedule" /\ games # {} THEN "store"
                                      ELSE "answered"]]
    <3>1. PICK games \in SUBSET Found(f.teams, f.ask) :
            fetch' = [fetch EXCEPT ![c].games = games, ![c].teams = {},
                        ![c].at = IF f.ask.mode # "schedule" /\ games # {} THEN "store"
                                  ELSE "answered"]
      BY <1>7, Zenon DEF RunReturns, Ask
    <3>2. QED
      BY <3>1
  <2>2. f.at = "run" /\ f.ask \in Asked /\ f.teams \subseteq Had(f.ask)
    BY <1>0, <1>7 DEF RunReturns, GoodFetch
  <2>3. games \subseteq Fixtures
    BY <2>1, <2>2 DEF Found, Modes
  <2>4. f.ask.mode = "live" => OfTeams(games, Had(f.ask))
    <3>1. SUFFICES ASSUME f.ask.mode = "live" PROVE OfTeams(games, Had(f.ask))
      OBVIOUS
    <3>2. OfTeams(Found(f.teams, f.ask), Had(f.ask))
      BY <2>2, <3>1, FoundIsOwn, OfMoreTeams
    <3>3. QED
      BY <2>1, <3>2 DEF OfTeams
  <2>5. QED
    BY <1>0, <2>1, <2>2, <2>3, <2>4, GoesOn DEF GoodFetch, FetchState
<1>8. CASE Taken(c)
  <2>1. GoodFetch(Nothing)
    BY DEF GoodFetch, Nothing, FetchState
  <2>2. QED
    BY <1>0, <1>8, <2>1, GoesOn DEF Taken
<1>9. QED
  BY <1>1, <1>3, <1>4, <1>5, <1>6, <1>7, <1>8

\* The write of the cache: the entry is that of this user, sport and mode.
LEMMA StoreKeepsOwn ==
  ASSUME TeamInv, NEW c \in Fetchers, Stored(c)
  PROVE  TeamInv'
<1> DEFINE f == fetch[c]
           g == [f EXCEPT !.at = "answered"]
<1>1. /\ UNCHANGED <<profiles, favored>> /\ fetch' = [fetch EXCEPT ![c] = g]
      /\ entries' \in {entries, [entries EXCEPT ![UserKey(f.ask)] = f.games]}
      /\ f.at = "store" /\ GoodFetch(f) /\ f.ask \in Asked
  BY DEF Stored, Goes, TeamInv, GoodFetch, Ask
<1>2. GoodProfiles' /\ \A a : Had(a)' = Had(a)
  BY <1>1 DEF TeamInv, GoodProfiles, Had
<1>3. GoodEntries'
  <2>1. f.games \in SUBSET Fixtures /\ (f.ask.mode = "live" => OfTeams(f.games, Had(f.ask)))
    BY <1>1 DEF GoodFetch, FetchState
  <2>2. entries' \in [Keys -> {NoEntry} \cup SUBSET Fixtures]
    BY <1>1, <2>1 DEF TeamInv, GoodEntries
  <2>3. ASSUME NEW a \in Asked, a.mode = "live", entries'[UserKey(a)] # NoEntry
        PROVE  OfTeams(entries'[UserKey(a)], Had(a))
    <3>1. UserKey(a) \in Keys
      BY DEF Keys
    <3>2. CASE entries'[UserKey(a)] = entries[UserKey(a)]
      BY <2>3, <3>2 DEF TeamInv, GoodEntries
    <3>3. CASE entries'[UserKey(a)] # entries[UserKey(a)]
      <4>1. UserKey(a) = UserKey(f.ask) /\ entries'[UserKey(a)] = f.games
        BY <1>1, <3>1, <3>3 DEF TeamInv, GoodEntries
      <4>2. QED
        BY <1>1, <2>1, <2>3, <4>1, KeysDiffer
    <3>4. QED
      BY <3>2, <3>3
  <2>4. QED
    BY <1>2, <2>2, <2>3 DEF GoodEntries, OfTeams
<1>4. \A d \in Fetchers : GoodFetch(fetch[d])'
  <2>1. GoodFetch(g)
    BY <1>1 DEF GoodFetch, FetchState
  <2>2. \A d \in Fetchers : fetch'[d] = IF d = c THEN g ELSE fetch[d]
    BY <1>1 DEF TeamInv
  <2> HIDE DEF g
  <2>3. \A d \in Fetchers : GoodFetch(fetch'[d])
    BY <2>1, <2>2 DEF TeamInv
  <2>4. QED
    BY <1>2, <2>3 DEF GoodFetch, OfTeams
<1>5. QED
  BY <1>1, <1>2, <1>3, <1>4 DEF TeamInv

\* An edit of favorites only adds to what the user has had.
LEMMA EditKeepsOwn ==
  ASSUME TeamInv, NEW u \in People, FavoritesChange(u)
  PROVE  TeamInv'
<1>1. PICK teams \in Lists : /\ profiles' = [profiles EXCEPT ![u] = teams]
                             /\ favored' = [favored EXCEPT ![u] = @ \cup teams]
                             /\ UNCHANGED <<entries, fetch>>
  BY DEF FavoritesChange
<1>2. GoodProfiles'
  BY <1>1, TeamScoresAssumption DEF TeamInv, GoodProfiles
<1>3. \A a : a.uid \in People => Had(a) \subseteq Had(a)'
  BY <1>1 DEF TeamInv, GoodProfiles, Had, OfSport
<1>4. GoodEntries'
  BY <1>1, <1>3, OfMoreTeams, TeamScoresAssumption DEF TeamInv, GoodEntries, OfTeams
<1>5. \A d \in Fetchers : GoodFetch(fetch[d])'
  <2> SUFFICES ASSUME NEW d \in Fetchers PROVE GoodFetch(fetch[d])'
    OBVIOUS
  <2>1. GoodFetch(fetch[d]) /\ fetch'[d] = fetch[d]
    BY <1>1 DEF TeamInv
  <2>2. fetch[d].at # "idle" => fetch[d].ask.uid \in People
    BY <2>1, TeamScoresAssumption DEF GoodFetch
  <2>3. QED
    BY <1>3, <2>1, <2>2 DEF GoodFetch, OfTeams
<1>6. QED
  BY <1>1, <1>2, <1>4, <1>5 DEF TeamInv

LEMMA NextTeamInv == TeamInv /\ [TeamScoresNext]_teamScores => TeamInv'
<1> SUFFICES ASSUME TeamInv, [TeamScoresNext]_teamScores PROVE TeamInv'
  OBVIOUS
<1>1. ASSUME NEW k \in Keys, EntryExpires(k) PROVE TeamInv'
  <2>1. UNCHANGED <<profiles, favored, fetch>> /\ entries' = [entries EXCEPT ![k] = NoEntry]
    BY <1>1 DEF EntryExpires
  <2>2. GoodProfiles' /\ GoodEntries'
    BY <2>1 DEF TeamInv, GoodProfiles, GoodEntries, Had, Keys, OfTeams
  <2>3. \A d \in Fetchers : GoodFetch(fetch[d])'
    BY <2>1 DEF TeamInv, GoodFetch, Had
  <2>4. QED
    BY <2>1, <2>2, <2>3 DEF TeamInv
<1>2. CASE UNCHANGED teamScores
  BY <1>2 DEF teamScores, TeamInv, GoodProfiles, GoodEntries, GoodFetch, Had
<1>3. QED
  BY <1>1, <1>2, FetchKeepsOwn, StoreKeepsOwn, EditKeepsOwn DEF TeamScoresNext

\* A live answer for a user has games of the user's favorites in the sport asked for,
\* for any users, lists, games and calls, and whatever is cached, expires, fails or is
\* edited in between.
THEOREM UserScoresAreOwn == TeamScoresSpec => []OwnGames
<1>1. TeamInv => OwnGames
  BY DEF TeamInv, GoodFetch, OfTeams, Had, OwnGames, Ask
<1>2. QED
  BY <1>1, InitTeamInv, NextTeamInv, PTL DEF TeamScoresSpec

=============================================================================
