----------------------------- MODULE ScoreUpdates -----------------------------
(***************************************************************************)
(* Score updates in the browser: ScoreUpdateService                        *)
(* (client/src/lib/scoreUpdateService.ts) with the baselines of            *)
(* ScoreComparisonService (scoreComparisonService.ts), both singletons,    *)
(* and the filters of the useScoreUpdateService hooks that are mounted.    *)
(*                                                                         *)
(* Every handler is synchronous, so it is one action.  The queue is an     *)
(* array that only grows at its end; it is modelled as a set of updates    *)
(* numbered as they arrived.  Two scores are shown as one payload of       *)
(* gameData; updates that fail validation leave no trace and are left out. *)
(* Detection and throttling are on, as in useUserTeamScores.               *)
(***************************************************************************)
EXTENDS Naturals, FiniteSets

CONSTANTS
  Games, Sports, SportOf,  \* games, leagues and the league of each game
  Statuses, Overtime, Periods, Times,
  MaxScore,
  Payloads,       \* what updates say of a game
  AllScores,      \* leagues with treatAllScoreChangesAsSignificant
  MinDifference, BigStatuses, BigPeriods,  \* the other rules of each league
  MaxQueueSize,
  MaxReceived,    \* bound: updates that arrive
  None

Payload == [home : 0..MaxScore, away : 0..MaxScore, status : Statuses,
            period : Periods, time : Times]
\* An update with the number of its arrival.
Update == [game : Games, data : Payload, at : 1..MaxReceived]
Maybe(S) == S \cup {None}

ASSUME UpdatesAssumption ==
  /\ SportOf \in [Games -> Sports]
  /\ MaxScore \in Nat
  /\ Payloads \subseteq Payload
  /\ AllScores \subseteq Sports
  /\ MinDifference \in [Sports -> Nat]
  /\ BigStatuses \in [Sports -> SUBSET Statuses]
  /\ BigPeriods \in [Sports -> SUBSET Periods]
  /\ MaxQueueSize \in Nat
  /\ MaxReceived \in Nat
  /\ None \notin Payload \cup Update

VARIABLES
  baseline,        \* gameStates of the comparison service
  gameStates,      \* gameStates of the update service
  updateQueue,
  throttleTimers,  \* the games that have one
  filters,         \* the leagues that the mounted hooks filter on
  received,        \* updates that arrived so far
  emitted,         \* history: the last update executed for each game
  refused          \* history: games whose newest change found the queue full

vars == <<baseline, gameStates, updateQueue, throttleTimers, filters, received,
          emitted, refused>>

TypeOK ==
  /\ baseline \in [Games -> Maybe(Payload)]
  /\ gameStates \in [Games -> Maybe(Payload)]
  /\ updateQueue \subseteq Update
  /\ Cardinality(updateQueue) <= MaxQueueSize
  /\ throttleTimers \subseteq Games
  /\ filters \subseteq Sports
  /\ received \in 0..MaxReceived
  /\ emitted \in [Games -> Maybe(Update)]
  /\ refused \subseteq Games

Init ==
  /\ baseline = [g \in Games |-> None]
  /\ gameStates = [g \in Games |-> None]
  /\ updateQueue = {}
  /\ throttleTimers = {}
  /\ filters = {}
  /\ received = 0
  /\ emitted = [g \in Games |-> None]
  /\ refused = {}

-----------------------------------------------------------------------------
\* Comparing with the baseline.

Difference(m, n) == IF m > n THEN m - n ELSE n - m

ScoreDifference(old, new) ==
  Difference(old.home, new.home) + Difference(old.away, new.away)

\* The statuses whose arrival is always significant in a league.
Telling(s) == {"final", "halftime"} \cup Overtime \cup BigStatuses[s]

\* Bug: the clock is looked at before the status.
BugSignificantClockFirst(old, new, s) ==
  IF old.time # new.time THEN FALSE
  ELSE CASE old.status # new.status -> new.status \in Telling(s)
         [] old.status = new.status /\ old.period # new.period -> new.period \in BigPeriods[s]
         [] OTHER -> s \in AllScores \/ ScoreDifference(old, new) >= MinDifference[s]

\* determineChangeType and isSignificantChange: the first difference, of
\* status, period, clock and score in this order, decides.
Significant(old, new, s) ==
  LET points == ScoreDifference(old, new) IN
  CASE old.status # new.status ->
         \/ new.status \in Telling(s)
         \/ old.status = "scheduled" /\ new.status = "live"
    [] old.status = new.status /\ old.period # new.period ->
         new.period \in BigPeriods[s]
    [] old.status = new.status /\ old.period = new.period /\ old.time # new.time -> FALSE
    [] OTHER -> points > 0 /\ (s \in AllScores \/ points >= MinDifference[s])

\* compareScores of an update of g; the first one of a game is a change.
IsChange(g, data) ==
  baseline[g] # None => Significant(baseline[g], data, SportOf[g])

-----------------------------------------------------------------------------
\* The filters of the hooks.

\* A hook is mounted for a league, or comes back with another one.
AddFilter(s) ==
  /\ s \notin filters
  /\ filters' = filters \cup {s}
  /\ UNCHANGED <<baseline, gameStates, updateQueue, throttleTimers, received,
                 emitted, refused>>

\* The last hook of a league is unmounted or changes its league.
RemoveFilter(s) ==
  /\ s \in filters
  /\ filters' = filters \ {s}
  /\ UNCHANGED <<baseline, gameStates, updateQueue, throttleTimers, received,
                 emitted, refused>>

\* Every filter must let the update pass, whichever hook has it.
PassesFilters(g) == \A s \in filters : s = SportOf[g]

-----------------------------------------------------------------------------
\* Updates.

Queued(g) == {u \in updateQueue : u.game = g}
Newest(S) == CHOOSE u \in S : \A v \in S : v.at <= u.at

ExecuteUpdate(u) ==
  /\ gameStates' = [gameStates EXCEPT ![u.game] = u.data]
  /\ emitted' = [emitted EXCEPT ![u.game] = u]

\* An update that is filtered out, or no significant change: the baseline moves
\* in the second case.
UpdateIgnored(g, data) ==
  /\ \/ ~PassesFilters(g) /\ UNCHANGED baseline
     \/ PassesFilters(g) /\ ~IsChange(g, data)
          /\ baseline' = [baseline EXCEPT ![g] = data]
  /\ UNCHANGED <<gameStates, updateQueue, throttleTimers, emitted, refused>>

\* The first significant change of a while is executed at once.
UpdateExecuted(g, data) ==
  /\ PassesFilters(g)
  /\ IsChange(g, data)
  /\ baseline' = [baseline EXCEPT ![g] = data]
  /\ g \notin throttleTimers
  /\ ExecuteUpdate([game |-> g, data |-> data, at |-> received + 1])
  /\ throttleTimers' = throttleTimers \cup {g}
  /\ refused' = refused \ {g}
  /\ UNCHANGED updateQueue

\* A further one waits in the queue; when that is full, it is lost, although
\* the baseline moved.
UpdateThrottled(g, data) ==
  /\ PassesFilters(g)
  /\ IsChange(g, data)
  /\ baseline' = [baseline EXCEPT ![g] = data]
  /\ g \in throttleTimers
  /\ IF Cardinality(updateQueue) < MaxQueueSize
       THEN /\ updateQueue' = updateQueue
                 \cup {[game |-> g, data |-> data, at |-> received + 1]}
            /\ refused' = refused \ {g}
       ELSE /\ refused' = refused \cup {g}
            /\ UNCHANGED updateQueue
  /\ UNCHANGED <<gameStates, throttleTimers, emitted>>

\* A user-team-score-update reaches the handlers of the mounted hooks.  The
\* first one processes it; the others find no change left.
ProcessScoreUpdate(g) ==
  /\ received < MaxReceived
  /\ filters # {}
  /\ received' = received + 1
  /\ \E data \in Payloads :
       UpdateIgnored(g, data) \/ UpdateExecuted(g, data) \/ UpdateThrottled(g, data)
  /\ UNCHANGED filters

\* A user-team-status-change is not throttled and leaves the baseline alone.
ProcessStatusChange(g) ==
  /\ filters # {}
  /\ gameStates[g] # None
  /\ \E status \in Statuses :
       gameStates' = [gameStates EXCEPT ![g].status = status]
  /\ UNCHANGED <<baseline, updateQueue, throttleTimers, filters, received,
                 emitted, refused>>

\* Bug: the oldest queued update is executed.
BugTimerOldest(g) ==
  /\ g \in throttleTimers
  /\ throttleTimers' = throttleTimers \ {g}
  /\ updateQueue' = updateQueue \ Queued(g)
  /\ IF Queued(g) = {}
       THEN UNCHANGED <<baseline, gameStates, emitted, refused>>
       ELSE LET u == CHOOSE x \in Queued(g) : \A v \in Queued(g) : x.at <= v.at IN
            /\ baseline' = [baseline EXCEPT ![g] = u.data]
            /\ ExecuteUpdate(u)
            /\ refused' = refused \ {g}
  /\ UNCHANGED <<filters, received>>

\* Bug: a timer does nothing once the page has no hook left.
BugTimerNeedsHook(g) ==
  /\ g \in throttleTimers
  /\ filters # {}
  /\ throttleTimers' = throttleTimers \ {g}
  /\ updateQueue' = updateQueue \ Queued(g)
  /\ IF Queued(g) = {}
       THEN UNCHANGED <<baseline, gameStates, emitted, refused>>
       ELSE LET u == Newest(Queued(g)) IN
            /\ baseline' = [baseline EXCEPT ![g] = u.data]
            /\ ExecuteUpdate(u)
            /\ refused' = refused \ {g}
  /\ UNCHANGED <<filters, received>>

\* The throttle interval of a game is over: the newest of its queued updates is
\* compared once more, which moves the baseline back to it, and executed.
TimerFires(g) ==
  /\ g \in throttleTimers
  /\ throttleTimers' = throttleTimers \ {g}
  /\ updateQueue' = updateQueue \ Queued(g)
  /\ IF Queued(g) = {}
       THEN UNCHANGED <<baseline, gameStates, emitted, refused>>
       ELSE LET u == Newest(Queued(g)) IN
            /\ baseline' = [baseline EXCEPT ![g] = u.data]
            /\ ExecuteUpdate(u)
            /\ refused' = refused \ {g}
  /\ UNCHANGED <<filters, received>>

-----------------------------------------------------------------------------

Next ==
  \/ \E s \in Sports : AddFilter(s) \/ RemoveFilter(s)
  \/ \E g \in Games : ProcessScoreUpdate(g) \/ ProcessStatusChange(g) \/ TimerFires(g)

Spec == Init /\ [][Next]_vars

\* Timers fire.
FairSpec == Spec /\ \A g \in Games : WF_vars(TimerFires(g))

-----------------------------------------------------------------------------

\* No update is stranded: the game of a queued update has a timer that will
\* take it out, although all games share the queue.
QueuedHasTimer == \A u \in updateQueue : u.game \in throttleTimers

\* The update a game will show when its timer has fired.
Latest(g) == IF Queued(g) = {} THEN emitted[g] ELSE Newest(Queued(g))

\* The page does not miss how a game stands: unless the queue was full, the
\* last status compared is the one shown or about to be shown, or one of no
\* significance.  Baselines move with every update and back when a timer fires,
\* so it takes both services to keep this.
StatusKeepsUp ==
  \A g \in Games :
    (baseline[g] # None /\ g \notin refused)
      => /\ emitted[g] # None
         /\ \/ baseline[g].status = Latest(g).data.status
            \/ baseline[g].status \notin Telling(SportOf[g])

Feed == INSTANCE GameFeed WITH
  shown <- [g \in Games |-> IF emitted[g] = None THEN 0 ELSE emitted[g].at],
  waiting <- [g \in Games |-> IF Queued(g) = {} THEN 0 ELSE Newest(Queued(g)).at]

\* The service is a throttled feed: the accepted updates of a game are shown in
\* the order they arrived, only superseded ones are skipped, and an update is
\* shown at once only when none is waiting.
FeedKept == Feed!FeedSpec

\* And no accepted update waits for ever, whoever is mounted meanwhile.
FeedCatchesUp == Feed!FairFeedSpec

=============================================================================
