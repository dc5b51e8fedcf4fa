---------------------------- MODULE SmartUpdates ----------------------------
(***************************************************************************)
(* The smart update triggering service (smartUpdateTriggeringService.ts)   *)
(* and its hook (useSmartUpdateTriggering.ts): requests to refresh parts   *)
(* of the page are merged, queued, and go out at once, after a throttle,   *)
(* or with the next batch; a request that goes out invalidates the queries *)
(* of its kind.                                                            *)
(*                                                                         *)
(* The service is synchronous: processingQueue is empty between steps and  *)
(* is left out, with the payloads (merged field by field) and the metrics. *)
(***************************************************************************)
EXTENDS FiniteSets, SequencesExt

CONSTANTS
  Wanted,      \* the requests callers make: records [type, of, prio, cond, deps]
  MaxQueue,    \* maxQueueSize (100)
  Overflow,    \* what an overflow looks at: floor(MaxQueue * 0.2) requests
  MaxBatch,    \* maxBatchSize (10)
  MaxUpdates  \* bound: requests made

VARIABLES
  queue,       \* updateQueue: the requests in the order of the Map
  coalescing,  \* coalescingMap: key -> request
  throttles,      \* throttleTimers: <<type, priority>> -> the request of its closure
  user,        \* userActivity: [level, focus, quiet, interacted], `quiet' once the
               \* last activity is more than idleThreshold ago
  requestsMade,        \* requests made so far
  invalid      \* queries invalidated and not yet fetched again
smart == <<queue, coalescing, throttles, user, requestsMade, invalid>>

Conditions == {"immediate", "throttled", "batched", "deferred"}

Low == 0
Medium == 1
High == 2
Critical == 3

ASSUME SmartAssumption ==
  /\ MaxUpdates \in Nat
  /\ \A w \in Wanted : w.prio \in Low..Critical /\ w.cond \in Conditions

Key(r) == <<r.type, r.of>>
ThrottleKey(r) == <<r.type, r.prio>>
IsQueued(id) == \E i \in DOMAIN queue : queue[i].id = id
QueuedAs(id) == CHOOSE r \in ToSet(queue) : r.id = id

\* Map.set: an id that is present keeps its place.
QueuedWith(q, r) == IF \E i \in DOMAIN q : q[i].id = r.id
             THEN [i \in DOMAIN q |-> IF q[i].id = r.id THEN r ELSE q[i]]
             ELSE Append(q, r)
\* The elements of q at the places S, in their order.
PlaceOf(i, S) == CHOOSE j \in S : Cardinality({k \in S : k <= j}) = i
Picked(q, S) == [i \in 1..Cardinality(S) |-> q[PlaceOf(i, S)]]
QueuedBut(q, rs) == Picked(q, {i \in DOMAIN q : \A r \in rs : r.id # q[i].id})
Unkeyed(m, rs) == [k \in DOMAIN m \ {Key(r) : r \in rs} |-> m[k]]
Mapped(m, k, r) == [x \in DOMAIN m \cup {k} |-> IF x = k THEN r ELSE m[x]]
Higher(p, q) == IF p > q THEN p ELSE q
Later(p) == IF p = Critical THEN Critical ELSE p + 1

\* The first n of the requests of q at the places S, by their ranks.  Array.sort is
\* stable: the order of the queue decides between equals.
FirstOnes(q, S, n, rank) ==
  LET before(i) == {j \in S : rank[j] < rank[i] \/ (rank[j] = rank[i] /\ j < i)}
  IN  {q[i] : i \in {j \in S : Cardinality(before(j)) < n}}

SmartInit ==
  /\ queue = <<>> /\ coalescing = <<>> /\ throttles = <<>>
  /\ user = [level |-> "active", focus |-> TRUE, quiet |-> FALSE, interacted |-> FALSE]
  /\ requestsMade = 0 /\ invalid = {}

SmartTypeOK ==
  /\ requestsMade \in 0..MaxUpdates
  /\ user \in [level : {"active", "idle", "background"}, focus : BOOLEAN,
              quiet : BOOLEAN, interacted : BOOLEAN]
  /\ Len(queue) <= MaxUpdates
  /\ \A r \in ToSet(queue) : r.id \in 1..requestsMade /\ r.prio \in Low..Critical

(* What going out does: the hook invalidates the queries of the kind; that *)
(* it also does those of the game or the sport is left out.                *)
Invalidates(r) ==
  CASE r.type \in {"score", "sport-change"} -> {"scores", "userTeamScores"}
    [] r.type = "status" -> {"gameStatus"}
    [] r.type = "connection" -> {"connection"}
    [] OTHER -> {}
Out(rs) == invalid' = invalid \cup UNION {Invalidates(r) : r \in rs}

\* A request that waits goes to the batches, last of all.
Deferred(r) == [r EXCEPT !.prio = Low, !.cond = "batched"]
Satisfied(q, r) == \A d \in r.deps : \A i \in DOMAIN q : q[i].id # d

(* processUpdate of the request `r' when the queue and the map are q and m. *)
Process(q, m, r) ==
  IF Satisfied(q, r)
  THEN /\ queue' = QueuedBut(q, {r})
       /\ coalescing' = Unkeyed(m, {r})
       /\ Out({r})
  ELSE queue' = QueuedWith(q, Deferred(r)) /\ coalescing' = m /\ UNCHANGED invalid

\* handleQueueOverflow: of the least urgent, those below high are dropped.
Dropped(q) == {r \in FirstOnes(q, DOMAIN q, Overflow, [i \in DOMAIN q |-> q[i].prio]) :
                 r.prio <= Medium}
Enqueued(r) ==
  QueuedWith(IF Len(queue) >= MaxQueue THEN QueuedBut(queue, Dropped(queue)) ELSE queue, r)

\* applyPriorityBoost: no game is critical yet, isCriticalGame is a placeholder.
Boosted(p) == IF user.level = "active" /\ user.interacted THEN Later(p) ELSE p
New(w) == [type |-> w.type, of |-> w.of, prio |-> Boosted(w.prio), cond |-> w.cond,
           deps |-> w.deps, id |-> requestsMade + 1]

\* Bug: the merged request is queued under the id of the new one.
CoalesceBug(r) ==
  LET merged == [coalescing[Key(r)] EXCEPT !.prio = Higher(@, r.prio), !.id = r.id]
  IN  /\ coalescing' = [coalescing EXCEPT ![Key(r)] = merged]
      /\ queue' = QueuedWith(queue, merged)

\* A request with the key of an earlier one is merged into it.
Coalesce(r) ==
  LET merged == [coalescing[Key(r)] EXCEPT !.prio = Higher(@, r.prio)]
  IN  /\ coalescing' = [coalescing EXCEPT ![Key(r)] = merged]
      /\ queue' = QueuedWith(queue, merged)

RequestUpdate(w) ==
  LET r == New(w)
      q == Enqueued(r)
      m == Mapped(coalescing, Key(r), r)
  IN  /\ requestsMade < MaxUpdates
      /\ requestsMade' = requestsMade + 1
      /\ UNCHANGED user
      /\ IF Key(r) \in DOMAIN coalescing
         THEN Coalesce(r) /\ UNCHANGED <<throttles, invalid>>
         ELSE CASE r.cond = "immediate" -> Process(q, m, r) /\ UNCHANGED throttles
                [] r.cond = "throttled" ->
                     /\ queue' = q /\ coalescing' = m
                     /\ throttles' = Mapped(throttles, ThrottleKey(r), r)
                     /\ UNCHANGED invalid
                [] r.cond = "batched" ->
                     queue' = q /\ coalescing' = m /\ UNCHANGED <<throttles, invalid>>
                [] r.cond = "deferred" ->
                     /\ queue' = QueuedWith(q, Deferred(r)) /\ coalescing' = m
                     /\ UNCHANGED <<throttles, invalid>>

\* The throttle timer of a type and priority, with the request it was set for.
ThrottleEnds(k) ==
  /\ throttles' = [j \in DOMAIN throttles \ {k} |-> throttles[j]]
  /\ IF IsQueued(throttles[k].id) THEN Process(queue, coalescing, throttles[k])
                               ELSE UNCHANGED <<queue, coalescing, invalid>>
  /\ UNCHANGED <<user, requestsMade>>

Batchable == {i \in DOMAIN queue : queue[i].cond = "batched"}

BatchFires ==
  LET sent == FirstOnes(queue, Batchable, MaxBatch,
                        [i \in Batchable |-> Critical - queue[i].prio])
  IN  /\ sent # {}
      /\ queue' = QueuedBut(queue, sent)
      /\ coalescing' = Unkeyed(coalescing, sent)
      /\ Out(sent)
      /\ UNCHANGED <<throttles, user, requestsMade>>

\* cancelUpdate: the map keeps its key; no throttle key holds an id, so
\* clearThrottleTimer finds no timer.
CancelUpdate(id) ==
  /\ queue' = QueuedBut(queue, {QueuedAs(id)})
  /\ UNCHANGED <<coalescing, throttles, user, requestsMade, invalid>>

ForceUpdate(id) ==
  /\ Process(queue, coalescing, QueuedAs(id))
  /\ UNCHANGED <<throttles, user, requestsMade>>

(***************************************************************************)
(* The user's activity.  The listeners of the service keep the times, those *)
(* of the hook also have the level computed at once, and an interval does  *)
(* so every five seconds.  idle, away and a long absence in a focused      *)
(* window count alike: only an active user's requests are boosted.         *)
(***************************************************************************)
Levelled(a) ==
  [a EXCEPT !.level = CASE ~a.focus -> "background"
                        [] a.focus /\ a.quiet -> "idle"
                        [] a.focus /\ ~a.quiet -> "active"]

Act(a) ==
  user' = a /\ a # user /\ UNCHANGED <<queue, coalescing, throttles, requestsMade, invalid>>

UserInteracts == Act(Levelled([user EXCEPT !.quiet = FALSE, !.interacted = TRUE]))
WindowFocused == Act(Levelled([user EXCEPT !.focus = TRUE, !.quiet = FALSE, !.interacted = TRUE]))
WindowBlurred == Act(Levelled([user EXCEPT !.focus = FALSE]))
ActivityInterval == Act(Levelled(user))
UserQuiet == Act([user EXCEPT !.quiet = TRUE])

\* React Query fetches what was invalidated.
FetchInvalid ==
  /\ invalid # {} /\ invalid' = {}
  /\ UNCHANGED <<queue, coalescing, throttles, user, requestsMade>>

\* What the hook's callers ask for; requestConnectionUpdate is like a change of
\* sport, and requestBatchUpdates overrides the condition.
Request(type, of, prio, cond) ==
  [type |-> type, of |-> of, prio |-> prio, cond |-> cond, deps |-> {}]
ScoreUpdateOf(game, prio) == Request("score", game, prio, "throttled")
StatusUpdateOf(game, prio) == Request("status", game, prio, "throttled")
SportChangeTo(sport, prio) == Request("sport-change", sport, prio, "immediate")
BatchOf(requests) == {[w EXCEPT !.cond = "batched"] : w \in requests}

SmartNext ==
  \/ \E w \in Wanted : RequestUpdate(w)
  \/ \E k \in DOMAIN throttles : ThrottleEnds(k)
  \/ BatchFires
  \/ \E r \in ToSet(queue) : CancelUpdate(r.id) \/ ForceUpdate(r.id)
  \/ UserInteracts \/ WindowFocused \/ WindowBlurred \/ ActivityInterval \/ UserQuiet
  \/ FetchInvalid

SmartSpec == SmartInit /\ [][SmartNext]_smart

-----------------------------------------------------------------------------
(***************************************************************************)
(* Two requests of one game are not both queued, and the request that the  *)
(* next one of its key will be merged into is the queued one: processing,  *)
(* dropping, cancelling and deferring keep the queue and the coalescing    *)
(* map about the same requests.                                            *)
(***************************************************************************)
OnePerKey ==
  \A i \in DOMAIN queue :
    /\ \A j \in DOMAIN queue : Key(queue[i]) = Key(queue[j]) => i = j
    /\ Key(queue[i]) \in DOMAIN coalescing
    /\ coalescing[Key(queue[i])].id = queue[i].id

=============================================================================
