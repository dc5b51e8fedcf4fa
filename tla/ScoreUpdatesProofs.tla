--------------------------- MODULE ScoreUpdatesProofs ---------------------------
(***************************************************************************)
(* The safety properties of ScoreUpdates, for any games, leagues, rules    *)
(* and queue limit, and the refinement of GameFeed; and what the feed of   *)
(* LiveScores shows of a message that comes twice.                         *)
(***************************************************************************)
EXTENDS ScoreUpdates, LiveScores, FiniteSetTheorems, SequenceTheorems,
        WellFoundedInduction, TLAPS

\* The queue is finite and its updates are told apart by their arrival.
QueueOrdered ==
  /\ IsFiniteSet(updateQueue)
  /\ \A u \in updateQueue : u.at <= received
  /\ \A u, v \in updateQueue : u.at = v.at => u = v

\* Of a game that has queued updates, one is the newest.  It is kept by every
\* step, so no induction on the size of the queue is needed.
IsNewest(u, S) == u \in S /\ \A v \in S : v.at <= u.at
NewestExists == \A g \in Games : Queued(g) # {} => \E u : IsNewest(u, Queued(g))

\* A timer was started when an update was executed.
TimerAfterUpdate == \A g \in throttleTimers : emitted[g] # None

IInv ==
  /\ TypeOK
  /\ QueueOrdered
  /\ NewestExists
  /\ TimerAfterUpdate
  /\ QueuedHasTimer
  /\ StatusKeepsUp

-----------------------------------------------------------------------------
\* The newest of some updates.

\* Newest picks a newest update when there is one.
LEMMA NewestIs ==
  ASSUME NEW S, \E u : IsNewest(u, S)
  PROVE  IsNewest(Newest(S), S)
BY DEF Newest, IsNewest

\* There is only one when arrivals tell updates apart.
LEMMA NewestUnique ==
  ASSUME NEW S \in SUBSET Update, \A v, w \in S : v.at = w.at => v = w,
         NEW u, IsNewest(u, S)
  PROVE  Newest(S) = u
<1>1. IsNewest(Newest(S), S)
  BY NewestIs
<1>2. u \in S /\ Newest(S) \in S /\ u.at <= Newest(S).at /\ Newest(S).at <= u.at
  BY <1>1 DEF IsNewest
<1>3. \A v \in S : v.at \in Nat
  BY DEF Update
<1>4. u.at = Newest(S).at
  BY <1>2, <1>3
<1>5. QED BY <1>2, <1>4

\* What the invariant says of the queued updates of a game.
LEMMA NewestQueued ==
  ASSUME IInv, NEW g \in Games, Queued(g) # {}
  PROVE  /\ IsNewest(Newest(Queued(g)), Queued(g))
         /\ Newest(Queued(g)) \in Update
         /\ Newest(Queued(g)).game = g
         /\ g \in throttleTimers
<1>1. IsNewest(Newest(Queued(g)), Queued(g))
  BY NewestIs DEF IInv, NewestExists
<1>2. QED
  BY <1>1 DEF IsNewest, Queued, IInv, TypeOK, QueuedHasTimer

-----------------------------------------------------------------------------
\* Steps.

\* Nothing is queued, shown or expected at first.
LEMMA InitIInv == Init => IInv
<1> SUFFICES ASSUME Init PROVE IInv
  OBVIOUS
<1>1. IsFiniteSet({}) /\ Cardinality({}) = 0
  BY FS_EmptySet
<1>2. TypeOK
  BY <1>1, UpdatesAssumption DEF Init, TypeOK, Maybe
<1>3. QueueOrdered /\ NewestExists /\ TimerAfterUpdate /\ QueuedHasTimer
  BY <1>1 DEF Init, QueueOrdered, NewestExists, TimerAfterUpdate, QueuedHasTimer, Queued
<1>4. StatusKeepsUp
  BY DEF Init, StatusKeepsUp
<1>5. QED BY <1>2, <1>3, <1>4 DEF IInv

\* Steps that leave the updates alone: the filters' and the status messages'.
Aside == UNCHANGED <<baseline, updateQueue, throttleTimers, received, emitted, refused>>

LEMMA AsideKeeps ==
  ASSUME IInv, Aside, filters' \subseteq Sports,
         gameStates' \in [Games -> Maybe(Payload)]
  PROVE  IInv'
<1>1. TypeOK'
  BY DEF IInv, TypeOK, Aside
<1>2. QueueOrdered' /\ NewestExists' /\ TimerAfterUpdate' /\ QueuedHasTimer'
  BY DEF IInv, Aside, QueueOrdered, NewestExists, TimerAfterUpdate, QueuedHasTimer,
         Queued, IsNewest
<1>3. StatusKeepsUp'
  BY DEF IInv, Aside, StatusKeepsUp, Latest, Queued, Newest
<1>4. QED BY <1>1, <1>2, <1>3 DEF IInv

\* An update that is ignored moves the baseline at most to one of the same
\* status, or of a status of no significance.
LEMMA IgnoredKeeps ==
  ASSUME IInv, NEW g \in Games, NEW data \in Payloads, UpdateIgnored(g, data),
         received' = received + 1, received < MaxReceived, UNCHANGED filters
  PROVE  IInv'
<1>0. data \in Payload /\ received \in Nat /\ received' \in 0..MaxReceived
  BY UpdatesAssumption DEF IInv, TypeOK
<1>1. UNCHANGED <<gameStates, updateQueue, throttleTimers, emitted, refused>>
  BY DEF UpdateIgnored
<1>2. /\ baseline' \in [Games -> Maybe(Payload)]
      /\ \A h \in Games \ {g} : baseline'[h] = baseline[h]
      /\ \/ baseline'[g] = baseline[g]
         \/ baseline[g] # None /\ baseline'[g] = data
              /\ ~Significant(baseline[g], data, SportOf[g])
  BY <1>0 DEF UpdateIgnored, IsChange, IInv, TypeOK, Maybe
<1>3. TypeOK'
  BY <1>0, <1>1, <1>2 DEF IInv, TypeOK
<1>4. QueueOrdered' /\ NewestExists' /\ TimerAfterUpdate' /\ QueuedHasTimer'
  <2>1. \A u \in updateQueue : u.at \in Nat
    BY DEF IInv, TypeOK, Update
  <2>2. QueueOrdered'
    BY <1>0, <1>1, <2>1 DEF IInv, QueueOrdered
  <2>3. NewestExists' /\ TimerAfterUpdate' /\ QueuedHasTimer'
    BY <1>1 DEF IInv, NewestExists, TimerAfterUpdate, QueuedHasTimer, Queued, IsNewest
  <2>4. QED BY <2>2, <2>3
<1>5. StatusKeepsUp'
  <2> SUFFICES ASSUME NEW h \in Games, baseline'[h] # None, h \notin refused
               PROVE  /\ emitted[h] # None
                      /\ \/ baseline'[h].status = Latest(h).data.status
                         \/ baseline'[h].status \notin Telling(SportOf[h])
    BY <1>1 DEF StatusKeepsUp, Latest, Queued, Newest
  <2>1. CASE baseline'[h] = baseline[h]
    BY <2>1 DEF IInv, StatusKeepsUp
  <2>2. CASE h = g /\ baseline'[g] # baseline[g]
    <3>1. baseline[g] # None /\ baseline'[g] = data
            /\ ~Significant(baseline[g], data, SportOf[g])
      BY <1>2, <2>2
    <3>2. baseline[g].status # data.status => data.status \notin Telling(SportOf[g])
      BY <3>1 DEF Significant
    <3>3. /\ emitted[g] # None
          /\ \/ baseline[g].status = Latest(g).data.status
             \/ baseline[g].status \notin Telling(SportOf[g])
      BY <2>2, <3>1 DEF IInv, StatusKeepsUp
    <3>4. QED BY <2>2, <3>1, <3>2, <3>3
  <2>3. QED BY <1>2, <2>1, <2>2
<1>6. QED BY <1>3, <1>4, <1>5 DEF IInv

\* An update that is executed at once is the last status compared and shown.
LEMMA ExecutedKeeps ==
  ASSUME IInv, NEW g \in Games, NEW data \in Payloads, UpdateExecuted(g, data),
         received' = received + 1, received < MaxReceived, UNCHANGED filters
  PROVE  IInv'
<1> DEFINE u == [game |-> g, data |-> data, at |-> received + 1]
<1>0. /\ data \in Payload /\ received \in Nat /\ received' \in 0..MaxReceived
      /\ u \in Update
  BY UpdatesAssumption DEF IInv, TypeOK, Update
<1>1. /\ g \notin throttleTimers
      /\ baseline' = [baseline EXCEPT ![g] = data]
      /\ gameStates' = [gameStates EXCEPT ![g] = data]
      /\ emitted' = [emitted EXCEPT ![g] = u]
      /\ throttleTimers' = throttleTimers \cup {g}
      /\ refused' = refused \ {g}
      /\ UNCHANGED updateQueue
  BY DEF UpdateExecuted, ExecuteUpdate
<1>2. u # None /\ data # None /\ u.data = data
  BY <1>0, UpdatesAssumption
<1> HIDE DEF u
<1>3. /\ baseline \in [Games -> Maybe(Payload)]
      /\ gameStates \in [Games -> Maybe(Payload)]
      /\ emitted \in [Games -> Maybe(Update)]
      /\ updateQueue \subseteq Update
  BY DEF IInv, TypeOK
<1>4. TypeOK'
  BY <1>0, <1>1, <1>3 DEF IInv, TypeOK, Maybe
<1>5. QueueOrdered'
  <2>1. \A v \in updateQueue : v.at \in Nat
    BY <1>3 DEF Update
  <2>2. QED BY <1>0, <1>1, <2>1 DEF IInv, QueueOrdered
<1>6. NewestExists' /\ TimerAfterUpdate' /\ QueuedHasTimer'
  BY <1>1, <1>2, <1>3 DEF IInv, TypeOK, NewestExists, TimerAfterUpdate, QueuedHasTimer,
                          Queued, IsNewest
<1>7. StatusKeepsUp'
  <2>1. Queued(g) = {}
    BY <1>1 DEF IInv, QueuedHasTimer, Queued
  <2>2. SUFFICES ASSUME NEW h \in Games, baseline'[h] # None, h \notin refused'
                 PROVE  /\ emitted'[h] # None
                        /\ \/ baseline'[h].status = Latest(h)'.data.status
                           \/ baseline'[h].status \notin Telling(SportOf[h])
    BY DEF StatusKeepsUp
  <2>3. CASE h = g
    <3>1. Latest(g)' = emitted'[g]
      BY <1>1, <2>1 DEF Latest, Queued
    <3>2. QED BY <1>1, <1>2, <1>3, <2>3, <3>1
  <2>4. CASE h # g
    <3>1. baseline'[h] = baseline[h] /\ emitted'[h] = emitted[h] /\ h \notin refused
      BY <1>1, <1>3, <2>2, <2>4
    <3>2. Latest(h)' = Latest(h)
      BY <1>1, <3>1 DEF Latest, Queued, Newest
    <3>3. QED BY <2>2, <3>1, <3>2 DEF IInv, StatusKeepsUp
  <2>5. QED BY <2>3, <2>4
<1>8. QED BY <1>4, <1>5, <1>6, <1>7 DEF IInv

\* A new update that is queued is the newest of its game and changes no other's.
LEMMA NewestOfMore ==
  ASSUME IInv, NEW g \in Games, NEW u \in Update, u.game = g, u.at = received + 1,
         updateQueue' = updateQueue \cup {u}
  PROVE  /\ Queued(g)' = Queued(g) \cup {u}
         /\ IsNewest(u, Queued(g)')
         /\ Newest(Queued(g)') = u
         /\ \A h \in Games \ {g} : Queued(h)' = Queued(h)
<1>1. /\ updateQueue \subseteq Update /\ received \in Nat
      /\ \A v \in updateQueue : v.at <= received /\ v.at \in Nat
      /\ \A v, w \in updateQueue : v.at = w.at => v = w
  BY DEF IInv, TypeOK, QueueOrdered, Update
<1>2. /\ Queued(g)' = Queued(g) \cup {u}
      /\ \A h \in Games \ {g} : Queued(h)' = Queued(h)
  BY DEF Queued
<1>3. IsNewest(u, Queued(g)')
  BY <1>1, <1>2 DEF IsNewest, Queued
<1>4. Newest(Queued(g)') = u
  <2> DEFINE S == Queued(g)'
  <2>1. S \in SUBSET Update /\ \A v, w \in S : v.at = w.at => v = w
    BY <1>1, <1>2 DEF Queued
  <2> HIDE DEF S
  <2>2. Newest(S) = u
    BY <1>3, <2>1, NewestUnique DEF S
  <2>3. QED BY <2>2 DEF S
<1>5. QED BY <1>2, <1>3, <1>4

\* An update that has to wait is the last status compared and the next to be
\* shown; one that finds the queue full is noted as refused.
LEMMA ThrottledKeeps ==
  ASSUME IInv, NEW g \in Games, NEW data \in Payloads, UpdateThrottled(g, data),
         received' = received + 1, received < MaxReceived, UNCHANGED filters
  PROVE  IInv'
<1> DEFINE u == [game |-> g, data |-> data, at |-> received + 1]
<1>0. /\ data \in Payload /\ received \in Nat /\ received' \in 0..MaxReceived
      /\ u \in Update /\ u.game = g /\ u.at = received + 1 /\ u.data = data
  BY UpdatesAssumption DEF IInv, TypeOK, Update
<1>1. /\ g \in throttleTimers
      /\ baseline' = [baseline EXCEPT ![g] = data]
      /\ UNCHANGED <<gameStates, throttleTimers, emitted>>
  BY DEF UpdateThrottled
<1>2. \/ /\ Cardinality(updateQueue) < MaxQueueSize
         /\ updateQueue' = updateQueue \cup {u} /\ refused' = refused \ {g}
      \/ updateQueue' = updateQueue /\ refused' = refused \cup {g}
  BY DEF UpdateThrottled
<1> HIDE DEF u
<1>3. /\ baseline \in [Games -> Maybe(Payload)]
      /\ updateQueue \subseteq Update
      /\ IsFiniteSet(updateQueue) /\ Cardinality(updateQueue) \in Nat
      /\ refused \subseteq Games
      /\ \A v \in updateQueue : v.at \in Nat /\ v.at <= received
  BY FS_CardinalityType DEF IInv, TypeOK, QueueOrdered, Update
<1>4. emitted[g] # None
  BY <1>1 DEF IInv, TimerAfterUpdate
<1>5. CASE /\ Cardinality(updateQueue) < MaxQueueSize
           /\ updateQueue' = updateQueue \cup {u} /\ refused' = refused \ {g}
  <2>1. /\ Queued(g)' = Queued(g) \cup {u}
        /\ IsNewest(u, Queued(g)')
        /\ Newest(Queued(g)') = u
        /\ \A h \in Games \ {g} : Queued(h)' = Queued(h)
    BY <1>0, <1>5, NewestOfMore
  <2>2. IsFiniteSet(updateQueue') /\ Cardinality(updateQueue') <= MaxQueueSize
    <3>1. /\ IsFiniteSet(updateQueue \cup {u})
          /\ \/ Cardinality(updateQueue \cup {u}) = Cardinality(updateQueue)
             \/ Cardinality(updateQueue \cup {u}) = Cardinality(updateQueue) + 1
      BY <1>3, FS_AddElement
    <3>2. QED BY <1>3, <1>5, <3>1, UpdatesAssumption
  <2>3. TypeOK'
    BY <1>0, <1>1, <1>3, <1>5, <2>2 DEF IInv, TypeOK, Maybe
  <2>4. QueueOrdered'
    BY <1>0, <1>3, <1>5, <2>2 DEF IInv, QueueOrdered
  <2>5. NewestExists'
    BY <2>1 DEF IInv, NewestExists
  <2>6. TimerAfterUpdate' /\ QueuedHasTimer'
    BY <1>0, <1>1, <1>5 DEF IInv, TimerAfterUpdate, QueuedHasTimer
  <2>7. StatusKeepsUp'
    <3>1. SUFFICES ASSUME NEW h \in Games, baseline'[h] # None, h \notin refused'
                   PROVE  /\ emitted'[h] # None
                          /\ \/ baseline'[h].status = Latest(h)'.data.status
                             \/ baseline'[h].status \notin Telling(SportOf[h])
      BY DEF StatusKeepsUp
    <3>2. CASE h = g
      <4>1. Latest(g)' = u
        BY <2>1 DEF Latest
      <4>2. QED BY <1>0, <1>1, <1>3, <1>4, <3>2, <4>1
    <3>3. CASE h # g
      <4>1. baseline'[h] = baseline[h] /\ h \notin refused
        BY <1>1, <1>3, <1>5, <3>1, <3>3
      <4>2. Latest(h)' = Latest(h)
        BY <1>1, <2>1, <3>3 DEF Latest
      <4>3. QED BY <1>1, <3>1, <4>1, <4>2 DEF IInv, StatusKeepsUp
    <3>4. QED BY <3>2, <3>3
  <2>8. QED BY <2>3, <2>4, <2>5, <2>6, <2>7 DEF IInv
<1>6. CASE updateQueue' = updateQueue /\ refused' = refused \cup {g}
  <2>1. TypeOK'
    BY <1>0, <1>1, <1>3, <1>6 DEF IInv, TypeOK, Maybe
  <2>2. QueueOrdered'
    BY <1>0, <1>3, <1>6 DEF IInv, QueueOrdered
  <2>3. NewestExists' /\ TimerAfterUpdate' /\ QueuedHasTimer'
    BY <1>1, <1>6 DEF IInv, NewestExists, TimerAfterUpdate, QueuedHasTimer, Queued,
                      IsNewest
  <2>4. StatusKeepsUp'
    <3>1. SUFFICES ASSUME NEW h \in Games, baseline'[h] # None, h \notin refused'
                   PROVE  /\ emitted'[h] # None
                          /\ \/ baseline'[h].status = Latest(h)'.data.status
                             \/ baseline'[h].status \notin Telling(SportOf[h])
      BY DEF StatusKeepsUp
    <3>2. h # g /\ h \notin refused
      BY <1>6, <3>1
    <3>3. baseline'[h] = baseline[h]
      BY <1>1, <1>3, <3>2
    <3>4. Latest(h)' = Latest(h)
      BY <1>1, <1>6 DEF Latest, Queued, Newest
    <3>5. QED BY <1>1, <3>1, <3>2, <3>3, <3>4 DEF IInv, StatusKeepsUp
  <2>5. QED BY <2>1, <2>2, <2>3, <2>4 DEF IInv
<1>7. QED BY <1>2, <1>5, <1>6

\* A timer that fires leaves nothing queued for its game, and the last status
\* compared is the one shown.
LEMMA TimerKeeps ==
  ASSUME IInv, NEW g \in Games, TimerFires(g)
  PROVE  IInv'
<1>1. /\ updateQueue' = updateQueue \ Queued(g)
      /\ throttleTimers' = throttleTimers \ {g}
      /\ UNCHANGED <<filters, received>>
  BY DEF TimerFires
<1>2. /\ Queued(g)' = {}
      /\ \A h \in Games \ {g} : Queued(h)' = Queued(h)
  BY <1>1 DEF Queued
<1>3. /\ baseline \in [Games -> Maybe(Payload)]
      /\ gameStates \in [Games -> Maybe(Payload)]
      /\ emitted \in [Games -> Maybe(Update)]
      /\ updateQueue \subseteq Update /\ throttleTimers \subseteq Games
      /\ IsFiniteSet(updateQueue)
  BY DEF IInv, TypeOK, QueueOrdered
<1>4. \/ Queued(g) = {} /\ UNCHANGED <<baseline, gameStates, emitted, refused>>
      \/ /\ Queued(g) # {}
         /\ \E u \in Update :
              /\ baseline' = [baseline EXCEPT ![g] = u.data]
              /\ gameStates' = [gameStates EXCEPT ![g] = u.data]
              /\ emitted' = [emitted EXCEPT ![g] = u]
              /\ refused' = refused \ {g}
  BY NewestQueued DEF TimerFires, ExecuteUpdate
<1>5. \A u \in Update : u # None /\ u.data \in Payload /\ u.data # None
  BY UpdatesAssumption DEF Update
<1>6. /\ baseline' \in [Games -> Maybe(Payload)]
      /\ gameStates' \in [Games -> Maybe(Payload)]
      /\ emitted' \in [Games -> Maybe(Update)]
      /\ refused' \subseteq refused
      /\ \A h \in Games \ {g} : /\ baseline'[h] = baseline[h]
                                /\ emitted'[h] = emitted[h]
                                /\ h \in refused' <=> h \in refused
      /\ emitted[g] # None => emitted'[g] # None
  BY <1>3, <1>4, <1>5 DEF Maybe
<1>7. /\ IsFiniteSet(updateQueue')
      /\ Cardinality(updateQueue') <= MaxQueueSize
  <2>1. /\ IsFiniteSet(updateQueue') /\ Cardinality(updateQueue') \in Nat
        /\ Cardinality(updateQueue) \in Nat
        /\ Cardinality(updateQueue') <= Cardinality(updateQueue)
    BY <1>1, <1>3, FS_Subset, FS_CardinalityType
  <2>2. QED BY <2>1, UpdatesAssumption DEF IInv, TypeOK
<1>8. TypeOK'
  BY <1>1, <1>3, <1>6, <1>7 DEF IInv, TypeOK
<1>9. QueueOrdered' /\ NewestExists'
  BY <1>1, <1>2, <1>7 DEF IInv, QueueOrdered, NewestExists
<1>10. TimerAfterUpdate' /\ QueuedHasTimer'
  BY <1>1, <1>3, <1>6 DEF IInv, TimerAfterUpdate, QueuedHasTimer, Queued
<1>11. StatusKeepsUp'
  <2>1. SUFFICES ASSUME NEW h \in Games, baseline'[h] # None, h \notin refused'
                 PROVE  /\ emitted'[h] # None
                        /\ \/ baseline'[h].status = Latest(h)'.data.status
                           \/ baseline'[h].status \notin Telling(SportOf[h])
    BY DEF StatusKeepsUp
  <2>2. CASE h # g
    <3>1. Latest(h)' = Latest(h)
      BY <1>2, <1>6, <2>2 DEF Latest
    <3>2. QED BY <1>6, <2>1, <2>2, <3>1 DEF IInv, StatusKeepsUp
  <2>3. CASE h = g
    <3>1. Latest(g)' = emitted'[g]
      BY <1>2 DEF Latest
    <3>2. CASE Queued(g) = {} /\ UNCHANGED <<baseline, gameStates, emitted, refused>>
      <4>1. Latest(g) = emitted[g]
        BY <3>2 DEF Latest
      <4>2. QED BY <2>1, <2>3, <3>1, <3>2, <4>1 DEF IInv, StatusKeepsUp
    <3>3. CASE Queued(g) # {}
      BY <1>3, <1>4, <1>5, <2>3, <3>1, <3>3
    <3>4. QED BY <1>4, <3>2, <3>3
  <2>4. QED BY <2>2, <2>3
<1>12. QED BY <1>8, <1>9, <1>10, <1>11 DEF IInv

\* Every step keeps the invariant,
LEMMA NextIInv == IInv /\ [Next]_vars => IInv'
<1> SUFFICES ASSUME IInv, [Next]_vars PROVE IInv'
  OBVIOUS
<1>0. /\ filters \subseteq Sports
      /\ gameStates \in [Games -> Maybe(Payload)]
  BY DEF IInv, TypeOK
<1>1. ASSUME NEW s \in Sports, AddFilter(s) \/ RemoveFilter(s) PROVE IInv'
  BY <1>0, <1>1, AsideKeeps DEF AddFilter, RemoveFilter, Aside
<1>2. ASSUME NEW g \in Games, ProcessScoreUpdate(g) PROVE IInv'
  BY <1>2, IgnoredKeeps, ExecutedKeeps, ThrottledKeeps DEF ProcessScoreUpdate
<1>3. ASSUME NEW g \in Games, ProcessStatusChange(g) PROVE IInv'
  <2>1. PICK status \in Statuses : gameStates' = [gameStates EXCEPT ![g].status = status]
    BY <1>3 DEF ProcessStatusChange
  <2>2. gameStates[g] \in Payload
    BY <1>0, <1>3 DEF ProcessStatusChange, Maybe
  <2>3. [gameStates[g] EXCEPT !.status = status] \in Payload
    BY <2>2 DEF Payload
  <2>4. gameStates' \in [Games -> Maybe(Payload)]
    BY <1>0, <2>1, <2>3 DEF Maybe
  <2>5. QED BY <1>0, <1>3, <2>4, AsideKeeps DEF ProcessStatusChange, Aside
<1>4. CASE UNCHANGED vars
  BY <1>0, <1>4, AsideKeeps DEF vars, Aside
<1>5. QED
  BY <1>1, <1>2, <1>3, <1>4, TimerKeeps DEF Next

\* so every reachable state satisfies it.
LEMMA SpecIInv == Spec => []IInv
BY InitIInv, NextIInv, PTL DEF Spec

-----------------------------------------------------------------------------

\* The types of both services; the queue stays within maxQueueSize
\* (scoreUpdateService.ts).
THEOREM TypeCorrect == Spec => []TypeOK
<1>1. IInv => TypeOK
  BY DEF IInv
<1>2. QED BY <1>1, SpecIInv, PTL

\* No queued update is stranded without a timer, although one queue serves the
\* timers of all games (throttleUpdate).
THEOREM NothingStranded == Spec => []QueuedHasTimer
<1>1. IInv => QueuedHasTimer
  BY DEF IInv
<1>2. QED BY <1>1, SpecIInv, PTL

\* Unless the queue was full, the page shows or will show the last status that
\* has a significance, whatever was ignored in between (compareScores,
\* throttleUpdate).
THEOREM StatusNotMissed == Spec => []StatusKeepsUp
<1>1. IInv => StatusKeepsUp
  BY DEF IInv
<1>2. QED BY <1>1, SpecIInv, PTL

-----------------------------------------------------------------------------
\* The refinement.

ShownAt == [g \in Games |-> IF emitted[g] = None THEN 0 ELSE emitted[g].at]
WaitingAt == [g \in Games |-> IF Queued(g) = {} THEN 0 ELSE Newest(Queued(g)).at]

\* A step that leaves the queue and what was executed alone looks so to the feed.
LEMMA FeedUnchanged ==
  ASSUME UNCHANGED <<updateQueue, emitted>>
  PROVE  UNCHANGED <<ShownAt, WaitingAt>>
<1>1. \A g \in Games : Queued(g)' = Queued(g)
  BY DEF Queued
<1>2. QED BY <1>1 DEF ShownAt, WaitingAt

\* An update that reaches the service is shown, waits or is ignored.
LEMMA ArrivalRefines ==
  ASSUME IInv, NEW g \in Games, ProcessScoreUpdate(g)
  PROVE  Feed!FeedNext
<1>1. PICK data \in Payloads :
        UpdateIgnored(g, data) \/ UpdateExecuted(g, data) \/ UpdateThrottled(g, data)
  BY DEF ProcessScoreUpdate
<1>2. received' = received + 1 /\ received \in Nat /\ received < MaxReceived
  BY DEF ProcessScoreUpdate, IInv, TypeOK
<1> DEFINE u == [game |-> g, data |-> data, at |-> received + 1]
<1>3. u \in Update /\ u.game = g /\ u.at = received' /\ u # None
  BY <1>2, UpdatesAssumption DEF Update
<1>4. CASE UNCHANGED <<updateQueue, emitted>>
  BY <1>2, <1>4, FeedUnchanged DEF Feed!FeedNext, Feed!Ignore, ShownAt, WaitingAt
<1>5. CASE UpdateExecuted(g, data)
  <2>1. /\ emitted' = [emitted EXCEPT ![g] = u] /\ UNCHANGED updateQueue
        /\ g \notin throttleTimers
    BY <1>5 DEF UpdateExecuted, ExecuteUpdate
  <2>2. emitted \in [Games -> Maybe(Update)]
    BY DEF IInv, TypeOK
  <2> HIDE DEF u
  <2>3. ShownAt' = [ShownAt EXCEPT ![g] = received']
    BY <1>3, <2>1, <2>2 DEF ShownAt
  <2>4. WaitingAt' = WaitingAt
    BY <2>1 DEF WaitingAt, Queued
  <2>5. Queued(g) = {}
    BY <2>1 DEF IInv, QueuedHasTimer, Queued
  <2>6. WaitingAt[g] = 0
    BY <2>5 DEF WaitingAt
  <2>7. QED
    BY <1>2, <2>3, <2>4, <2>6 DEF Feed!FeedNext, Feed!Show, ShownAt, WaitingAt
<1>6. CASE updateQueue' = updateQueue \cup {u} /\ UNCHANGED emitted
  <2> HIDE DEF u
  <2>1. /\ Queued(g)' = Queued(g) \cup {u}
        /\ Newest(Queued(g)') = u
        /\ \A h \in Games \ {g} : Queued(h)' = Queued(h)
    BY <1>2, <1>3, <1>6, NewestOfMore
  <2>2. WaitingAt' = [WaitingAt EXCEPT ![g] = received']
    BY <1>3, <2>1 DEF WaitingAt
  <2>3. ShownAt' = ShownAt
    BY <1>6 DEF ShownAt
  <2>4. QED
    BY <1>2, <2>2, <2>3 DEF Feed!FeedNext, Feed!Wait, ShownAt, WaitingAt
<1>7. QED
  BY <1>1, <1>4, <1>5, <1>6 DEF UpdateIgnored, UpdateThrottled

\* A timer that finds something queued catches up; else nothing shows.
LEMMA TimerRefines ==
  ASSUME IInv, NEW g \in Games, TimerFires(g)
  PROVE  Feed!FeedNext \/ UNCHANGED <<received, ShownAt, WaitingAt>>
<1>1. /\ updateQueue' = updateQueue \ Queued(g) /\ UNCHANGED received
      /\ emitted \in [Games -> Maybe(Update)]
  BY DEF TimerFires, IInv, TypeOK
<1>2. CASE Queued(g) = {}
  BY <1>1, <1>2, FeedUnchanged DEF TimerFires
<1>3. CASE Queued(g) # {}
  <2> DEFINE u == Newest(Queued(g))
  <2>1. u \in Update /\ u # None /\ u.at # 0 /\ u.game = g
    BY <1>3, NewestQueued, UpdatesAssumption DEF Update
  <2>2. emitted' = [emitted EXCEPT ![g] = u]
    BY <1>3, <2>1 DEF TimerFires, ExecuteUpdate
  <2>3. WaitingAt[g] = u.at
    BY <1>3 DEF WaitingAt
  <2> HIDE DEF u
  <2>4. ShownAt' = [ShownAt EXCEPT ![g] = WaitingAt[g]]
    BY <1>1, <2>1, <2>2, <2>3 DEF ShownAt
  <2>5. Queued(g)' = {} /\ \A h \in Games \ {g} : Queued(h)' = Queued(h)
    BY <1>1 DEF Queued
  <2>6. WaitingAt' = [WaitingAt EXCEPT ![g] = 0]
    BY <2>5 DEF WaitingAt
  <2>7. QED
    BY <1>1, <2>1, <2>3, <2>4, <2>6 DEF Feed!FeedNext, Feed!CatchUp, ShownAt, WaitingAt
<1>4. QED BY <1>2, <1>3

\* Both services together are a throttled feed (GameFeed): accepted updates of a
\* game are shown in order of arrival, and only superseded ones are skipped
\* (processScoreUpdate, throttleUpdate, executeUpdate).
THEOREM ImplementsFeed == Spec => FeedKept
<1>1. Init => Feed!FeedInit
  BY DEF Init, Feed!FeedInit, Queued
<1>2. IInv /\ [Next]_vars => [Feed!FeedNext]_(Feed!feed)
  <2> SUFFICES ASSUME IInv, [Next]_vars
               PROVE  Feed!FeedNext \/ UNCHANGED <<received, ShownAt, WaitingAt>>
    BY DEF Feed!feed, ShownAt, WaitingAt
  <2>1. ASSUME NEW s \in Sports, AddFilter(s) \/ RemoveFilter(s)
        PROVE  UNCHANGED <<received, ShownAt, WaitingAt>>
    BY <2>1, FeedUnchanged DEF AddFilter, RemoveFilter
  <2>2. ASSUME NEW g \in Games, ProcessStatusChange(g)
        PROVE  UNCHANGED <<received, ShownAt, WaitingAt>>
    BY <2>2, FeedUnchanged DEF ProcessStatusChange
  <2>3. CASE UNCHANGED vars
    BY <2>3, FeedUnchanged DEF vars
  <2>4. QED
    BY <2>1, <2>2, <2>3, ArrivalRefines, TimerRefines DEF Next
<1>3. QED
  BY <1>1, <1>2, SpecIInv, PTL DEF Spec, FeedKept, Feed!FeedSpec


-----------------------------------------------------------------------------
(* The feed of live updates: a key of the history is in the cache, at its    *)
(* place from the end, unless CacheSize updates came after it.               *)

Keys == {m.key : m \in Messages}

\* The cache has the keys of the last updates of the history h, in their order, and is
\* full when the history has more.
Follows(keys, h) ==
  /\ Len(keys) <= CacheSize
  /\ Len(keys) < CacheSize => Len(h) <= Len(keys)
  /\ \A i \in 1..Len(h) :
       Len(h) - i < Len(keys) => keys[Len(keys) - (Len(h) - i)] = h[i].key
Spread(h) ==
  \A i, j \in 1..Len(h) : i < j /\ h[i].key = h[j].key => j - i > CacheSize

\* A page that was left has an empty cache, and no timer that would look into it.
FeedInv ==
  /\ pending \in Seq(Messages) /\ history \in Seq(Messages) /\ cache \in Seq(Keys)
  /\ Spread(history)
  /\ mounted => Follows(cache, history)
  /\ due => mounted

\* A new message is too far from the last one of its key, which the cache has forgotten.
LEMMA NewFollows ==
  ASSUME NEW h \in Seq(Messages), NEW keys \in Seq(Keys), NEW m \in Messages,
         ~Contains(keys, m.key), Follows(keys, h), Spread(h)
  PROVE  /\ Remembered(keys, m.key) \in Seq(Keys)
         /\ Follows(Remembered(keys, m.key), Append(h, m))
         /\ Spread(Append(h, m))
<1> DEFINE k == m.key
           h2 == Append(h, m)
           k2 == Remembered(keys, k)
           n == Len(h)
           c == Len(keys)
<1>0. k \in Keys /\ n \in Nat /\ c \in Nat /\ CacheSize \in Nat \ {0}
  BY FeedAssumption DEF Keys
<1>1. h2 \in Seq(Messages) /\ Len(h2) = n + 1 /\ h2[n + 1] = m
      /\ \A i \in 1..n : h2[i] = h[i]
  OBVIOUS
<1>2. \A i \in 1..c : keys[i] # k
  BY DEF Contains
<1>3. CASE c < CacheSize
  <2>1. k2 = Append(keys, k)
    BY <1>3 DEF Remembered
  <2>2. k2 \in Seq(Keys) /\ Len(k2) = c + 1 /\ k2[c + 1] = k /\ \A i \in 1..c : k2[i] = keys[i]
    BY <2>1, <1>0
  <2>3. n <= c
    BY <1>3 DEF Follows
  <2>4. ASSUME NEW i \in 1..(n + 1), (n + 1) - i < c + 1
        PROVE  k2[(c + 1) - ((n + 1) - i)] = h2[i].key
    <3>1. CASE i = n + 1
      <4>1. (c + 1) - ((n + 1) - i) = c + 1
        BY <3>1, <1>0
      <4> QED BY <4>1, <3>1, <2>2, <1>1
    <3>2. CASE i # n + 1
      <4>1. i \in 1..n /\ n - i < c /\ (c + 1) - ((n + 1) - i) = c - (n - i)
            /\ c - (n - i) \in 1..c
        BY <3>2, <1>0, <2>3
      <4>2. keys[c - (n - i)] = h[i].key
        BY <4>1 DEF Follows
      <4> QED BY <4>1, <4>2, <2>2, <1>1
    <3> QED BY <3>1, <3>2
  <2>5. Follows(k2, h2)
    <3> HIDE DEF k2, h2
    <3> QED BY <2>2, <2>3, <2>4, <1>1, <1>0, <1>3 DEF Follows
  <2>6. ASSUME NEW i \in 1..n PROVE h[i].key # k
    <3>1. n - i < c /\ c - (n - i) \in 1..c
      BY <1>0, <2>3
    <3>2. keys[c - (n - i)] = h[i].key
      BY <3>1 DEF Follows
    <3> QED BY <3>1, <3>2, <1>2
  <2>7. Spread(h2)
    <3> SUFFICES ASSUME NEW i \in 1..(n + 1), NEW j \in 1..(n + 1),
                        i < j, h2[i].key = h2[j].key
                 PROVE  j - i > CacheSize
      BY <1>1 DEF Spread
    <3>1. i \in 1..n
      BY <1>0
    <3>2. CASE j = n + 1
      BY <3>1, <3>2, <2>6, <1>1
    <3>3. CASE j # n + 1
      <4>1. j \in 1..n
        BY <3>3, <1>0
      <4> QED BY <4>1, <3>1, <1>1 DEF Spread
    <3> QED BY <3>2, <3>3
  <2> QED BY <2>2, <2>5, <2>7
<1>4. CASE c = CacheSize
  <2>0. keys # <<>>
    BY <1>4, <1>0
  <2>1. k2 = Append(Tail(keys), k)
    BY <1>4, <1>0 DEF Remembered
  <2>2. /\ Tail(keys) \in Seq(Keys) /\ Len(Tail(keys)) = c - 1
        /\ \A i \in 1..(c - 1) : Tail(keys)[i] = keys[i + 1]
    BY <2>0, <1>0
  <2>3. /\ k2 \in Seq(Keys) /\ Len(k2) = c /\ k2[c] = k
        /\ \A i \in 1..(c - 1) : k2[i] = keys[i + 1]
    BY <2>1, <2>2, <1>0, <1>4
  <2>4. ASSUME NEW i \in 1..(n + 1), (n + 1) - i < c
        PROVE  k2[c - ((n + 1) - i)] = h2[i].key
    <3>1. CASE i = n + 1
      <4>1. c - ((n + 1) - i) = c
        BY <3>1, <1>0
      <4> QED BY <4>1, <3>1, <2>3, <1>1
    <3>2. CASE i # n + 1
      <4> DEFINE p == c - ((n + 1) - i)
      <4>1. i \in 1..n /\ n - i < c /\ p \in 1..(c - 1) /\ p + 1 = c - (n - i)
        BY <3>2, <2>4, <1>0
      <4>2. keys[c - (n - i)] = h[i].key
        BY <4>1 DEF Follows
      <4>3. k2[p] = keys[p + 1]
        BY <4>1, <2>3
      <4> QED BY <4>1, <4>2, <4>3, <1>1
    <3> QED BY <3>1, <3>2
  <2>5. Follows(k2, h2)
    <3> HIDE DEF k2, h2
    <3> QED BY <2>3, <2>4, <1>1, <1>0, <1>4 DEF Follows
  <2>6. ASSUME NEW i \in 1..n, h[i].key = k PROVE (n + 1) - i > CacheSize
    <3>1. CASE n - i < c
      <4>1. c - (n - i) \in 1..c
        BY <3>1, <1>0
      <4>2. keys[c - (n - i)] = h[i].key
        BY <3>1 DEF Follows
      <4> QED BY <4>1, <4>2, <1>2, <2>6
    <3>2. CASE ~(n - i < c)
      BY <3>2, <1>0, <1>4
    <3> QED BY <3>1, <3>2
  <2>7. Spread(h2)
    <3> SUFFICES ASSUME NEW i \in 1..(n + 1), NEW j \in 1..(n + 1),
                        i < j, h2[i].key = h2[j].key
                 PROVE  j - i > CacheSize
      BY <1>1 DEF Spread
    <3>1. i \in 1..n
      BY <1>0
    <3>2. CASE j = n + 1
      BY <3>1, <3>2, <2>6, <1>1
    <3>3. CASE j # n + 1
      <4>1. j \in 1..n
        BY <3>3, <1>0
      <4> QED BY <4>1, <3>1, <1>1 DEF Spread
    <3> QED BY <3>2, <3>3
  <2> QED BY <2>3, <2>5, <2>7
<1>5. c <= CacheSize
  BY DEF Follows
<1> QED BY <1>0, <1>3, <1>4, <1>5

\* A set that has 0 and is closed under successor has every number.
LEMMA Induction ==
  ASSUME NEW S, 0 \in S, \A n \in Nat : n \in S => n + 1 \in S
  PROVE  Nat \subseteq S
<1> DEFINE T == Nat \ S
           R == OpToRel(<, Nat)
<1>1. SUFFICES ASSUME T # {} PROVE FALSE
  OBVIOUS
<1>2. T \subseteq Nat
  OBVIOUS
<1>3. IsWellFoundedOn(R, Nat)
  BY NatLessThanWellFounded
<1> HIDE DEF R, T
<1>4. PICK x \in T : \A y \in T : ~(<<y, x>> \in R)
  BY <1>1, <1>2, <1>3, WFMin
<1>5. x \in Nat /\ x # 0
  BY <1>4 DEF T
<1>6. x - 1 \in Nat /\ x - 1 < x
  BY <1>5
<1>7. <<x - 1, x>> \in R
  BY <1>5, <1>6 DEF R, OpToRel
<1>8. x - 1 \in S
  BY <1>4, <1>6, <1>7 DEF T
<1>9. QED
  BY <1>4, <1>5, <1>6, <1>8 DEF T

\* The documents of ix that have the term.
Having(ix, term) == {d \in DOMAIN ix.docs : term \in ToSet(ix.docs[d])}

\* It has them for the term, with how often it occurs.

\* What the filter has found so far continues the history, and the keys follow it.
Continues(h, got) ==
  /\ got = [new |-> got.new, keys |-> got.keys]
  /\ got.new \in Seq(Messages) /\ got.keys \in Seq(Keys)
  /\ Follows(got.keys, h \o got.new)
  /\ Spread(h \o got.new)

LEMMA AddedContinues ==
  ASSUME NEW h \in Seq(Messages), NEW got, Continues(h, got), NEW m \in Messages
  PROVE  Continues(h, Added(got, m))
<1>1. CASE Contains(got.keys, m.key)
  BY <1>1 DEF Added
<1>2. CASE ~Contains(got.keys, m.key)
  <2> DEFINE new == got.new
             keys == got.keys
             new2 == Append(new, m)
             keys2 == Remembered(keys, m.key)
  <2>0. new \in Seq(Messages) /\ keys \in Seq(Keys)
    BY DEF Continues
  <2>1. h \o new \in Seq(Messages)
    BY <2>0
  <2>2. /\ keys2 \in Seq(Keys)
        /\ Follows(keys2, Append(h \o new, m))
        /\ Spread(Append(h \o new, m))
    BY <2>0, <2>1, <1>2, NewFollows DEF Continues
  <2>3. h \o new2 = Append(h \o new, m)
    BY <2>0, <2>1
  <2>4. new2 \in Seq(Messages)
    BY <2>0
  <2>5. Added(got, m) = [new |-> new2, keys |-> keys2]
    BY <1>2 DEF Added
  <2> DEFINE next == Added(got, m)
  <2>6. next = [new |-> next.new, keys |-> next.keys] /\ next.new = new2 /\ next.keys = keys2
    BY <2>5
  <2> HIDE DEF new2, keys2, new, keys, next
  <2>7. Continues(h, next)
    BY <2>2, <2>3, <2>4, <2>6 DEF Continues
  <2> QED BY <2>7 DEF next
<1> QED BY <1>1, <1>2

\* The recursive function of Filtered, up to n.
Filters(f, n) ==
  f = [i \in 0..n |-> IF i = 0 THEN [new |-> <<>>, keys |-> cache]
                               ELSE Added(f[i - 1], pending[i])]

LEMMA FiltersExist ==
  ASSUME NEW n \in Nat
  PROVE  \E f : Filters(f, n)
<1> DEFINE S == {k \in Nat : \E f : Filters(f, k)}
<1>1. 0 \in S
  <2> DEFINE f == [i \in 0..0 |-> [new |-> <<>>, keys |-> cache]]
  <2>1. Filters(f, 0)
    BY DEF Filters
  <2> QED BY <2>1
<1>2. ASSUME NEW k \in Nat, k \in S PROVE k + 1 \in S
  <2>1. PICK f : Filters(f, k)
    BY <1>2
  <2>2. \A i \in 0..k : f[i] = IF i = 0 THEN [new |-> <<>>, keys |-> cache]
                                        ELSE Added(f[i - 1], pending[i])
    BY <2>1 DEF Filters
  <2> DEFINE g == [i \in 0..(k + 1) |-> IF i = k + 1 THEN Added(f[k], pending[i]) ELSE f[i]]
  <2>3. ASSUME NEW i \in 0..(k + 1)
        PROVE  g[i] = IF i = 0 THEN [new |-> <<>>, keys |-> cache]
                               ELSE Added(g[i - 1], pending[i])
    <3>1. CASE i = k + 1
      <4>1. i # 0 /\ i - 1 = k /\ k \in 0..(k + 1) /\ k # k + 1
        BY <3>1
      <4> QED BY <3>1, <4>1
    <3>2. CASE i # k + 1
      <4>1. i \in 0..k /\ g[i] = f[i]
        BY <3>2
      <4>2. i # 0 => i - 1 \in 0..(k + 1) /\ i - 1 # k + 1
        BY <4>1
      <4> QED BY <2>2, <4>1, <4>2
    <3> QED BY <3>1, <3>2
  <2>4. g = [i \in 0..(k + 1) |-> g[i]]
    OBVIOUS
  <2>5. g = [i \in 0..(k + 1) |-> IF i = 0 THEN [new |-> <<>>, keys |-> cache]
                                           ELSE Added(g[i - 1], pending[i])]
    <3> HIDE DEF g
    <3> QED BY <2>3, <2>4
  <2>6. Filters(g, k + 1)
    <3> HIDE DEF g
    <3> QED BY <2>5 DEF Filters
  <2> QED BY <2>6
<1> HIDE DEF S
<1>3. Nat \subseteq S
  BY <1>1, <1>2, Induction
<1> QED BY <1>3 DEF S

\* What passes the filter continues the history.
LEMMA FilteredContinues ==
  ASSUME FeedInv, mounted
  PROVE  Continues(history, Filtered)
<1> DEFINE n == Len(pending)
           f == CHOOSE g : Filters(g, n)
<1>0. n \in Nat
  BY DEF FeedInv
<1>1. Filters(f, n)
  BY <1>0, FiltersExist
<1>2. Filtered = f[n]
  BY DEF Filtered, Filters
<1> HIDE DEF f
<1>3. \A i \in 0..n : f[i] = IF i = 0 THEN [new |-> <<>>, keys |-> cache]
                                      ELSE Added(f[i - 1], pending[i])
  BY <1>1 DEF Filters
<1> DEFINE S == {i \in Nat : i <= n => Continues(history, f[i])}
<1>4. 0 \in S
  <2> DEFINE start == [new |-> <<>>, keys |-> cache]
  <2>1. history \o <<>> = history
    BY DEF FeedInv
  <2>2. Continues(history, start)
    BY <2>1 DEF FeedInv, Continues
  <2> QED BY <1>0, <1>3, <2>2
<1>5. ASSUME NEW i \in Nat, i \in S PROVE i + 1 \in S
  <2> SUFFICES ASSUME i + 1 <= n PROVE Continues(history, f[i + 1])
    OBVIOUS
  <2>1. i \in 0..n /\ i + 1 \in 0..n /\ i + 1 # 0 /\ (i + 1) - 1 = i /\ i + 1 \in 1..n
    BY <1>0
  <2>2. f[i + 1] = Added(f[i], pending[i + 1])
    BY <1>3, <2>1
  <2>3. pending[i + 1] \in Messages
    BY <2>1 DEF FeedInv
  <2> QED BY <1>5, <2>1, <2>2, <2>3, AddedContinues DEF FeedInv
<1> HIDE DEF S
<1>6. Nat \subseteq S
  BY <1>4, <1>5, Induction
<1> QED BY <1>0, <1>2, <1>6 DEF S

\* What is cut off the history is its oldest part.
LEMMA LastFollows ==
  ASSUME NEW h \in Seq(Messages), NEW keys \in Seq(Keys), Follows(keys, h), Spread(h)
  PROVE  /\ LastOf(h, MaxHistory) \in Seq(Messages)
         /\ Follows(keys, LastOf(h, MaxHistory))
         /\ Spread(LastOf(h, MaxHistory))
<1> DEFINE n == Len(h)
           c == Len(keys)
           last == LastOf(h, MaxHistory)
           cut == n - MaxHistory
<1>0. n \in Nat /\ c \in Nat /\ CacheSize \in Nat /\ MaxHistory \in Nat \ {0}
  BY FeedAssumption
<1>1. CASE n <= MaxHistory
  BY <1>1 DEF LastOf
<1>2. CASE ~(n <= MaxHistory)
  <2>1. last = SubSeq(h, cut + 1, n)
    BY <1>2 DEF LastOf
  <2>2. /\ last \in Seq(Messages) /\ Len(last) = MaxHistory
        /\ \A i \in 1..MaxHistory : last[i] = h[cut + i]
    BY <2>1, <1>2, <1>0
  <2> HIDE DEF last
  <2>3. \A i \in 1..MaxHistory : cut + i \in 1..n /\ n - (cut + i) = MaxHistory - i
    BY <1>2, <1>0
  <2>4. Follows(keys, last)
    <3>1. c < CacheSize => MaxHistory <= c
      BY <1>0, <1>2 DEF Follows
    <3>2. ASSUME NEW i \in 1..MaxHistory, MaxHistory - i < c
          PROVE  keys[c - (MaxHistory - i)] = last[i].key
      <4>1. keys[c - (n - (cut + i))] = h[cut + i].key
        BY <3>2, <2>3 DEF Follows
      <4> QED BY <4>1, <2>2, <2>3
    <3> QED BY <3>1, <3>2, <2>2 DEF Follows
  <2>5. Spread(last)
    <3> SUFFICES ASSUME NEW i \in 1..MaxHistory, NEW j \in 1..MaxHistory,
                        i < j, last[i].key = last[j].key
                 PROVE  j - i > CacheSize
      BY <2>2 DEF Spread
    <3>1. cut + i \in 1..n /\ cut + j \in 1..n
      BY <2>3
    <3>2. cut + i < cut + j /\ (cut + j) - (cut + i) = j - i
      BY <1>0
    <3>3. h[cut + i].key = h[cut + j].key
      BY <2>2
    <3> QED BY <3>1, <3>2, <3>3 DEF Spread
  <2> QED BY <2>2, <2>4, <2>5 DEF last
<1> QED BY <1>1, <1>2

-----------------------------------------------------------------------------
LEMMA FeedInitInv == FeedInit => FeedInv
<1> SUFFICES ASSUME FeedInit PROVE FeedInv
  OBVIOUS
<1> USE DEF FeedInit
<1>1. \A i, j \in 1..Len(<<>>) : FALSE
  OBVIOUS
<1>2. Spread(<<>>) /\ Follows(<<>>, <<>>)
  BY FeedAssumption DEF Spread, Follows
<1> QED BY <1>2 DEF FeedInv

LEMMA FeedStep == FeedInv /\ [FeedNext]_feed => FeedInv'
<1> SUFFICES ASSUME FeedInv, [FeedNext]_feed PROVE FeedInv'
  OBVIOUS
<1>1. ASSUME NEW m \in Messages, Receive(m) PROVE FeedInv'
  <2>1. Append(pending, m) \in Seq(Messages)
    BY DEF FeedInv
  <2> QED BY <1>1, <2>1 DEF Receive, FeedInv
<1>2. CASE ProcessPending
  <2>1. mounted
    BY <1>2 DEF ProcessPending, FeedInv
  <2>2. Continues(history, Filtered)
    BY <2>1, FilteredContinues
  <2>3. history \o Filtered.new \in Seq(Messages) /\ Filtered.keys \in Seq(Keys)
    BY <2>2 DEF Continues, FeedInv
  <2>4. /\ history' = LastOf(history \o Filtered.new, MaxHistory)
        /\ cache' = Filtered.keys /\ pending' = <<>> /\ due' = FALSE /\ mounted' = mounted
    BY <1>2 DEF ProcessPending
  <2>5. history' \in Seq(Messages) /\ Follows(cache', history') /\ Spread(history')
    BY <2>2, <2>3, <2>4, LastFollows DEF Continues
  <2> QED BY <2>3, <2>4, <2>5 DEF FeedInv
<1>3. CASE Notify
  BY <1>3 DEF Notify, FeedInv
<1>4. CASE ClearUpdateHistory
  <2>1. Spread(<<>>) /\ Follows(<<>>, <<>>)
    BY FeedAssumption DEF Spread, Follows
  <2> QED BY <1>4, <2>1 DEF ClearUpdateHistory, FeedInv
<1>5. CASE Unmount
  BY <1>5 DEF Unmount, FeedInv
<1>6. CASE UNCHANGED feed
  BY <1>6 DEF feed, FeedInv
<1> QED BY <1>1, <1>2, <1>3, <1>4, <1>5, <1>6 DEF FeedNext

\* A message that is delivered twice is shown twice only with CacheSize others in between
\* (processPendingUpdates and its LRUCache in useRealTimeScoreUpdates), for any messages,
\* sizes of cache and history, and however the copies are batched, though the page may
\* clear its history while some are pending.
THEOREM RepeatsAreSpaced == FeedSpec => []RepeatsSpaced
<1>1. FeedInv => RepeatsSpaced
  <2> SUFFICES ASSUME FeedInv, NEW i \in DOMAIN history, NEW j \in DOMAIN history,
                      i < j, history[i].key = history[j].key
               PROVE  j - i > CacheSize
    BY DEF RepeatsSpaced
  <2>1. DOMAIN history = 1..Len(history)
    BY DEF FeedInv
  <2> QED BY <2>1 DEF FeedInv, Spread
<1> QED BY FeedInitInv, FeedStep, <1>1, PTL DEF FeedSpec
=============================================================================
