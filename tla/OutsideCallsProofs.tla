-------------------------- MODULE OutsideCallsProofs --------------------------
(***************************************************************************)
(* What the circuit breaker guarantees for every number of calls, every    *)
(* threshold and every timeout; that the calls of DatabaseCalls are calls  *)
(* of that breaker, and that no client of their pools is lost; and, of the *)
(* scrapers, that they keep to robots.txt and to their delays, and what    *)
(* their answers hold, for every set of callers, sites and pages.          *)
(***************************************************************************)
EXTENDS Scraping, DatabaseCalls, FiniteSetTheorems, SequenceTheorems,
        WellFoundedInduction, TLAPS

\* A call sleeps only while an attempt is left: needed to bound attempt.
SleepingHasAttemptLeft ==
  \A c \in Calls : pc[c] = "sleeping" => attempt[c] < MaxRetries

\* The inductive invariant.  ClosedIffBelowThreshold is what carries
\* HalfOpenIsCooledDown: a failure in the half-open state meets a count that
\* is at the threshold already, so it opens the breaker as it restarts the
\* cool-down.
IInv ==
  /\ TypeOK
  /\ SleepingHasAttemptLeft
  /\ ClosedIffBelowThreshold
  /\ HalfOpenIsCooledDown

\* A new DatabaseCircuitBreaker satisfies the invariant.
LEMMA InitIInv == Init => IInv
  BY BreakerAssumption
  DEF Init, IInv, TypeOK, SleepingHasAttemptLeft, ClosedIffBelowThreshold,
      HalfOpenIsCooledDown, States, CallStates

\* Every step of a call, and the clock, preserve it.
LEMMA NextIInv == IInv /\ [Next]_vars => IInv'
<1> SUFFICES ASSUME IInv, [Next]_vars PROVE IInv'
  OBVIOUS
<1> USE BreakerAssumption
        DEF IInv, TypeOK, SleepingHasAttemptLeft, ClosedIffBelowThreshold,
            HalfOpenIsCooledDown, CoolDownOver, States, CallStates
<1>1. ASSUME NEW c \in Calls, Reject(c) PROVE IInv'
  BY <1>1 DEF Reject
<1>2. ASSUME NEW c \in Calls, Admit(c) PROVE IInv'
  BY <1>2 DEF Admit
<1>3. ASSUME NEW c \in Calls, Succeed(c) PROVE IInv'
  BY <1>3 DEF Succeed, Reset
<1>4. ASSUME NEW c \in Calls, Backoff(c) PROVE IInv'
  BY <1>4 DEF Backoff
<1>5. ASSUME NEW c \in Calls, Retry(c) PROVE IInv'
  BY <1>5 DEF Retry
<1>6. ASSUME NEW c \in Calls, Fail(c) PROVE IInv'
  BY <1>6 DEF Fail, RecordFailure
<1>7. CASE Tick
  BY <1>7 DEF Tick
<1>8. CASE UNCHANGED vars
  BY <1>8 DEF vars
<1>9. QED
  BY <1>1, <1>2, <1>3, <1>4, <1>5, <1>6, <1>7, <1>8 DEF Next

\* The invariant holds throughout.
LEMMA SpecIInv == Spec => []IInv
  BY InitIInv, NextIInv, PTL DEF Spec

\* Type correctness; in particular no call makes more than MaxRetries
\* attempts.
THEOREM TypeCorrect == Spec => []TypeOK
<1>1. IInv => TypeOK
  BY DEF IInv
<1>2. QED
  BY <1>1, SpecIInv, PTL

\* getHealthStatus reports a breaker as closed exactly while it counts fewer
\* failures than circuitBreakerThreshold.
THEOREM ClosedBelowThreshold == Spec => []ClosedIffBelowThreshold
<1>1. IInv => ClosedIffBelowThreshold
  BY DEF IInv
<1>2. QED
  BY <1>1, SpecIInv, PTL

\* In the half-open state, where execute does not look at the clock, the
\* cool-down is over for every failure recorded so far.
THEOREM HalfOpenCooledDown == Spec => []HalfOpenIsCooledDown
<1>1. IInv => HalfOpenIsCooledDown
  BY DEF IInv
<1>2. QED
  BY <1>1, SpecIInv, PTL

-----------------------------------------------------------------------------

\* Once tripped, the breaker admits a call only after the cool-down of the
\* last failure: from OPEN because execute tests it, from HALF_OPEN by the
\* invariant, and never from CLOSED.
THEOREM AdmissionCooledDown == Spec => AdmissionAfterCoolDown
<1> DEFINE Admissible ==
      \A c \in Calls :
        (pc[c] = "idle" /\ pc'[c] = "running" /\ failureCount >= Threshold)
          => CoolDownOver
<1>1. ASSUME IInv, [Next]_vars PROVE [Admissible]_vars
  <2> SUFFICES ASSUME NEW c \in Calls, pc[c] = "idle", pc'[c] = "running",
                      failureCount >= Threshold
               PROVE  CoolDownOver
    OBVIOUS
  <2>1. state # "CLOSED"
    BY <1>1, BreakerAssumption DEF IInv, TypeOK, ClosedIffBelowThreshold
  <2>2. PICK d \in Calls : Admit(d)
    BY <1>1 DEF IInv, TypeOK, CallStates, Next, vars, Reject, Succeed, Backoff,
                Retry, Fail, Tick
  <2>3. QED
    BY <1>1, <2>1, <2>2 DEF Admit, IInv, TypeOK, States, HalfOpenIsCooledDown
<1>2. QED
  BY <1>1, SpecIInv, PTL DEF Spec, AdmissionAfterCoolDown

-----------------------------------------------------------------------------

\* Failed is finite, and a call that fails enters it for the first time.
LEMMA FailedGrows ==
  ASSUME TypeOK, NEW c \in Calls, pc[c] = "running",
         pc' = [pc EXCEPT ![c] = "failed"]
  PROVE  Cardinality(Failed') = Cardinality(Failed) + 1
<1>1. IsFiniteSet(Failed)
  BY BreakerAssumption, FS_Subset DEF Failed
<1>2. c \notin Failed /\ Failed' = Failed \cup {c}
  BY DEF Failed, TypeOK
<1>3. QED
  BY <1>1, <1>2, FS_AddElement

\* No other step of a call takes one out of Failed or puts one in.
LEMMA FailedKept ==
  ASSUME TypeOK, NEW c \in Calls, NEW s \in CallStates \ {"failed"},
         pc[c] # "failed", pc' = [pc EXCEPT ![c] = s]
  PROVE  Failed' = Failed
  BY DEF Failed, TypeOK

\* A call of executeWithRetry is one failure of the breaker at most, however
\* many of its attempts failed, and a reset only lowers the count.
THEOREM CountsCallsNotAttempts == Spec => []OneFailurePerCall
<1>1. Init => OneFailurePerCall
  <2> SUFFICES ASSUME Init PROVE OneFailurePerCall
    OBVIOUS
  <2>1. Failed = {}
    BY DEF Init, Failed
  <2>2. QED
    BY <2>1, FS_EmptySet DEF Init, OneFailurePerCall
<1>2. IInv /\ OneFailurePerCall /\ [Next]_vars => OneFailurePerCall'
  <2> SUFFICES ASSUME IInv, OneFailurePerCall, [Next]_vars
               PROVE  OneFailurePerCall'
    OBVIOUS
  <2>0. TypeOK /\ Cardinality(Failed) \in Nat
    BY BreakerAssumption, FS_Subset, FS_CardinalityType DEF Failed, IInv
  <2>1. ASSUME NEW c \in Calls, Fail(c) PROVE OneFailurePerCall'
    <3>1. Cardinality(Failed') = Cardinality(Failed) + 1
      BY <2>0, <2>1, FailedGrows DEF Fail
    <3>2. failureCount' = failureCount + 1
      BY <2>1 DEF Fail, RecordFailure
    <3>3. QED
      BY <2>0, <3>1, <3>2 DEF OneFailurePerCall, TypeOK
  <2>2. ASSUME NEW c \in Calls,
               Reject(c) \/ Admit(c) \/ Succeed(c) \/ Backoff(c) \/ Retry(c)
        PROVE  OneFailurePerCall'
    <3>1. failureCount' \in {0, failureCount}
      BY <2>2 DEF Reject, Admit, Succeed, Reset, Backoff, Retry
    <3>2. Failed' = Failed
      BY <2>0, <2>2, FailedKept
      DEF CallStates, Reject, Admit, Succeed, Backoff, Retry
    <3>3. QED
      BY <2>0, <3>1, <3>2 DEF OneFailurePerCall, TypeOK
  <2>3. CASE Tick \/ UNCHANGED vars
    BY <2>3 DEF Tick, vars, OneFailurePerCall, Failed
  <2>4. QED
    BY <2>1, <2>2, <2>3 DEF Next
<1>3. QED
  BY <1>1, <1>2, SpecIInv, PTL DEF Spec

-----------------------------------------------------------------------------

\* The calls over the pool are calls of the breaker: what they do inside an
\* attempt leaves it alone, and a query's end is one of the steps it knows
\* (executeQuery, executeRawQuery within executeWithRetry).
LEMMA DatabaseStep == [DatabaseNext]_<<vars, database>> => [Next]_vars
<1> SUFFICES ASSUME [DatabaseNext]_<<vars, database>> PROVE [Next]_vars
  OBVIOUS
<1>1. ASSUME NEW s \in Starters,
             Initialize(s) \/ TestConnects(s) \/ TestEnds(s, TRUE) \/ TestEnds(s, FALSE)
      PROVE  UNCHANGED vars
  BY <1>1 DEF Initialize, TestConnects, TestEnds
<1>2. ASSUME Close \/ CloseEnds PROVE UNCHANGED vars
  BY <1>2 DEF Close, CloseEnds
<1>3. ASSUME NEW c \in Calls, Calling(c) \/ Connects(c) \/ Answers(c) PROVE [Next]_vars
  BY <1>3 DEF Calling, Connects, Answers, Next
<1>4. ASSUME NEW c \in Calls, NEW e \in Errors(c), CallFails(c, e) PROVE Next
  BY <1>4 DEF CallFails, Next
<1>5. CASE Tick /\ UNCHANGED database
  BY <1>5 DEF Next
<1>6. CASE UNCHANGED <<vars, database>>
  BY <1>6
<1>7. QED
  BY <1>1, <1>2, <1>3, <1>4, <1>5, <1>6 DEF DatabaseNext

\* The calls of the connection manager implement the breaker with its retries, so
\* that what is proved above holds of them.
THEOREM DatabaseIsGuarded == DatabaseSpec => Spec
<1>1. DatabaseInit => Init
  BY DEF DatabaseInit
<1>2. QED
  BY <1>1, DatabaseStep, PTL DEF DatabaseSpec, Spec

\* A tripped breaker keeps every query and every connection away from the pool until
\* its cool-down is over, whatever initialize and close do meanwhile.
THEOREM PoolIsSpared == DatabaseSpec => AdmissionAfterCoolDown
  BY DatabaseIsGuarded, AdmissionCooledDown

-----------------------------------------------------------------------------

\* Where a call or a connection test is with its pool.
Places == [at : {"rest", "connects", "queries"}, pool : 0..MaxPools]

DatabaseTypeOK ==
  /\ pc \in [Calls -> CallStates]
  /\ manager \in [pool : 0..MaxPools, ready : BOOLEAN]
  /\ made \in 0..MaxPools
  /\ ended \subseteq PoolIds
  /\ held \in [PoolIds -> SUBSET Holders]
  /\ starter \in [Starters -> Places]
  /\ closing \in 0..MaxPools
  /\ work \in [Calls -> Places]

\* A call has work with the pool exactly while it runs, and only executeRawQuery
\* takes a client; a connection test has a pool.
WorkGoesOn ==
  /\ \A c \in Calls : pc[c] = "running" <=> work[c].at # "rest"
  /\ \A c \in Calls \ RawCalls : work[c].pool = 0
  /\ \A s \in Starters : starter[s].at # "rest" => starter[s].pool # 0

DatabaseInv == DatabaseTypeOK /\ WorkGoesOn /\ NoClientLost

\* Nothing is out before the first call.
LEMMA InitDatabaseInv == DatabaseInit => DatabaseInv
  BY PoolAssumption
  DEF DatabaseInit, Init, DatabaseInv, DatabaseTypeOK, WorkGoesOn, NoClientLost, Places,
      AtRest, CallStates, PoolIds, Holders

\* Types, and the work of calls that run, survive every step of the pool.
LEMMA PoolTyped ==
  ASSUME DatabaseInv,
         \/ Close \/ CloseEnds
         \/ \E s \in Starters : \/ Initialize(s) \/ TestConnects(s)
                                \/ TestEnds(s, TRUE) \/ TestEnds(s, FALSE)
  PROVE  DatabaseTypeOK' /\ WorkGoesOn'
<1> USE PoolAssumption DEF DatabaseInv, DatabaseTypeOK, PoolIds, Holders, vars
<1>1. CASE Close
  <2>1. manager.pool \in PoolIds
    BY <1>1 DEF Close
  <2>2. QED
    BY <1>1, <2>1 DEF Close, WorkGoesOn
<1>2. CASE CloseEnds
  BY <1>2 DEF CloseEnds, WorkGoesOn
<1>3. ASSUME NEW s \in Starters, Initialize(s) PROVE DatabaseTypeOK' /\ WorkGoesOn'
  <2>1. CASE manager.ready
    BY <1>3, <2>1 DEF Initialize, WorkGoesOn
  <2>2. CASE ~manager.ready
    <3>1. made + 1 \in PoolIds
      BY <1>3, <2>2 DEF Initialize
    <3>2. [at |-> "connects", pool |-> made + 1] \in Places
      BY <3>1 DEF Places
    <3>3. DatabaseTypeOK'
      BY <1>3, <2>2, <3>1, <3>2 DEF Initialize
    <3>4. WorkGoesOn'
      BY <1>3, <2>2, <3>1 DEF Initialize, WorkGoesOn
    <3>5. QED
      BY <3>3, <3>4
  <2>3. QED
    BY <2>1, <2>2
<1>4. ASSUME NEW s \in Starters, TestConnects(s) PROVE DatabaseTypeOK' /\ WorkGoesOn'
  BY <1>4 DEF TestConnects, WorkGoesOn, Places
<1>5. ASSUME NEW s \in Starters, NEW well \in BOOLEAN, TestEnds(s, well)
      PROVE  DatabaseTypeOK' /\ WorkGoesOn'
  <2>1. AtRest \in Places /\ AtRest.at = "rest"
    BY DEF AtRest, Places
  <2>2. manager' \in [pool : 0..MaxPools, ready : BOOLEAN]
    BY <1>5 DEF TestEnds
  <2>3. held' \in [PoolIds -> SUBSET Holders]
    BY <1>5 DEF TestEnds
  <2>4. DatabaseTypeOK'
    BY <1>5, <2>1, <2>2, <2>3 DEF TestEnds
  <2>5. WorkGoesOn'
    BY <1>5, <2>1 DEF TestEnds, WorkGoesOn
  <2>6. QED
    BY <2>4, <2>5
<1>6. QED
  BY <1>1, <1>2, <1>3, <1>4, <1>5

\* And every step of a call.
LEMMA CallTyped ==
  ASSUME DatabaseInv, NEW c \in Calls,
         Calling(c) \/ Connects(c) \/ Answers(c) \/ \E e \in Errors(c) : CallFails(c, e)
  PROVE  DatabaseTypeOK' /\ WorkGoesOn'
<1> USE PoolAssumption DEF DatabaseInv, DatabaseTypeOK, PoolIds, Holders, vars
<1>0. AtRest \in Places /\ AtRest.at = "rest" /\ AtRest.pool = 0
  BY DEF AtRest, Places
<1>1. CASE Calling(c)
  <2> DEFINE begun == IF c \in RawCalls THEN [at |-> "connects", pool |-> manager.pool]
                      ELSE [at |-> "queries", pool |-> 0]
  <2>1. begun \in Places /\ begun.at # "rest" /\ (c \notin RawCalls => begun.pool = 0)
    BY DEF Places
  <2>2. CASE Admit(c) \/ Retry(c)
    <3>1. pc' = [pc EXCEPT ![c] = "running"] /\ work' = [work EXCEPT ![c] = begun]
      BY <1>1, <2>2 DEF Calling, Begins, Admit, Retry, Reject, CallStates
    <3> HIDE DEF begun
    <3>2. DatabaseTypeOK'
      BY <1>1, <2>1, <3>1 DEF Calling, CallStates
    <3>3. WorkGoesOn'
      BY <1>1, <2>1, <3>1 DEF Calling, WorkGoesOn
    <3>4. QED
      BY <3>2, <3>3
  <2>3. CASE Reject(c) /\ UNCHANGED work
    <3>1. DatabaseTypeOK'
      BY <1>1, <2>3 DEF Calling, Reject, CallStates
    <3>2. WorkGoesOn'
      BY <1>1, <2>3 DEF Calling, Reject, WorkGoesOn
    <3>3. QED
      BY <3>1, <3>2
  <2>4. QED
    BY <1>1, <2>2, <2>3 DEF Calling
<1>2. CASE Connects(c)
  BY <1>2 DEF Connects, WorkGoesOn, Places
<1>3. CASE Answers(c) \/ \E e \in Errors(c) : CallFails(c, e)
  <2>1. /\ pc' \in {[pc EXCEPT ![c] = at] : at \in {"done", "sleeping", "failed"}}
        /\ work' = [work EXCEPT ![c] = AtRest] /\ held' = Released(c)
        /\ UNCHANGED <<manager, made, ended, starter, closing>>
    BY <1>3 DEF Answers, CallFails, Succeed, Backoff, Fail
  <2>2. DatabaseTypeOK'
    BY <1>0, <2>1 DEF Released, CallStates
  <2>3. WorkGoesOn'
    BY <1>0, <2>1 DEF WorkGoesOn
  <2>4. QED
    BY <2>2, <2>3
<1>4. QED
  BY <1>1, <1>2, <1>3

\* Who has a client of pool p, by the state of the calls and of the tests.
RawHolders(p) == {c \in RawCalls : work[c] = [at |-> "queries", pool |-> p] /\ pc[c] = "running"}
TestHolders(p) == {s \in Starters : starter[s] = [at |-> "queries", pool |-> p]}

LEMMA HeldByWork ==
  NoClientLost <=> /\ \A p \in PoolIds : held[p] = RawHolders(p) \cup TestHolders(p)
                   /\ \A p \in ended \ {closing} : held[p] = {}
  BY DEF NoClientLost, RawHolders, TestHolders

\* A connection test takes a client of its own pool and gives that one back; close
\* ends a pool that is then in nobody's reach once its clients are back.
LEMMA PoolKeepsClients ==
  ASSUME DatabaseInv,
         \/ Close \/ CloseEnds
         \/ \E s \in Starters : \/ Initialize(s) \/ TestConnects(s)
                                \/ TestEnds(s, TRUE) \/ TestEnds(s, FALSE)
  PROVE  NoClientLost'
<1> USE PoolAssumption DEF DatabaseInv, DatabaseTypeOK, PoolIds
<1>0. /\ \A p \in PoolIds : held[p] = RawHolders(p) \cup TestHolders(p)
      /\ \A p \in ended \ {closing} : held[p] = {}
  BY HeldByWork
<1>1. \A p : RawHolders(p)' = RawHolders(p)
  <2>1. work' = work /\ pc' = pc
    BY DEF Close, CloseEnds, Initialize, TestConnects, TestEnds, vars
  <2>2. QED
    BY <2>1 DEF RawHolders
<1>2. CASE Close \/ CloseEnds
  <2>1. \A p : TestHolders(p)' = TestHolders(p)
    BY <1>2 DEF Close, CloseEnds, TestHolders
  <2>2. held' = held
    BY <1>2 DEF Close, CloseEnds
  <2>3. \A p \in (ended \ {closing})' : held'[p] = {}
    <3>1. CASE Close
      BY <1>0, <2>2, <3>1 DEF Close
    <3>2. CASE CloseEnds
      BY <1>0, <2>2, <3>2 DEF CloseEnds
    <3>3. QED
      BY <1>2, <3>1, <3>2
  <2>4. \A p \in PoolIds : held'[p] = RawHolders(p)' \cup TestHolders(p)'
    BY <1>0, <1>1, <2>1, <2>2
  <2>5. QED
    BY <2>3, <2>4 DEF NoClientLost, RawHolders, TestHolders
<1>3. ASSUME NEW s \in Starters, Initialize(s) PROVE NoClientLost'
  <2>1. \A p : TestHolders(p)' = TestHolders(p)
    BY <1>3 DEF Initialize, TestHolders
  <2>2. UNCHANGED <<held, ended, closing>>
    BY <1>3 DEF Initialize
  <2>3. \A p \in PoolIds : held'[p] = RawHolders(p)' \cup TestHolders(p)'
    BY <1>0, <1>1, <2>1, <2>2
  <2>4. \A p \in (ended \ {closing})' : held'[p] = {}
    BY <1>0, <2>2
  <2>5. QED
    BY <2>3, <2>4 DEF NoClientLost, RawHolders, TestHolders
<1>4. ASSUME NEW s \in Starters, TestConnects(s) PROVE NoClientLost'
  <2> DEFINE q == starter[s].pool
  <2>1. q \in PoolIds \ ended /\ held' = [held EXCEPT ![q] = @ \cup {s}]
    BY <1>4 DEF TestConnects, HasClient, WorkGoesOn, Places
  <2>2. \A p \in PoolIds : TestHolders(p)' = IF p = q THEN TestHolders(p) \cup {s} ELSE TestHolders(p)
    BY <1>4 DEF TestConnects, TestHolders, Places
  <2>3. UNCHANGED <<ended, closing>>
    BY <1>4 DEF TestConnects
  <2> HIDE DEF q
  <2>4. \A p \in PoolIds : held'[p] = RawHolders(p)' \cup TestHolders(p)'
    BY <1>0, <1>1, <2>1, <2>2
  <2>5. \A p \in (ended \ {closing})' : held'[p] = {}
    BY <1>0, <2>1, <2>3
  <2>6. QED
    BY <2>4, <2>5 DEF NoClientLost, RawHolders, TestHolders
<1>5. ASSUME NEW s \in Starters, NEW well \in BOOLEAN, TestEnds(s, well) PROVE NoClientLost'
  <2> DEFINE q == starter[s].pool
  <2>1. q \in PoolIds /\ held' = [held EXCEPT ![q] = @ \ {s}]
    BY <1>5 DEF TestEnds, WorkGoesOn, Places
  <2>2. \A p \in PoolIds : s \in TestHolders(p) => p = q
    BY DEF TestHolders
  <2>3. \A p \in PoolIds : TestHolders(p)' = TestHolders(p) \ {s}
    BY <1>5 DEF TestEnds, TestHolders, AtRest
  <2>4. \A p \in PoolIds : s \notin RawHolders(p)
    BY DEF RawHolders
  <2>5. UNCHANGED <<ended, closing>>
    BY <1>5 DEF TestEnds
  <2> HIDE DEF q
  <2>6. \A p \in PoolIds : held'[p] = RawHolders(p)' \cup TestHolders(p)'
    BY <1>0, <1>1, <2>1, <2>2, <2>3, <2>4
  <2>7. \A p \in (ended \ {closing})' : held'[p] = {}
    BY <1>0, <2>1, <2>5
  <2>8. QED
    BY <2>6, <2>7 DEF NoClientLost, RawHolders, TestHolders
<1>6. QED
  BY <1>2, <1>3, <1>4, <1>5

\* A call takes a client of the pool its attempt found, and whichever way the attempt
\* ends the client is back before the backoff.
LEMMA CallKeepsClients ==
  ASSUME DatabaseInv, NEW c \in Calls,
         Calling(c) \/ Connects(c) \/ Answers(c) \/ \E e \in Errors(c) : CallFails(c, e)
  PROVE  NoClientLost'
<1> USE PoolAssumption DEF DatabaseInv, DatabaseTypeOK, PoolIds
<1>0. /\ \A p \in PoolIds : held[p] = RawHolders(p) \cup TestHolders(p)
      /\ \A p \in ended \ {closing} : held[p] = {}
  BY HeldByWork
<1>1. /\ \A p : TestHolders(p)' = TestHolders(p)
      /\ UNCHANGED <<ended, closing>>
  BY DEF Calling, Connects, Answers, CallFails, TestHolders
<1>2. CASE Calling(c)
  <2>1. \A p \in PoolIds : RawHolders(p)' = RawHolders(p)
    <3>1. pc[c] # "running" /\ held' = held
      BY <1>2 DEF Calling, Admit, Retry, Reject
    <3>2. CASE Begins(c)
      <4>1. \A p \in PoolIds : work'[c] = [at |-> "queries", pool |-> p] => c \notin RawCalls
        BY <3>2 DEF Begins
      <4>2. \A d \in Calls \ {c} : work'[d] = work[d] /\ pc'[d] = pc[d]
        BY <1>2, <3>2 DEF Begins, Calling, Admit, Retry, Reject
      <4>3. QED
        BY <3>1, <4>1, <4>2 DEF RawHolders
    <3>3. CASE Reject(c) /\ UNCHANGED work
      BY <3>1, <3>3 DEF Reject, RawHolders
    <3>4. QED
      BY <1>2, <3>2, <3>3 DEF Calling
  <2>2. held' = held
    BY <1>2 DEF Calling
  <2>3. QED
    BY <1>0, <1>1, <2>1, <2>2 DEF NoClientLost, RawHolders, TestHolders
<1>3. CASE Connects(c)
  <2> DEFINE q == work[c].pool
  <2>1. q \in PoolIds \ ended /\ held' = [held EXCEPT ![q] = @ \cup {c}]
    BY <1>3 DEF Connects, HasClient, Places
  <2>2. c \in RawCalls /\ pc[c] = "running"
    BY <1>3 DEF Connects, WorkGoesOn
  <2>3. \A p \in PoolIds : RawHolders(p)' = IF p = q THEN RawHolders(p) \cup {c} ELSE RawHolders(p)
    BY <1>3, <2>2 DEF Connects, RawHolders, Places, vars
  <2> HIDE DEF q
  <2>4. \A p \in PoolIds : held'[p] = RawHolders(p)' \cup TestHolders(p)'
    BY <1>0, <1>1, <2>1, <2>3
  <2>5. \A p \in (ended \ {closing})' : held'[p] = {}
    BY <1>0, <1>1, <2>1
  <2>6. QED
    BY <2>4, <2>5 DEF NoClientLost, RawHolders, TestHolders
<1>4. CASE Answers(c) \/ \E e \in Errors(c) : CallFails(c, e)
  <2>1. held' = Released(c) /\ work' = [work EXCEPT ![c] = AtRest] /\ pc[c] = "running"
    BY <1>4 DEF Answers, CallFails, Succeed, Backoff, Fail
  <2>2. \A d \in Calls \ {c} : pc'[d] = pc[d]
    BY <1>4 DEF Answers, CallFails, Succeed, Backoff, Fail
  <2>3. \A p \in PoolIds : RawHolders(p)' = RawHolders(p) \ {c}
    BY <2>1, <2>2 DEF RawHolders, AtRest
  <2>4. \A p \in PoolIds : c \notin TestHolders(p)
    BY DEF TestHolders
  <2>5. \A p \in PoolIds : TestHolders(p)' = TestHolders(p)
    BY <1>1
  <2>6. \A p \in PoolIds : held'[p] = held[p] \ {c}
    BY <2>1 DEF Released
  <2>7. \A p \in PoolIds : held'[p] = RawHolders(p)' \cup TestHolders(p)'
    BY <1>0, <2>3, <2>4, <2>5, <2>6
  <2>8. \A p \in (ended \ {closing})' : held'[p] = {}
    BY <1>0, <1>1, <2>6
  <2>9. QED
    BY <2>7, <2>8 DEF NoClientLost, RawHolders, TestHolders
<1>5. QED
  BY <1>2, <1>3, <1>4

LEMMA NextDatabaseInv == DatabaseInv /\ [DatabaseNext]_<<vars, database>> => DatabaseInv'
<1> SUFFICES ASSUME DatabaseInv, [DatabaseNext]_<<vars, database>> PROVE DatabaseInv'
  OBVIOUS
<1>1. ASSUME \/ Close \/ CloseEnds
             \/ \E s \in Starters : \/ Initialize(s) \/ TestConnects(s)
                                    \/ TestEnds(s, TRUE) \/ TestEnds(s, FALSE)
      PROVE  DatabaseInv'
  BY <1>1, PoolTyped, PoolKeepsClients DEF DatabaseInv
<1>2. ASSUME NEW c \in Calls,
             Calling(c) \/ Connects(c) \/ Answers(c) \/ \E e \in Errors(c) : CallFails(c, e)
      PROVE  DatabaseInv'
  BY <1>2, CallTyped, CallKeepsClients DEF DatabaseInv
<1>3. ASSUME pc' = pc, UNCHANGED database PROVE DatabaseInv'
  BY <1>3 DEF database, DatabaseInv, DatabaseTypeOK, WorkGoesOn, NoClientLost
<1>4. QED
  BY <1>1, <1>2, <1>3 DEF DatabaseNext, Tick, vars

\* Every client that is out of a pool is out for a query that runs or a connection test,
\* for any number of calls, pools, clients and errors, and whenever initialize and close
\* run: none is lost to an error, to a retry or to a manager that has another pool by now,
\* and close leaves no client of the pool it awaited in use.
THEOREM ClientsComeBack == DatabaseSpec => []NoClientLost
<1>1. DatabaseInv => NoClientLost
  BY DEF DatabaseInv
<1>2. QED
  BY <1>1, InitDatabaseInv, NextDatabaseInv, PTL DEF DatabaseSpec

-----------------------------------------------------------------------------
(***************************************************************************)
(* The fetch of a page: robots.txt, the delay and the retries.             *)
(***************************************************************************)

\* A call has the fields that Ask gives it.
Shaped(r) ==
  DOMAIN r = {"pc", "op", "league", "codes", "limit", "days", "stop", "attempt", "left",
              "found", "tried", "listed", "alone"}

Underway == {"wait", "request", "backoff"}

FetchTyped(r) ==
  /\ Shaped(r)
  /\ r.pc \in {"idle", "robots", "fill", "answered", "threw"} \cup Underway
  /\ r.stop \in Stops /\ r.left \in Nat /\ r.attempt \in Nat /\ r.alone \in BOOLEAN
  /\ r.pc # "idle" => r.league \in ScrapedLeagues
  /\ r.pc \in {"request", "backoff"} => r.attempt # 0

ScrapeTyped ==
  /\ policy \in [Domains -> {"permits", "forbids"}]
  /\ robots = [d \in Domains |-> robots[d]]
  /\ age \in [Domains -> 0..Delay]
  /\ since \in [Domains -> 0..Delay]
  /\ call = [c \in Callers |-> call[c]]
  /\ \A c \in Callers : FetchTyped(call[c])

\* The cache never lets pass what was read to forbid.
CacheHeard ==
  \A d \in Domains : robots[d] \notin {None, "forbids"} /\ policy[d] = "forbids"
                     => d \in misread

\* Nor does a call that has asked it.
CallsHeard ==
  \A c \in Callers : call[c].pc \in Underway /\ policy[Domain(c)] = "forbids"
                     => Domain(c) \in misread

\* The limiter knows of every request but a retry.
LimiterSees == \A d \in Domains : d \notin retried => since[d] = age[d]

\* What is left to wait covers what is missing of the delay.
WaitsEnough ==
  \A c \in Callers : call[c].alone =>
    /\ call[c].pc = "wait" => call[c].left + age[Domain(c)] >= Delay
    /\ call[c].pc = "backoff" => call[c].left + since[Domain(c)] >= Delay

ScrapeInv == ScrapeTyped /\ CacheHeard /\ CallsHeard /\ LimiterSees /\ WaitsEnough

-----------------------------------------------------------------------------
(***************************************************************************)
(* Induction over the natural numbers, from their being well-founded, and  *)
(* what it gives: a function that is defined by recursion exists.          *)
(***************************************************************************)

\* A set that has 0 and is closed under successor has every number.
LEMMA Induction ==
  ASSUME NEW S, 0 \in S, \A n \in Nat : n \in S => n + 1 \in S
  PROVE  Nat \subseteq S
<1> DEFINE T == Nat \ S
           R == OpToRel(<, Nat)
<1>1. SUFFICES ASSUME T # {} PROVE FALSE
  OBVIOUS
<1>2. T \subseteq Nat
  OBVIOUS
<1>3. IsWellFoundedOn(R, Nat)
  BY NatLessThanWellFounded
<1> HIDE DEF R, T
<1>4. PICK x \in T : \A y \in T : ~(<<y, x>> \in R)
  BY <1>1, <1>2, <1>3, WFMin
<1>5. x \in Nat /\ x # 0
  BY <1>4 DEF T
<1>6. x - 1 \in Nat /\ x - 1 < x
  BY <1>5
<1>7. <<x - 1, x>> \in R
  BY <1>5, <1>6 DEF R, OpToRel
<1>8. x - 1 \in S
  BY <1>4, <1>6, <1>7 DEF T
<1>9. QED
  BY <1>4, <1>5, <1>6, <1>8 DEF T

\* A start and a step define a function on the numbers.
Iterates(f, start, step) == f[0] = start /\ \A n \in Nat : f[n + 1] = step[f[n]]

LEMMA Recursion ==
  ASSUME NEW S, NEW start \in S, NEW step \in [S -> S]
  PROVE  \E f \in [Nat -> S] : Iterates(f, start, step)
<1> DEFINE Good(n, f) == f[0] = start /\ \A m \in 0..n : m # n => f[m + 1] = step[f[m]]
           D == {n \in Nat : \E f \in [0..n -> S] : Good(n, f)}
<1>1. 0 \in D
  <2> DEFINE f == [m \in 0..0 |-> start]
  <2>1. f \in [0..0 -> S] /\ Good(0, f)
    OBVIOUS
  <2>2. QED
    BY <2>1
<1>2. ASSUME NEW n \in Nat, n \in D PROVE n + 1 \in D
  <2>1. PICK f \in [0..n -> S] : Good(n, f)
    BY <1>2
  <2> DEFINE g == [m \in 0..(n + 1) |-> IF m = n + 1 THEN step[f[n]] ELSE f[m]]
  <2>2. g \in [0..(n + 1) -> S]
    BY <2>1
  <2>3. g[0] = start
    BY <2>1
  <2>4. ASSUME NEW m \in 0..(n + 1), m # n + 1 PROVE g[m + 1] = step[g[m]]
    <3>1. m \in 0..n /\ g[m] = f[m]
      BY <2>4
    <3>2. CASE m = n
      BY <3>1, <3>2
    <3>3. CASE m # n
      BY <2>1, <3>1, <3>3
    <3>4. QED
      BY <3>2, <3>3
  <2>5. QED
    BY <2>2, <2>3, <2>4
<1>3. \A n \in Nat : \E f \in [0..n -> S] : Good(n, f)
  <2> HIDE DEF Good
  <2>1. Nat \subseteq D
    BY <1>1, <1>2, Induction
  <2>2. QED
    BY <2>1
<1> DEFINE Upto(n) == CHOOSE f \in [0..n -> S] : Good(n, f)
           F == [n \in Nat |-> Upto(n)]
<1>4. \A n \in Nat : F[n] \in [0..n -> S] /\ Good(n, F[n])
  <2> HIDE DEF Good
  <2>1. QED
    BY <1>3
<1> HIDE DEF F
\* Two of the initial parts agree where both are defined.
<1>5. ASSUME NEW n \in Nat PROVE \A m \in 0..n : F[n][m] = F[n + 1][m]
  <2> DEFINE E == {m \in Nat : m \in 0..n => F[n][m] = F[n + 1][m]}
  <2>1. 0 \in E
    BY <1>4
  <2>2. ASSUME NEW m \in Nat, m \in E PROVE m + 1 \in E
    <3>1. SUFFICES ASSUME m + 1 \in 0..n PROVE F[n][m + 1] = F[n + 1][m + 1]
      OBVIOUS
    <3>2. F[n][m] = F[n + 1][m]
      BY <2>2, <3>1
    <3>3. F[n][m + 1] = step[F[n][m]]
      BY <1>4, <3>1
    <3>4. F[n + 1][m + 1] = step[F[n + 1][m]]
      BY <1>4, <3>1
    <3>5. QED
      BY <3>2, <3>3, <3>4
  <2>3. Nat \subseteq E
    <3> HIDE DEF E
    <3>1. QED
      BY <2>1, <2>2, Induction
  <2>4. QED
    BY <2>3
<1> DEFINE h == [n \in Nat |-> F[n][n]]
<1>6. h \in [Nat -> S] /\ h[0] = start
  BY <1>4
<1>7. ASSUME NEW n \in Nat PROVE h[n + 1] = step[h[n]]
  <2>1. F[n + 1][n + 1] = step[F[n + 1][n]]
    BY <1>4
  <2>2. F[n + 1][n] = F[n][n]
    BY <1>5
  <2>3. QED
    BY <2>1, <2>2
<1>8. QED
  BY <1>6, <1>7 DEF Iterates

\* The back-off is never shorter than the delay.
LEMMA DoublingsGrow == \A n \in Nat : Doublings[n] \in Nat \ {0}
<1> DEFINE twice == [n \in Nat |-> 2 * n]
           Def(f) == f = [n \in Nat |-> IF n = 0 THEN 1 ELSE 2 * f[n - 1]]
<1>1. PICK f \in [Nat -> Nat] : Iterates(f, 1, twice)
  <2>1. 1 \in Nat /\ twice \in [Nat -> Nat]
    OBVIOUS
  <2> HIDE DEF twice
  <2>2. QED
    BY <2>1, Recursion, Zenon
<1>2. Def(f)
  <2>1. ASSUME NEW n \in Nat PROVE f[n] = IF n = 0 THEN 1 ELSE 2 * f[n - 1]
    <3>1. CASE n # 0
      <4>1. n - 1 \in Nat /\ (n - 1) + 1 = n
        BY <3>1
      <4>2. QED
        BY <1>1, <3>1, <4>1 DEF Iterates
    <3>2. QED
      BY <1>1, <3>1 DEF Iterates
  <2>2. QED
    BY <1>1, <2>1
<1>3. Def(Doublings)
  <2> HIDE DEF Def
  <2>1. Doublings = CHOOSE g : Def(g)
    BY DEF Doublings, Def
  <2>2. QED
    BY <1>2, <2>1
<1> DEFINE P == {n \in Nat : Doublings[n] \in Nat \ {0}}
<1>4. 0 \in P
  BY <1>3
<1>5. ASSUME NEW n \in Nat, n \in P PROVE n + 1 \in P
  <2>1. Doublings[n + 1] = 2 * Doublings[n]
    BY <1>3
  <2>2. QED
    BY <1>5, <2>1
<1>6. Nat \subseteq P
  <2> HIDE DEF P
  <2>1. QED
    BY <1>4, <1>5, Induction
<1>7. QED
  BY <1>6

\* The same of the delay itself.
LEMMA BackoffIsLong ==
  ASSUME NEW n \in Nat \ {0} PROVE BackoffDelay(n) \in Nat /\ BackoffDelay(n) >= Delay
<1>1. Doublings[n - 1] \in Nat \ {0}
  BY DoublingsGrow
<1>2. Delay \in Nat
  BY ScrapingAssumption DEF ScrapingAssumption
<1>3. ASSUME NEW k \in Nat \ {0} PROVE Delay * k \in Nat /\ Delay * k >= Delay
  BY <1>2
<1>4. QED
  BY <1>1, <1>3 DEF BackoffDelay

-----------------------------------------------------------------------------
\* Leaving for the next source, and answering, keep a call in its shape.
LEMMA GoToTyped ==
  ASSUME NEW r, FetchTyped(r), r.pc # "idle", NEW stop \in Stops
  PROVE  FetchTyped(GoTo(r, stop)) /\ GoTo(r, stop).pc = "robots"
BY DEF FetchTyped, Shaped, GoTo, Underway, ScrapedLeagues, Stops

LEMMA AnswerTyped ==
  ASSUME NEW r, FetchTyped(r), r.pc # "idle", NEW games
  PROVE  FetchTyped(Answer(r, games)) /\ Answer(r, games).pc = "answered"
BY DEF FetchTyped, Shaped, Answer, Underway, ScrapedLeagues, Stops

\* What a source gave ends the call or sends it to another source.
Landed(q) == FetchTyped(q) /\ q.pc \in {"robots", "answered", "threw"}

LEMMA NextStopIsAStop ==
  ASSUME NEW league \in ScrapedLeagues, NEW stop \in Stops, NEW ok, NEW listed
  PROVE  NextStop(league, stop, ok, listed) \in Stops /\ FirstStop(league) \in Stops
BY DEF NextStop, FirstStop, NbaNext, NflNext, MlbNext, NhlNext, ScrapedLeagues, Stops

LEMMA AfterLands ==
  ASSUME NEW r, FetchTyped(r), r.pc # "idle", NEW ok, NEW page
  PROVE  Landed(After(r, ok, page))
<1> DEFINE has == ok /\ Scrape(r.league, r.stop, page, r.codes) # <<>>
           s == [r EXCEPT !.tried = @ \cup {r.stop},
                          !.listed = IF has THEN @ \cup {r.stop} ELSE @]
<1>1. FetchTyped(s) /\ s.pc # "idle" /\ s.league = r.league /\ s.op = r.op
  <2> DEFINE listed == IF has THEN r.listed \cup {r.stop} ELSE r.listed
  <2>1. s = [r EXCEPT !.tried = r.tried \cup {r.stop}, !.listed = listed]
    OBVIOUS
  <2> HIDE DEF listed, s
  <2>2. QED
    BY <2>1 DEF FetchTyped, Shaped, Underway
<1>2. After(r, ok, page) =
        IF r.league = "NHL" /\ r.op = "schedule" THEN AfterDayStop(s, ok, page)
        ELSE IF r.op = "box" THEN AfterBoxStop(s, ok, page)
        ELSE AfterStop(s, ok, page)
  BY DEF After
<1> HIDE DEF s
<1>3. s.league \in ScrapedLeagues /\ s.stop \in Stops
  BY <1>1 DEF FetchTyped
<1>4. Landed(AfterStop(s, ok, page))
  <2> DEFINE games == IF ok THEN Scrape(s.league, s.stop, page, s.codes) ELSE <<>>
             next == NextStop(s.league, s.stop, ok, ok /\ page.rows # <<>>)
  <2>1. AfterStop(s, ok, page) = IF games # <<>> \/ s.stop = "cbs"
                                 THEN Answer(s, Finish(s, games)) ELSE GoTo(s, next)
    BY DEF AfterStop
  <2>2. next \in Stops
    BY <1>3, NextStopIsAStop
  <2>3. Landed(Answer(s, Finish(s, games)))
    BY <1>1, AnswerTyped DEF Landed
  <2> HIDE DEF games, next
  <2>4. Landed(GoTo(s, next))
    BY <1>1, <2>2, GoToTyped DEF Landed
  <2>5. QED
    BY <2>1, <2>3, <2>4
<1>5. Landed(AfterDayStop(s, ok, page))
  <2> DEFINE listed == ok /\ page.rows # <<>>
             found == s.found \o (IF listed THEN ScrapeDay(s.stop, page, s.codes, Head(s.days))
                                  ELSE <<>>)
             later == [s EXCEPT !.found = found, !.days = Tail(s.days)]
             answer == FirstOf(found, TeamsAndDay)
  <2>1. AfterDayStop(s, ok, page) =
          IF ~listed /\ s.stop # "dom" THEN GoTo(s, NextOfDay(s.stop))
          ELSE IF Tail(s.days) # <<>> THEN GoTo(later, "json")
          ELSE Answer(s, answer)
    BY DEF AfterDayStop
  <2>2. Landed(GoTo(s, NextOfDay(s.stop)))
    BY <1>1, GoToTyped DEF Landed, NextOfDay, Stops
  <2> HIDE DEF listed, found, answer
  <2>3. FetchTyped(later) /\ later.pc # "idle"
    BY <1>1 DEF FetchTyped, Shaped, Underway
  <2> HIDE DEF later
  <2>4. Landed(GoTo(later, "json"))
    BY <2>3, GoToTyped DEF Landed, Stops
  <2>5. Landed(Answer(s, answer))
    BY <1>1, AnswerTyped DEF Landed
  <2>6. QED
    BY <2>1, <2>2, <2>4, <2>5
<1>6. Landed(AfterBoxStop(s, ok, page))
  <2>1. Landed(Answer(s, <<>>)) /\ Landed(GoTo(s, "dom"))
    BY <1>1, AnswerTyped, GoToTyped DEF Landed, Stops
  <2>2. Landed([s EXCEPT !.pc = "threw"])
    BY <1>1 DEF Landed, FetchTyped, Shaped, Underway
  <2>3. QED
    BY <2>1, <2>2 DEF AfterBoxStop
<1>7. QED
  BY <1>2, <1>4, <1>5, <1>6

-----------------------------------------------------------------------------
\* Before the first call nothing was sent and every domain may be asked.
LEMMA ScrapeStarts == ScrapeInit => ScrapeInv
<1> SUFFICES ASSUME ScrapeInit PROVE ScrapeInv
  OBVIOUS
<1>1. Delay \in Nat /\ policy \in [Domains -> {"permits", "forbids"}]
  BY ScrapingAssumption DEF ScrapingAssumption, ScrapeInit
<1>2. FetchTyped(Idle) /\ Idle.pc = "idle" /\ Idle.left = 0 /\ Idle.alone
  BY DEF Idle, FetchTyped, Shaped, Underway, Stops
<1>3. \A c \in Callers : call[c] = Idle
  BY DEF ScrapeInit
<1> HIDE DEF Idle
<1>4. ScrapeTyped
  BY <1>1, <1>2, <1>3 DEF ScrapeTyped, ScrapeInit
<1>5. CacheHeard /\ LimiterSees
  BY DEF CacheHeard, LimiterSees, ScrapeInit
<1>6. CallsHeard /\ WaitsEnough
  BY <1>2, <1>3 DEF CallsHeard, WaitsEnough, Underway
<1>7. QED
  BY <1>4, <1>5, <1>6 DEF ScrapeInv

\* The domain of a call is one of the three.
LEMMA DomainOfACall ==
  ASSUME NEW r, r.stop \in Stops PROVE DomainOf[r.stop] \in Domains
BY DEF DomainOf, Domains, Stops

\* What a step may do to the cache: leave it, or note what was read.
CacheStep ==
  /\ UNCHANGED policy
  /\ robots' = [d \in Domains |-> robots'[d]]
  /\ misread \subseteq misread'
  /\ CacheHeard'

\* A step that, besides, only changes the call of c, which does not go under way.
LEMMA StaysAside ==
  ASSUME ScrapeInv, NEW c \in Callers, NEW q, FetchTyped(q), q.pc \notin Underway,
         call' = [call EXCEPT ![c] = q], CacheStep, UNCHANGED sent
  PROVE  ScrapeInv'
<1> USE DEF ScrapeInv, CacheStep
<1>1. ScrapeTyped'
  BY DEF ScrapeTyped, sent
<1>2. CacheHeard' /\ LimiterSees'
  BY DEF LimiterSees, sent
<1>3. \A o \in Callers : o # c => call'[o] = call[o]
  BY DEF ScrapeTyped
<1>4. call'[c] = q
  BY DEF ScrapeTyped
<1>5. CallsHeard'
  BY <1>3, <1>4 DEF CallsHeard, Domain
<1>6. WaitsEnough'
  BY <1>3, <1>4 DEF WaitsEnough, Domain, sent, Underway
<1>7. QED
  BY <1>1, <1>2, <1>5, <1>6

\* A request leaves, after the limiter has let it go or without asking it.
LEMMA SendsKeeps ==
  ASSUME ScrapeInv, NEW c \in Callers, NEW n \in Nat \ {0}, Sends(c, n),
         call[c].pc # "idle", CacheStep,
         policy[Domain(c)] = "forbids" => Domain(c) \in misread',
         \/ age' = [age EXCEPT ![Domain(c)] = 0] /\ retried' = retried \ {Domain(c)}
         \/ age' = age /\ retried' = retried \cup {Domain(c)}
  PROVE  ScrapeInv'
<1> USE DEF ScrapeInv, CacheStep
<1>1. Delay \in Nat \ {0}
  BY ScrapingAssumption DEF ScrapingAssumption
<1>2. Domain(c) \in Domains
  BY DomainOfACall DEF Domain, ScrapeTyped, FetchTyped
<1> DEFINE gone == [call[c] EXCEPT !.pc = "request", !.attempt = n, !.alone = TRUE]
           Met(o) == o # c /\ call[o].pc \in Underway /\ Domain(o) = Domain(c)
<1>3. call' = [o \in Callers |-> IF o = c THEN gone
                                 ELSE IF Met(o) THEN [call[o] EXCEPT !.alone = FALSE]
                                 ELSE call[o]]
  BY DEF Sends, Underway
<1>4. FetchTyped(gone) /\ gone.pc = "request" /\ gone.stop = call[c].stop
  BY DEF ScrapeTyped, FetchTyped, Shaped, Underway
<1>5. ASSUME NEW o \in Callers, Met(o)
      PROVE  LET q == [call[o] EXCEPT !.alone = FALSE] IN
             /\ FetchTyped(q) /\ ~q.alone
             /\ q.pc = call[o].pc /\ q.stop = call[o].stop /\ q.left = call[o].left
  BY DEF ScrapeTyped, FetchTyped, Shaped
<1> HIDE DEF gone
<1>6. \A o \in Callers : /\ FetchTyped(call'[o]) /\ call'[o].stop = call[o].stop
                         /\ o # c => call'[o].pc = call[o].pc /\ call'[o].left = call[o].left
                         /\ Met(o) => ~call'[o].alone
                         /\ o # c /\ ~Met(o) => call'[o] = call[o]
  BY <1>3, <1>4, <1>5 DEF ScrapeTyped
<1>7. call'[c].pc = "request"
  BY <1>3, <1>4
<1>8. since' = [since EXCEPT ![Domain(c)] = 0]
  BY DEF Sends
<1>9. ScrapeTyped'
  BY <1>1, <1>2, <1>3, <1>6, <1>8 DEF ScrapeTyped
<1>11. CallsHeard'
  BY <1>6, <1>7 DEF CallsHeard, Domain
<1>12. LimiterSees'
  BY <1>2, <1>8 DEF LimiterSees, ScrapeTyped
<1>13. WaitsEnough'
  <2>1. SUFFICES ASSUME NEW o \in Callers, call'[o].alone
                 PROVE /\ call'[o].pc = "wait" => call'[o].left + age'[Domain(o)'] >= Delay
                       /\ call'[o].pc = "backoff" => call'[o].left + since'[Domain(o)'] >= Delay
    BY DEF WaitsEnough
  <2>2. CASE o = c
    BY <1>7, <2>2
  <2>3. CASE o # c
    <3>1. ~Met(o) /\ call'[o] = call[o] /\ Domain(o)' = Domain(o)
      BY <1>6, <2>1, <2>3 DEF Domain
    <3>2. call[o].pc \in {"wait", "backoff"} => Domain(o) # Domain(c)
      BY <2>3, <3>1 DEF Underway
    <3>3. Domain(o) \in Domains
      BY DomainOfACall DEF Domain, ScrapeTyped, FetchTyped
    <3>4. Domain(o) # Domain(c) => /\ since'[Domain(o)] = since[Domain(o)]
                                   /\ age'[Domain(o)] = age[Domain(o)]
      BY <1>2, <1>8, <3>3 DEF ScrapeTyped
    <3>5. QED
      BY <2>1, <3>1, <3>2, <3>4 DEF WaitsEnough
  <2>4. QED
    BY <2>2, <2>3
<1>14. QED
  BY <1>9, <1>11, <1>12, <1>13

\* The rules of a domain decide: its source fails, the caller waits, or it goes.
LEMMA DecideKeeps ==
  ASSUME ScrapeInv, NEW c \in Callers, call[c].pc \in {"robots", "fill"},
         NEW rules, Decide(c, rules), CacheStep,
         rules # "forbids" /\ policy[Domain(c)] = "forbids" => Domain(c) \in misread'
  PROVE  ScrapeInv'
<1>1. Domain(c) \in Domains /\ FetchTyped(call[c])
  BY DomainOfACall DEF Domain, ScrapeInv, ScrapeTyped, FetchTyped
<1>2. CASE rules = "forbids"
  <2>1. call' = [call EXCEPT ![c] = Fails(call[c])] /\ UNCHANGED sent
    BY <1>2 DEF Decide
  <2>2. FetchTyped(Fails(call[c])) /\ Fails(call[c]).pc \notin Underway
    BY <1>1, AfterLands DEF Fails, Landed, Underway
  <2>3. QED
    BY <2>1, <2>2, StaysAside
<1>3. CASE rules # "forbids" /\ age[Domain(c)] < Delay
  <2> DEFINE q == [call[c] EXCEPT !.pc = "wait", !.left = Delay - age[Domain(c)],
                                  !.alone = TRUE]
  <2>1. call' = [call EXCEPT ![c] = q] /\ UNCHANGED sent
    BY <1>3 DEF Decide, ScrapeInv, ScrapeTyped
  <2>2. age[Domain(c)] \in 0..Delay /\ Delay \in Nat
    BY <1>1, ScrapingAssumption DEF ScrapeInv, ScrapeTyped, ScrapingAssumption
  <2>3. /\ FetchTyped(q) /\ q.pc = "wait" /\ q.stop = call[c].stop
        /\ q.left + age[Domain(c)] >= Delay
    BY <1>1, <1>3, <2>2 DEF FetchTyped, Shaped, Underway
  <2> HIDE DEF q
  <2>4. call'[c] = q /\ \A o \in Callers : o # c => call'[o] = call[o]
    BY <2>1 DEF ScrapeInv, ScrapeTyped
  <2> USE DEF ScrapeInv, CacheStep
  <2>5. ScrapeTyped'
    BY <2>1, <2>3 DEF ScrapeTyped, sent
  <2>6. CallsHeard'
    <3>1. policy[Domain(c)] = "forbids" => Domain(c) \in misread'
      BY <1>3
    <3>2. QED
      BY <2>3, <2>4, <3>1 DEF CallsHeard, Domain
  <2>7. LimiterSees'
    BY <2>1 DEF LimiterSees, sent
  <2>8. WaitsEnough'
    BY <2>1, <2>3, <2>4 DEF WaitsEnough, Domain, sent
  <2>9. QED
    BY <2>5, <2>6, <2>7, <2>8
<1>4. CASE rules # "forbids" /\ ~(age[Domain(c)] < Delay)
  <2>1. Sends(c, 1) /\ age' = [age EXCEPT ![Domain(c)] = 0]
        /\ retried' = retried \ {Domain(c)}
    BY <1>4 DEF Decide, Grant
  <2>2. 1 \in Nat \ {0}
    OBVIOUS
  <2>3. QED
    BY <1>4, <2>1, <2>2, SendsKeeps
<1>5. QED
  BY <1>2, <1>3, <1>4

\* robots.txt arrives, or could not be read.
LEMMA FillKeeps ==
  ASSUME ScrapeInv, NEW c \in Callers, NEW rules \in {"permits", policy[Domain(c)]},
         Fill(c, rules)
  PROVE  ScrapeInv'
<1>1. Domain(c) \in Domains
  BY DomainOfACall DEF Domain, ScrapeInv, ScrapeTyped, FetchTyped
<1>2. policy[Domain(c)] \in {"permits", "forbids"}
  BY <1>1 DEF ScrapeInv, ScrapeTyped
<1>3. rules # "forbids" /\ policy[Domain(c)] = "forbids" => Domain(c) \in misread'
  BY <1>2 DEF Fill
<1>4. CacheStep
  <2>1. \A d \in Domains : d # Domain(c) => robots'[d] = robots[d]
    BY DEF Fill, ScrapeInv, ScrapeTyped
  <2>2. robots'[Domain(c)] = rules
    BY <1>1 DEF Fill, ScrapeInv, ScrapeTyped
  <2>3. misread \subseteq misread' /\ UNCHANGED policy
    BY DEF Fill
  <2>4. CacheHeard'
    BY <1>1, <1>3, <2>1, <2>2, <2>3 DEF CacheHeard, ScrapeInv
  <2>5. QED
    BY <2>3, <2>4 DEF CacheStep, Fill, ScrapeInv, ScrapeTyped
<1>5. QED
  BY <1>3, <1>4, DecideKeeps DEF Fill, At

\* Time passes.
LEMMA TickKeeps == ASSUME ScrapeInv, ScrapeTick PROVE ScrapeInv'
<1> USE DEF ScrapeInv
<1>1. Delay \in Nat \ {0}
  BY ScrapingAssumption DEF ScrapingAssumption
<1>2. \A o \in Callers : /\ FetchTyped(call'[o]) /\ call'[o].pc = call[o].pc
                         /\ call'[o].stop = call[o].stop /\ call'[o].alone = call[o].alone
                         /\ call'[o].left = IF call[o].left > 0 THEN call[o].left - 1 ELSE 0
  <2>1. SUFFICES ASSUME NEW o \in Callers
        PROVE /\ FetchTyped(call'[o]) /\ call'[o].pc = call[o].pc
              /\ call'[o].stop = call[o].stop /\ call'[o].alone = call[o].alone
              /\ call'[o].left = IF call[o].left > 0 THEN call[o].left - 1 ELSE 0
    OBVIOUS
  <2>2. FetchTyped(call[o])
    BY DEF ScrapeTyped
  <2>3. CASE call[o].left > 0
    <3>1. call'[o] = [call[o] EXCEPT !.left = call[o].left - 1]
      BY <2>3 DEF ScrapeTick
    <3>2. call[o].left - 1 \in Nat
      BY <2>2, <2>3 DEF FetchTyped
    <3>3. QED
      BY <2>2, <2>3, <3>1, <3>2 DEF FetchTyped, Shaped, Underway
  <2>4. CASE ~(call[o].left > 0)
    <3>1. call'[o] = call[o] /\ call[o].left = 0
      BY <2>2, <2>4 DEF ScrapeTick, FetchTyped
    <3>2. QED
      BY <2>2, <3>1
  <2>5. QED
    BY <2>3, <2>4
<1>3. ScrapeTyped'
  BY <1>1, <1>2 DEF ScrapeTyped, ScrapeTick, Older
<1>4. CacheHeard'
  BY DEF CacheHeard, ScrapeTick
<1>5. CallsHeard'
  BY <1>2 DEF CallsHeard, Domain, ScrapeTick
<1>6. LimiterSees'
  BY DEF LimiterSees, ScrapeTick
<1>7. WaitsEnough'
  <2>1. \A d \in Domains : /\ age[d] \in 0..Delay /\ age'[d] \in 0..Delay
                           /\ age'[d] = IF age[d] < Delay THEN age[d] + 1 ELSE Delay
                           /\ since[d] \in 0..Delay /\ since'[d] \in 0..Delay
                           /\ since'[d] = IF since[d] < Delay THEN since[d] + 1 ELSE Delay
    <3>1. SUFFICES ASSUME NEW d \in Domains
          PROVE /\ age[d] \in 0..Delay /\ age'[d] \in 0..Delay
                /\ age'[d] = IF age[d] < Delay THEN age[d] + 1 ELSE Delay
                /\ since[d] \in 0..Delay /\ since'[d] \in 0..Delay
                /\ since'[d] = IF since[d] < Delay THEN since[d] + 1 ELSE Delay
      OBVIOUS
    <3>2. age[d] \in 0..Delay /\ since[d] \in 0..Delay
      BY DEF ScrapeTyped
    <3>3. age'[d] = Older(age[d]) /\ since'[d] = Older(since[d])
      BY DEF ScrapeTick
    <3>4. \A k \in 0..Delay : /\ Older(k) \in 0..Delay
                              /\ Older(k) = IF k < Delay THEN k + 1 ELSE Delay
      BY <1>1 DEF Older
    <3>5. QED
      BY <3>2, <3>3, <3>4
  <2>2. \A o \in Callers : Domain(o) \in Domains /\ Domain(o)' = Domain(o)
                           /\ call[o].left \in Nat
    BY <1>2, DomainOfACall DEF Domain, ScrapeTyped, FetchTyped
  <2>3. SUFFICES ASSUME NEW o \in Callers, call'[o].alone
                 PROVE /\ call'[o].pc = "wait" => call'[o].left + age'[Domain(o)'] >= Delay
                       /\ call'[o].pc = "backoff" => call'[o].left + since'[Domain(o)'] >= Delay
    BY DEF WaitsEnough
  <2>4. /\ call[o].pc = "wait" => call[o].left + age[Domain(o)] >= Delay
        /\ call[o].pc = "backoff" => call[o].left + since[Domain(o)] >= Delay
    BY <1>2, <2>3 DEF WaitsEnough
  <2>5. Domain(o) \in Domains /\ Domain(o)' = Domain(o) /\ call[o].left \in Nat
    BY <2>2
  <2>6. call'[o].pc = "wait" => call'[o].left + age'[Domain(o)'] >= Delay
    BY <1>1, <1>2, <2>1, <2>4, <2>5
  <2>7. call'[o].pc = "backoff" => call'[o].left + since'[Domain(o)'] >= Delay
    BY <1>1, <1>2, <2>1, <2>4, <2>5
  <2>8. QED
    BY <2>6, <2>7
<1>8. QED
  BY <1>3, <1>4, <1>5, <1>6, <1>7

\* Where a call goes on does not depend on where it was.
LEMMA GoneTo ==
  ASSUME NEW r, NEW pc0, NEW stop
  PROVE  GoTo([r EXCEPT !.pc = pc0], stop) = GoTo(r, stop)
  BY DEF GoTo

\* A call is made: it goes to its first source or is answered at once.
LEMMA AskLands ==
  ASSUME NEW c \in Callers, NEW ask \in Asks[c], Ask(c, ask)
  PROVE  \E q : Landed(q) /\ call' = [call EXCEPT ![c] = q]
<1> DEFINE r == [Idle EXCEPT !.op = ask.op, !.league = ask.league, !.codes = ask.codes,
                             !.limit = ask.limit, !.days = ask.days]
           asked == [r EXCEPT !.pc = "answered"]
           q == CASE ask.op = "schedule" -> AskSchedule(r)
                  [] ask.op = "box" -> AskBoxScore(r, ask.event)
                  [] OTHER -> GoTo(r, FirstStop(ask.league))
<1>1. ask.league \in ScrapedLeagues
  BY ScrapingAssumption DEF ScrapingAssumption
\* Idle is not yet a call to go on with; with any other pc it is.
<1>2. FetchTyped(asked) /\ asked.pc # "idle" /\ r.league = ask.league
  <2>1. Shaped(asked)
    BY DEF Shaped, Idle
  <2>2. asked.pc = "answered" /\ asked.league = ask.league /\ r.league = ask.league
    BY DEF Idle
  <2>3. asked.stop \in Stops /\ asked.left = 0 /\ asked.attempt = 0 /\ asked.alone \in BOOLEAN
    BY DEF Idle, Stops
  <2> HIDE DEF r, asked
  <2>4. QED
    BY <1>1, <2>1, <2>2, <2>3 DEF FetchTyped
<1>3. \A stop \in Stops : GoTo(r, stop) = GoTo(asked, stop)
  <2> HIDE DEF r
  <2>1. QED
    BY GoneTo
<1>4. \A games : Answer(r, games) = Answer(asked, games)
  <2> HIDE DEF r
  <2>1. QED
    BY DEF Answer
<1>5. [r EXCEPT !.pc = "threw"] = [asked EXCEPT !.pc = "threw"]
  <2> HIDE DEF r
  <2>1. QED
    OBVIOUS
<1> HIDE DEF r, asked
<1>6. \A stop \in Stops : Landed(GoTo(r, stop))
  BY <1>2, <1>3, GoToTyped DEF Landed
<1>7. Landed(Answer(r, <<>>))
  BY <1>2, <1>4, AnswerTyped DEF Landed
<1>8. Landed([r EXCEPT !.pc = "threw"])
  BY <1>2, <1>5 DEF Landed, FetchTyped, Shaped, Underway
<1>9. FirstStop(ask.league) \in Stops /\ "json" \in Stops
  BY DEF FirstStop, Stops
<1>10. Landed(q)
  BY <1>2, <1>6, <1>7, <1>8, <1>9 DEF AskSchedule, AskBoxScore
<1>11. call' = [call EXCEPT ![c] = q]
  BY DEF Ask, r
<1> HIDE DEF q
<1>12. QED
  BY <1>10, <1>11

LEMMA AskKeeps ==
  ASSUME ScrapeInv, NEW c \in Callers, NEW ask \in Asks[c], Ask(c, ask)
  PROVE  ScrapeInv'
<1>1. PICK q : Landed(q) /\ call' = [call EXCEPT ![c] = q]
  BY AskLands
<1>2. CacheStep /\ UNCHANGED sent
  BY DEF Ask, CacheStep, ScrapeInv, ScrapeTyped, CacheHeard
<1>3. QED
  BY <1>1, <1>2, StaysAside DEF Landed, Underway

\* Each step of a fetch.
LEMMA FetchKeeps == ASSUME ScrapeInv, NEW c \in Callers, Fetches(c) PROVE ScrapeInv'
<1>1. FetchTyped(call[c]) /\ Domain(c) \in Domains
  BY DomainOfACall DEF Domain, ScrapeInv, ScrapeTyped, FetchTyped
<1>2. ASSUME UNCHANGED <<policy, robots, misread>> PROVE CacheStep
  BY <1>2 DEF CacheStep, ScrapeInv, ScrapeTyped, CacheHeard
<1>3. CASE CheckRobots(c)
  <2>1. CacheStep
    BY <1>2, <1>3 DEF CheckRobots
  <2>2. CASE robots[Domain(c)] # None
    <3>1. Decide(c, robots[Domain(c)]) /\ call[c].pc = "robots" /\ UNCHANGED misread
      BY <1>3, <2>2 DEF CheckRobots, At
    <3>2. robots[Domain(c)] # "forbids" /\ policy[Domain(c)] = "forbids"
          => Domain(c) \in misread
      BY <1>1, <2>2 DEF ScrapeInv, CacheHeard
    <3>3. QED
      BY <2>1, <3>1, <3>2, DecideKeeps
  <2>3. CASE robots[Domain(c)] = None
    <3> DEFINE q == [call[c] EXCEPT !.pc = "fill"]
    <3>1. call' = [call EXCEPT ![c] = q] /\ UNCHANGED sent /\ call[c].pc = "robots"
      BY <1>3, <2>3 DEF CheckRobots, At
    <3>2. FetchTyped(q) /\ q.pc \notin Underway
      BY <1>1, <3>1 DEF FetchTyped, Shaped, Underway
    <3> HIDE DEF q
    <3>3. QED
      BY <2>1, <3>1, <3>2, StaysAside
  <2>4. QED
    BY <2>2, <2>3
<1>4. CASE RobotsArrive(c)
  BY <1>4, FillKeeps DEF RobotsArrive
<1>5. CASE RobotsUnread(c)
  BY <1>5, FillKeeps DEF RobotsUnread
<1>6. CASE WaitEnds(c)
  <2>1. /\ Sends(c, 1) /\ age' = [age EXCEPT ![Domain(c)] = 0]
        /\ retried' = retried \ {Domain(c)} /\ call[c].pc = "wait" /\ UNCHANGED misread
    BY <1>6 DEF WaitEnds, Grant, At
  <2>2. CacheStep /\ 1 \in Nat \ {0}
    BY <1>2, <1>6 DEF WaitEnds
  <2>3. policy[Domain(c)] = "forbids" => Domain(c) \in misread
    BY <2>1 DEF ScrapeInv, CallsHeard, Underway
  <2>4. QED
    BY <2>1, <2>2, <2>3, SendsKeeps
<1>7. CASE Retries(c)
  <2>1. /\ Sends(c, call[c].attempt + 1) /\ age' = age
        /\ retried' = retried \cup {Domain(c)} /\ call[c].pc = "backoff" /\ UNCHANGED misread
    BY <1>7 DEF Retries, At
  <2>2. CacheStep /\ call[c].attempt + 1 \in Nat \ {0}
    BY <1>1, <1>2, <1>7 DEF Retries, FetchTyped
  <2>3. policy[Domain(c)] = "forbids" => Domain(c) \in misread
    BY <2>1 DEF ScrapeInv, CallsHeard, Underway
  <2>4. QED
    BY <2>1, <2>2, <2>3, SendsKeeps
<1>8. CASE AttemptFails(c)
  <2>1. CacheStep /\ UNCHANGED sent /\ call[c].pc = "request"
    BY <1>2, <1>8 DEF AttemptFails, At
  <2>2. CASE call[c].attempt = FetchRetries
    <3>1. call' = [call EXCEPT ![c] = Fails(call[c])]
      BY <1>8, <2>2 DEF AttemptFails
    <3>2. FetchTyped(Fails(call[c])) /\ Fails(call[c]).pc \notin Underway
      BY <1>1, <2>1, AfterLands DEF Fails, Landed, Underway
    <3>3. QED
      BY <2>1, <3>1, <3>2, StaysAside
  <2>3. CASE call[c].attempt # FetchRetries
    <3> DEFINE n == BackoffDelay(call[c].attempt)
               q == [call[c] EXCEPT !.pc = "backoff", !.left = n]
    <3>1. call' = [call EXCEPT ![c] = q]
      BY <1>8, <2>3 DEF AttemptFails
    <3>2. n \in Nat /\ n >= Delay
      BY <1>1, <2>1, BackoffIsLong DEF FetchTyped
    <3> HIDE DEF n
    <3>3. FetchTyped(q) /\ q.pc = "backoff" /\ q.stop = call[c].stop /\ q.left = n
      BY <1>1, <2>1, <3>2 DEF FetchTyped, Shaped, Underway
    <3> HIDE DEF q
    <3>4. call'[c] = q /\ \A o \in Callers : o # c => call'[o] = call[o]
      BY <3>1 DEF ScrapeInv, ScrapeTyped
    <3> USE DEF ScrapeInv, CacheStep
    <3>5. ScrapeTyped'
      BY <2>1, <3>1, <3>3 DEF ScrapeTyped, sent
    <3>6. CallsHeard'
      BY <2>1, <3>3, <3>4 DEF CallsHeard, Domain, Underway
    <3>7. LimiterSees'
      BY <2>1 DEF LimiterSees, sent
    <3>8. WaitsEnough'
      <4>1. n + since[Domain(c)] >= Delay
        <5>1. since[Domain(c)] \in 0..Delay /\ Delay \in Nat
          BY <1>1, ScrapingAssumption DEF ScrapeTyped, ScrapingAssumption
        <5>2. QED
          BY <3>2, <5>1
      <4>2. QED
        BY <2>1, <3>3, <3>4, <4>1 DEF WaitsEnough, Domain, sent
    <3>9. QED
      BY <2>1, <3>5, <3>6, <3>7, <3>8
  <2>4. QED
    BY <2>2, <2>3
<1>9. ASSUME NEW page, PageArrives(c, page) PROVE ScrapeInv'
  <2>1. CacheStep /\ UNCHANGED sent /\ call[c].pc = "request"
    BY <1>2, <1>9 DEF PageArrives, At
  <2>2. FetchTyped(Reads(call[c], page)) /\ Reads(call[c], page).pc \notin Underway
    BY <1>1, <2>1, AfterLands DEF Reads, Landed, Underway
  <2>3. QED
    BY <1>9, <2>1, <2>2, StaysAside DEF PageArrives
<1>10. QED
  BY <1>3, <1>4, <1>5, <1>6, <1>7, <1>8, <1>9 DEF Fetches

\* Everything that can happen keeps the invariant.
LEMMA ScrapeKeeps == ScrapeInv /\ [ScrapeNext]_scraping => ScrapeInv'
<1> SUFFICES ASSUME ScrapeInv, [ScrapeNext]_scraping PROVE ScrapeInv'
  OBVIOUS
<1>1. CASE UNCHANGED scraping
  BY <1>1 DEF scraping, ScrapeInv, ScrapeTyped, CacheHeard, CallsHeard, LimiterSees,
              WaitsEnough, Domain
<1>2. QED
  BY <1>1, TickKeeps, FetchKeeps, AskKeeps DEF ScrapeNext

LEMMA ScrapeSafe == ScrapeSpec => []ScrapeInv
  BY ScrapeStarts, ScrapeKeeps, PTL DEF ScrapeSpec

-----------------------------------------------------------------------------
\* The request of c is one that may be made now.
Heard(c) == policy[Domain(c)] = "forbids" => Domain(c) \in misread'

InTime(c) ==
  /\ call[c].pc \in {"wait", "backoff"} => call[c].alone
  /\ ~At(c, "backoff") => Domain(c) \notin retried
  => since[Domain(c)] = Delay

\* A step that changes one call, and not to a request, requests nothing.
LEMMA RequestsNothing ==
  ASSUME ScrapeInv, NEW o \in Callers, NEW q, q.pc # "request",
         call' = [call EXCEPT ![o] = q], NEW c \in Callers
  PROVE  ~Requested(c)
BY DEF Requested, At, ScrapeInv, ScrapeTyped

\* Another's request is not one of c.
LEMMA RequestsItself ==
  ASSUME ScrapeInv, NEW o \in Callers, NEW n, Sends(o, n), NEW c \in Callers, Requested(c)
  PROVE  c = o
<1> SUFFICES ASSUME c # o PROVE FALSE
  OBVIOUS
<1>1. FetchTyped(call[c])
  BY DEF ScrapeInv, ScrapeTyped
<1>2. call'[c] = call[c] \/ call'[c] = [call[c] EXCEPT !.alone = FALSE]
  BY DEF Sends
<1>3. call'[c].pc = call[c].pc
  BY <1>1, <1>2 DEF FetchTyped, Shaped
<1>4. QED
  BY <1>3 DEF Requested, At

\* When the rules are known, a request that need not wait is one of its caller,
\* for a page that the rules permit, Delay after what the limiter knows of.
LEMMA DecideRequests ==
  ASSUME ScrapeInv, NEW o \in Callers, call[o].pc \in {"robots", "fill"}, NEW rules,
         Decide(o, rules), NEW c \in Callers, Requested(c)
  PROVE  c = o /\ rules # "forbids" /\ InTime(c)
<1>1. Domain(o) \in Domains /\ FetchTyped(call[o])
  BY DomainOfACall DEF Domain, ScrapeInv, ScrapeTyped, FetchTyped
<1>2. rules # "forbids"
  <2>1. ASSUME rules = "forbids" PROVE FALSE
    <3>1. call' = [call EXCEPT ![o] = Fails(call[o])]
      BY <2>1 DEF Decide
    <3>2. Fails(call[o]).pc # "request"
      BY <1>1, AfterLands DEF Fails, Landed
    <3>3. QED
      BY <3>1, <3>2, RequestsNothing
  <2>2. QED
    BY <2>1
<1>3. ~(age[Domain(o)] < Delay)
  <2>1. ASSUME age[Domain(o)] < Delay PROVE FALSE
    <3> DEFINE q == [call[o] EXCEPT !.pc = "wait", !.left = Delay - age[Domain(o)],
                                    !.alone = TRUE]
    <3>1. call' = [call EXCEPT ![o] = q]
      BY <1>2, <2>1 DEF Decide, ScrapeInv, ScrapeTyped
    <3>2. q.pc # "request"
      BY <1>1 DEF FetchTyped, Shaped
    <3> HIDE DEF q
    <3>3. QED
      BY <3>1, <3>2, RequestsNothing
  <2>2. QED
    BY <2>1
<1>4. c = o
  <2>1. Sends(o, 1)
    BY <1>2, <1>3 DEF Decide, Grant
  <2>2. QED
    BY <2>1, RequestsItself
<1>5. Domain(c) \notin retried => since[Domain(c)] = Delay
  <2>1. age[Domain(c)] = Delay
    BY <1>1, <1>3, <1>4, ScrapingAssumption DEF ScrapeInv, ScrapeTyped, ScrapingAssumption
  <2>2. QED
    BY <1>1, <1>4, <2>1 DEF ScrapeInv, LimiterSees
<1>6. QED
  BY <1>2, <1>4, <1>5 DEF InTime, At

\* No request leaves but one that may.
LEMMA RequestsAreFit ==
  ASSUME ScrapeInv, [ScrapeNext]_scraping, NEW c \in Callers, Requested(c)
  PROVE  Heard(c) /\ InTime(c)
<1> USE DEF ScrapeInv
<1>1. ~(UNCHANGED scraping)
  BY DEF scraping, Requested, At
<1>2. ~ScrapeTick
  <2>1. ASSUME ScrapeTick PROVE FALSE
    <3>1. FetchTyped(call[c])
      BY DEF ScrapeTyped
    <3>2. call'[c].pc = call[c].pc
      BY <2>1, <3>1 DEF ScrapeTick, FetchTyped, Shaped
    <3>3. QED
      BY <3>2 DEF Requested, At
  <2>2. QED
    BY <2>1
<1>3. ASSUME NEW o \in Callers, NEW ask \in Asks[o], Ask(o, ask) PROVE FALSE
  <2>1. PICK q : call' = [call EXCEPT ![o] = q] /\ q.pc # "request"
    BY <1>3, AskLands DEF Landed
  <2>2. QED
    BY <2>1, RequestsNothing
<1>4. PICK o \in Callers : Fetches(o)
  BY <1>1, <1>2, <1>3 DEF ScrapeNext
<1>5. FetchTyped(call[o]) /\ Domain(o) \in Domains
  BY DomainOfACall DEF Domain, ScrapeTyped, FetchTyped
<1>6. CASE CheckRobots(o)
  <2>1. robots[Domain(o)] # None
    <3>1. ASSUME robots[Domain(o)] = None PROVE FALSE
      <4> DEFINE q == [call[o] EXCEPT !.pc = "fill"]
      <4>1. call' = [call EXCEPT ![o] = q]
        BY <1>6, <3>1 DEF CheckRobots
      <4>2. q.pc # "request"
        BY <1>5 DEF FetchTyped, Shaped
      <4> HIDE DEF q
      <4>3. QED
        BY <4>1, <4>2, RequestsNothing
    <3>2. QED
      BY <3>1
  <2>2. c = o /\ robots[Domain(o)] # "forbids" /\ InTime(c)
    BY <1>6, <2>1, DecideRequests DEF CheckRobots, At
  <2>3. Heard(c)
    BY <1>5, <1>6, <2>1, <2>2 DEF Heard, CheckRobots, CacheHeard
  <2>4. QED
    BY <2>2, <2>3
<1>7. ASSUME NEW rules \in {"permits", policy[Domain(o)]}, Fill(o, rules)
      PROVE  Heard(c) /\ InTime(c)
  <2>1. c = o /\ rules # "forbids" /\ InTime(c)
    BY <1>7, DecideRequests DEF Fill, At
  <2>2. Heard(c)
    BY <1>5, <1>7, <2>1 DEF Heard, Fill
  <2>3. QED
    BY <2>1, <2>2
<1>8. CASE WaitEnds(o)
  <2>1. c = o /\ call[c].pc = "wait" /\ call[c].left = 0 /\ misread' = misread
    BY <1>8, RequestsItself DEF WaitEnds, Grant, At
  <2>2. Heard(c)
    BY <2>1 DEF Heard, CallsHeard, Underway
  <2>3. call[c].alone => age[Domain(c)] = Delay
    <3>1. age[Domain(c)] \in 0..Delay /\ Delay \in Nat
      BY <1>5, <2>1, ScrapingAssumption DEF ScrapeTyped, ScrapingAssumption
    <3>2. call[c].alone => 0 + age[Domain(c)] >= Delay
      BY <2>1 DEF WaitsEnough
    <3>3. QED
      BY <3>1, <3>2
  <2>4. Domain(c) \notin retried => since[Domain(c)] = age[Domain(c)]
    BY <1>5, <2>1 DEF LimiterSees
  <2>5. QED
    BY <2>1, <2>2, <2>3, <2>4 DEF InTime, At
<1>9. CASE Retries(o)
  <2>1. c = o /\ call[c].pc = "backoff" /\ call[c].left = 0 /\ misread' = misread
    BY <1>9, RequestsItself DEF Retries, At
  <2>2. Heard(c)
    BY <2>1 DEF Heard, CallsHeard, Underway
  <2>3. call[c].alone => since[Domain(c)] = Delay
    <3>1. since[Domain(c)] \in 0..Delay /\ Delay \in Nat
      BY <1>5, <2>1, ScrapingAssumption DEF ScrapeTyped, ScrapingAssumption
    <3>2. call[c].alone => 0 + since[Domain(c)] >= Delay
      BY <2>1 DEF WaitsEnough
    <3>3. QED
      BY <3>1, <3>2
  <2>4. QED
    BY <2>1, <2>2, <2>3 DEF InTime, At
<1>10. ASSUME NEW q, call' = [call EXCEPT ![o] = q], q.pc # "request" PROVE FALSE
  BY <1>10, RequestsNothing
<1>11. ASSUME AttemptFails(o) PROVE FALSE
  <2>1. CASE call[o].attempt = FetchRetries
    <3>1. call' = [call EXCEPT ![o] = Fails(call[o])] /\ call[o].pc = "request"
      BY <1>11, <2>1 DEF AttemptFails, At
    <3>2. Fails(call[o]).pc # "request"
      BY <1>5, <3>1, AfterLands DEF Fails, Landed
    <3>3. QED
      BY <1>10, <3>1, <3>2
  <2>2. CASE call[o].attempt # FetchRetries
    <3> DEFINE n == BackoffDelay(call[o].attempt)
               q == [call[o] EXCEPT !.pc = "backoff", !.left = n]
    <3>1. call' = [call EXCEPT ![o] = q]
      BY <1>11, <2>2 DEF AttemptFails
    <3> HIDE DEF n
    <3>2. q.pc # "request"
      BY <1>5 DEF FetchTyped, Shaped
    <3> HIDE DEF q
    <3>3. QED
      BY <1>10, <3>1, <3>2
  <2>3. QED
    BY <2>1, <2>2
<1>12. ASSUME NEW page, PageArrives(o, page) PROVE FALSE
  <2>1. call' = [call EXCEPT ![o] = Reads(call[o], page)] /\ call[o].pc = "request"
    BY <1>12 DEF PageArrives, At
  <2>2. Reads(call[o], page).pc # "request"
    BY <1>5, <2>1, AfterLands DEF Reads, Landed
  <2>3. QED
    BY <1>10, <2>1, <2>2
<1>13. QED
  BY <1>4, <1>6, <1>7, <1>8, <1>9, <1>11, <1>12 DEF Fetches, RobotsArrive, RobotsUnread

\* A page that robots.txt forbids is never requested unless the file could not be
\* read, however checks, fills of the cache, waits and retries of any number of
\* callers interleave (RobotsHeard).
THEOREM RobotsAreHeard == ScrapeSpec => RobotsHeard
<1>1. ScrapeInv /\ [ScrapeNext]_scraping
      => [\A c \in Callers : Requested(c) /\ policy[Domain(c)] = "forbids"
                             => Domain(c) \in misread']_scraping
  BY RequestsAreFit DEF Heard
<1>2. QED
  BY <1>1, ScrapeSafe, PTL DEF ScrapeSpec, RobotsHeard

\* Requests to a domain are a delay apart, but for waits and back-offs that met
\* another's request and for the request after a retry (Spaced).
THEOREM RequestsAreSpaced == ScrapeSpec => Spaced
<1>1. ScrapeInv /\ [ScrapeNext]_scraping
      => [\A c \in Callers :
            /\ Requested(c)
            /\ call[c].pc \in {"wait", "backoff"} => call[c].alone
            /\ ~At(c, "backoff") => Domain(c) \notin retried
            => since[Domain(c)] = Delay]_scraping
  BY RequestsAreFit DEF InTime
<1>2. QED
  BY <1>1, ScrapeSafe, PTL DEF ScrapeSpec, Spaced

-----------------------------------------------------------------------------
(***************************************************************************)
(* What is picked from the rows of a page.                                 *)
(***************************************************************************)

\* Every n up to their number is the rank of one of a finite set of numbers.
LEMMA RanksExist ==
  ASSUME NEW places, places \subseteq Nat, IsFiniteSet(places),
         NEW n \in 1..Cardinality(places)
  PROVE  \E i \in places : Cardinality({j \in places : j <= i}) = n
<1> DEFINE Below(i) == {j \in places : j <= i}
           N == Cardinality(places)
           rank == [i \in places |-> Cardinality(Below(i))]
<1>0. \A i \in places : i \in Nat
  OBVIOUS
<1>1. N \in Nat
  BY FS_CardinalityType
<1>2. \A i \in places : IsFiniteSet(Below(i)) /\ Cardinality(Below(i)) \in 1..N
  <2>1. SUFFICES ASSUME NEW i \in places
                 PROVE IsFiniteSet(Below(i)) /\ Cardinality(Below(i)) \in 1..N
    OBVIOUS
  <2>2. Below(i) \in SUBSET places /\ Below(i) # {}
    OBVIOUS
  <2> HIDE DEF Below
  <2>3. IsFiniteSet(Below(i)) /\ Cardinality(Below(i)) <= N
    BY <2>2, FS_Subset
  <2>4. Cardinality(Below(i)) # 0 /\ Cardinality(Below(i)) \in Nat
    BY <2>2, <2>3, FS_EmptySet, FS_CardinalityType
  <2>5. QED
    BY <1>1, <2>3, <2>4
<1>3. ASSUME NEW i \in places, NEW k \in places, i < k
      PROVE Cardinality(Below(i)) # Cardinality(Below(k))
  <2>1. Below(i) \in SUBSET Below(k) /\ k \in Below(k) /\ k \notin Below(i)
    <3>1. \A j \in places : j <= i => j <= k
      BY <1>0, <1>3
    <3>2. k <= k /\ ~(k <= i)
      BY <1>0, <1>3
    <3>3. QED
      BY <3>1, <3>2
  <2>2. IsFiniteSet(Below(k))
    BY <1>2
  <2> HIDE DEF Below
  <2>3. Cardinality(Below(k)) = Cardinality(Below(i)) => Below(k) = Below(i)
    BY <2>1, <2>2, FS_Subset, Zenon
  <2>4. QED
    BY <2>1, <2>3
<1>4. rank \in Injection(places, 1..N)
  <2>1. rank \in [places -> 1..N]
    BY <1>2
  <2>2. ASSUME NEW i \in places, NEW k \in places, rank[i] = rank[k] PROVE i = k
    <3>1. i < k \/ k < i \/ i = k
      OBVIOUS
    <3> HIDE DEF Below
    <3>2. QED
      BY <1>3, <2>2, <3>1
  <2> HIDE DEF rank
  <2>3. QED
    BY <2>1, <2>2 DEF Injection, IsInjective
<1>5. IsFiniteSet(1..N) /\ Cardinality(1..N) = N
  BY <1>1, FS_Interval
<1>6. rank \in Surjection(places, 1..N)
  <2> HIDE DEF rank, N
  <2>1. Cardinality(places) = Cardinality(1..N)
    BY <1>5 DEF N
  <2>2. QED
    BY <1>4, <1>5, <2>1, FS_Injection, Zenon
<1>7. \E i \in places : rank[i] = n
  <2> HIDE DEF rank
  <2>1. QED
    BY <1>6 DEF Surjection
<1>8. QED
  BY <1>7

\* What a filter leaves are elements at the places it keeps.
TakenFrom(t, s, places) == \A n \in DOMAIN t : \E i \in places : t[n] = s[i]

LEMMA PickedAreOfPlaces ==
  ASSUME NEW s, NEW places, places \subseteq Nat, IsFiniteSet(places)
  PROVE  /\ DOMAIN Picked(s, places) = 1..Cardinality(places)
         /\ TakenFrom(Picked(s, places), s, places)
<1>1. ASSUME NEW n \in 1..Cardinality(places)
      PROVE \E i \in places : Picked(s, places)[n] = s[i]
  <2> DEFINE at == CHOOSE i \in places : Cardinality({j \in places : j <= i}) = n
  <2>1. at \in places
    BY RanksExist
  <2>2. Picked(s, places)[n] = s[at]
    BY DEF Picked
  <2> HIDE DEF at
  <2>3. QED
    BY <2>1, <2>2
<1>2. QED
  BY <1>1 DEF Picked, TakenFrom

\* A page has rows.
HasRows(page) == IsSequence(page.rows)

\* What a source gives, but for the MLB, are games of the teams asked for.
AllAsked(games, codes) ==
  \A i \in DOMAIN games : Asked(codes, games[i].away, games[i].home)

LEMMA PickedAreAsked ==
  ASSUME NEW s, NEW places, places \subseteq Nat, IsFiniteSet(places), NEW codes,
         \A i \in places : Asked(codes, s[i].away, s[i].home)
  PROVE  AllAsked(Picked(s, places), codes)
<1>1. TakenFrom(Picked(s, places), s, places)
  BY PickedAreOfPlaces, Zenon
<1>2. QED
  BY <1>1 DEF AllAsked, TakenFrom

\* A set of places of a finite sequence is finite.
LEMMA PlacesAreFinite ==
  ASSUME NEW n \in Nat, NEW places, places \subseteq 1..n
  PROVE  IsFiniteSet(places) /\ places \subseteq Nat
<1>1. IsFiniteSet(1..n)
  BY FS_Interval
<1>2. places \in SUBSET (1..n) /\ places \subseteq Nat
  OBVIOUS
<1>3. QED
  BY <1>1, <1>2, FS_Subset, Zenon

LEMMA RowsAreFinite ==
  ASSUME NEW page, HasRows(page), NEW places, places \subseteq DOMAIN page.rows
  PROVE  IsFiniteSet(places) /\ places \subseteq Nat
<1>1. DOMAIN page.rows = 1..Len(page.rows) /\ Len(page.rows) \in Nat
  BY DEF HasRows, IsSequence
<1>2. QED
  BY <1>1, PlacesAreFinite

LEMMA CardsAreAsked ==
  ASSUME NEW league, NEW source, NEW page, HasRows(page), NEW codes
  PROVE  /\ AllAsked(Cards(league, source, page, codes), codes)
         /\ \E n \in Nat : DOMAIN Cards(league, source, page, codes) = 1..n
<1> DEFINE cards == [i \in DOMAIN page.rows |-> CardGame(league, source, page.rows[i])]
           places == {i \in DOMAIN cards : /\ Asked(codes, cards[i].away, cards[i].home)
                                           /\ Kept(league, cards[i])}
<1>1. Cards(league, source, page, codes) = Picked(cards, places)
  BY DEF Cards
<1>2. places \subseteq DOMAIN page.rows
  OBVIOUS
<1>3. \A i \in places : Asked(codes, cards[i].away, cards[i].home)
  OBVIOUS
<1> HIDE DEF cards, places
<1>4. IsFiniteSet(places) /\ places \subseteq Nat
  BY <1>2, RowsAreFinite
<1>5. Cardinality(places) \in Nat
  BY <1>4, FS_CardinalityType
<1>6. AllAsked(Picked(cards, places), codes)
  BY <1>3, <1>4, PickedAreAsked, Zenon
<1>7. DOMAIN Picked(cards, places) = 1..Cardinality(places)
  BY <1>4, PickedAreOfPlaces, Zenon
<1>8. QED
  BY <1>1, <1>5, <1>6, <1>7

LEMMA EventsAreAsked ==
  ASSUME NEW page, HasRows(page), NEW codes
  PROVE  AllAsked(Events("NHL", page, codes), codes)
<1> DEFINE events == [i \in DOMAIN page.rows |-> EventGame("NHL", page.rows[i])]
           places == {i \in DOMAIN events : /\ EventAsked("NHL", page.rows[i], codes)
                                            /\ Kept("NHL", events[i])}
<1>1. Events("NHL", page, codes) = Picked(events, places)
  BY DEF Events
<1>2. places \subseteq DOMAIN page.rows
  OBVIOUS
<1>3. ASSUME NEW i \in places PROVE Asked(codes, events[i].away, events[i].home)
  <2>1. EventAsked("NHL", page.rows[i], codes) /\ events[i] = EventGame("NHL", page.rows[i])
    OBVIOUS
  <2> HIDE DEF events, places
  <2>2. QED
    <3> DEFINE game == EventGame("NHL", page.rows[i])
    <3>1. codes = {} \/ CodeOf(game.away) \in codes \/ CodeOf(game.home) \in codes
      <4> HIDE DEF game
      <4>1. QED
        BY <2>1 DEF EventAsked, game
    <3>2. QED
      BY <2>1, <3>1 DEF Asked
<1> HIDE DEF events, places
<1>4. IsFiniteSet(places) /\ places \subseteq Nat
  BY <1>2, RowsAreFinite
<1>5. QED
  BY <1>1, <1>3, <1>4, PickedAreAsked

LEMMA FirstOfAsked ==
  ASSUME NEW games, NEW n \in Nat, DOMAIN games = 1..n, NEW codes, AllAsked(games, codes)
  PROVE  AllAsked(FirstOf(games, Teams), codes)
<1> DEFINE places == {i \in DOMAIN games :
                        \A j \in 1..(i - 1) : Teams(games[j]) # Teams(games[i])}
<1>1. FirstOf(games, Teams) = Picked(games, places)
  BY DEF FirstOf
<1>2. places \subseteq 1..n /\ \A i \in places : Asked(codes, games[i].away, games[i].home)
  BY DEF AllAsked
<1> HIDE DEF places
<1>3. IsFiniteSet(places) /\ places \subseteq Nat
  BY <1>2, PlacesAreFinite
<1>4. QED
  BY <1>1, <1>2, <1>3, PickedAreAsked

LEMMA ScrapedAreAsked ==
  ASSUME NEW league \in {"NBA", "NFL", "NHL"}, NEW stop \in Stops, NEW page, HasRows(page),
         NEW codes
  PROVE  AllAsked(Scrape(league, stop, page, codes), codes)
<1>1. CASE league = "NBA"
  BY <1>1, CardsAreAsked DEF Scrape, NbaCBS, NbaESPN
<1>2. CASE league = "NFL"
  BY <1>2, CardsAreAsked DEF Scrape, NflCBS, NflESPN
<1>3. CASE league = "NHL"
  <2>1. AllAsked(NhlJSON(page, codes), codes)
    BY EventsAreAsked DEF NhlJSON
  <2>2. AllAsked(NhlESPN(page, codes), codes)
    BY CardsAreAsked, FirstOfAsked DEF NhlESPN
  <2>3. AllAsked(NhlCBS(page, codes), codes)
    BY CardsAreAsked, FirstOfAsked DEF NhlCBS
  <2>4. Scrape(league, stop, page, codes) \in
          {NhlJSON(page, codes), NhlESPN(page, codes), NhlCBS(page, codes)}
    BY <1>3 DEF Scrape, Stops
  <2>5. QED
    BY <2>1, <2>2, <2>3, <2>4
<1>4. QED
  BY <1>1, <1>2, <1>3

-----------------------------------------------------------------------------
(***************************************************************************)
(* What the pages say, and what is made of it.                             *)
(***************************************************************************)

\* The parts of a concatenation.
Joins(a, b) ==
  /\ Len(a) \in Nat /\ Len(b) \in Nat
  /\ Len(a \o b) = Len(a) + Len(b)
  /\ \A i \in 1..Len(a) : (a \o b)[i] = a[i]
  /\ \A k \in 1..Len(b) : (a \o b)[Len(a) + k] = b[k]

LEMMA ConcatParts ==
  ASSUME NEW S, NEW a \in Seq(S), NEW b \in Seq(S)
  PROVE  a \o b \in Seq(S) /\ Joins(a, b)
<1>1. /\ a \o b \in Seq(S) /\ Len(a) \in Nat /\ Len(b) \in Nat
      /\ Len(a \o b) = Len(a) + Len(b)
      /\ \A i \in 1..(Len(a) + Len(b)) : 
            (a \o b)[i] = IF i <= Len(a) THEN a[i] ELSE b[i - Len(a)]
  BY ConcatProperties
<1>2. \A i \in 1..Len(a) : (a \o b)[i] = a[i]
  BY <1>1
<1>3. \A k \in 1..Len(b) : (a \o b)[Len(a) + k] = b[k]
  <2>1. \A k \in 1..Len(b) : /\ Len(a) + k \in 1..(Len(a) + Len(b))
                             /\ ~(Len(a) + k <= Len(a)) /\ (Len(a) + k) - Len(a) = k
    BY <1>1
  <2>2. QED
    BY <1>1, <2>1
<1>4. QED
  BY <1>1, <1>2, <1>3 DEF Joins

LEMMA TwoMore ==
  ASSUME NEW S, NEW u \in Seq(S), NEW p \in S, NEW q \in S
  PROVE  /\ Len(u \o <<p, q>>) = Len(u) + 2 /\ Len(u) \in Nat
         /\ (u \o <<p, q>>)[Len(u) + 1] = p /\ (u \o <<p, q>>)[Len(u) + 2] = q
<1> DEFINE w == <<p, q>>
<1>1. w \in Seq(S) /\ Len(w) = 2 /\ w[1] = p /\ w[2] = q
  OBVIOUS
<1> HIDE DEF w
<1>2. /\ Len(u \o w) = Len(u) + Len(w) /\ Len(u) \in Nat
      /\ \A k \in 1..Len(w) : (u \o w)[Len(u) + k] = w[k]
  <2>1. Joins(u, w)
    BY <1>1, ConcatParts, Zenon
  <2>2. QED
    BY <2>1 DEF Joins
<1>3. 1 \in 1..Len(w) /\ 2 \in 1..Len(w)
  BY <1>1
<1>4. QED
  BY <1>1, <1>2, <1>3 DEF w

LEMMA OneIsASequence == ASSUME NEW x PROVE IsSequence(<<x>>)
<1>1. ToSet(<<x>>) = {x}
  BY DEF ToSet
<1>2. <<x>> \in Seq({x})
  OBVIOUS
<1>3. QED
  BY <1>1, <1>2 DEF IsSequence

\* An id of two parts is the league and the code of the team.
LEMMA ShortIds ==
  ASSUME NEW name, IsSequence(name), NEW league, Len(MapTeam(name, league)) = 2
  PROVE  MapTeam(name, league) = <<league, CodeOf(MapTeam(name, league))>>
<1>1. CASE name \in DOMAIN Table[league]
  BY <1>1 DEF MapTeam, CodeOf
<1>2. CASE name \notin DOMAIN Table[league]
  <2>1. MapTeam(name, league) = <<league>> \o name
    BY <1>2 DEF MapTeam
  <2> DEFINE t == <<league>> \o name
             U == ToSet(name) \cup {league}
  <2>2. <<league>> \in Seq(U) /\ name \in Seq(U)
    <3>1. <<league>> \in Seq({league})
      OBVIOUS
    <3>2. name \in Seq(ToSet(name))
      BY DEF IsSequence
    <3>3. QED
      BY <3>1, <3>2, SeqMonotonic
  <2>3. t \in Seq(U) /\ t[1] = league
    <3> HIDE DEF U
    <3>1. QED
      BY <2>2, ConcatProperties
  <2>4. Len(t) = 2
    BY <2>1
  <2> HIDE DEF t, U
  <2>5. t = <<t[1], t[2]>>
    BY <2>3, <2>4
  <2>6. QED
    BY <2>1, <2>3, <2>5 DEF CodeOf, t
<1>3. QED
  BY <1>1, <1>2

\* Ids built from codes and a day that are the same have the same codes.
SameCodes(a, b, x, y) == CodeOf(a) = CodeOf(x) /\ CodeOf(b) = CodeOf(y)

LEMMA StableIdsDiffer ==
  ASSUME NEW l, NEW s, NEW a, NEW b, NEW x, NEW y, NEW D, NEW d \in Seq(D), NEW e \in Seq(D),
         StableId(l, s, a, b, d) = StableId(l, s, x, y, e)
  PROVE  SameCodes(a, b, x, y)
<1> DEFINE U == D \cup {l, s, CodeOf(a), CodeOf(b), CodeOf(x), CodeOf(y)}
           Id(f, p, q) == <<l, s>> \o f \o <<p, q>>
<1>1. ASSUME NEW f \in Seq(D), NEW p \in U, NEW q \in U
      PROVE LET n == Len(f) + 4 IN
            n \in Nat /\ Len(Id(f, p, q)) = n /\ Id(f, p, q)[n - 1] = p /\ Id(f, p, q)[n] = q
  <2>1. f \in Seq(U) /\ <<l, s>> \in Seq(U) /\ <<p, q>> \in Seq(U)
    <3>1. D \subseteq U /\ l \in U /\ s \in U
      OBVIOUS
    <3> HIDE DEF U
    <3>2. f \in Seq(U)
      BY <3>1, SeqMonotonic, Zenon
    <3>3. QED
      BY <3>1, <3>2
  <2>2. Len(<<l, s>>) = 2 /\ Len(<<p, q>>) = 2 /\ <<p, q>>[1] = p /\ <<p, q>>[2] = q
    OBVIOUS
  <2> HIDE DEF U
  <2> DEFINE u == <<l, s>> \o f
  <2>3. u \in Seq(U) /\ Len(u) = 2 + Len(f) /\ Len(f) \in Nat
    BY <2>1, <2>2, ConcatProperties
  <2> HIDE DEF u
  <2>4. /\ Len(u \o <<p, q>>) = Len(u) + 2
        /\ (u \o <<p, q>>)[Len(u) + 1] = p /\ (u \o <<p, q>>)[Len(u) + 2] = q
    BY <2>3, TwoMore
  <2>5. Len(u) + 2 = Len(f) + 4 /\ Len(u) + 1 = Len(f) + 4 - 1
    BY <2>3
  <2>6. QED
    BY <2>3, <2>4, <2>5 DEF u
<1>2. Id(d, CodeOf(a), CodeOf(b)) = Id(e, CodeOf(x), CodeOf(y))
  BY DEF StableId
<1>3. {CodeOf(a), CodeOf(b), CodeOf(x), CodeOf(y)} \subseteq U
  OBVIOUS
<1> HIDE DEF Id, U
<1>4. LET i == Id(d, CodeOf(a), CodeOf(b))
          n == Len(d) + 4
      IN Len(i) = n /\ i[n - 1] = CodeOf(a) /\ i[n] = CodeOf(b)
  BY <1>1, <1>3
<1>5. LET i == Id(e, CodeOf(x), CodeOf(y))
          n == Len(e) + 4
      IN Len(i) = n /\ i[n - 1] = CodeOf(x) /\ i[n] = CodeOf(y)
  BY <1>1, <1>3
<1>6. Len(d) + 4 = Len(e) + 4
  BY <1>2, <1>4, <1>5
<1>7. QED
  BY <1>2, <1>4, <1>5, <1>6 DEF SameCodes

\* Two games that would be stored as one are between the same teams.
Apart(g, h) ==
  g.id = h.id /\ (\A id \in {g.away, g.home, h.away, h.home} : Len(id) = 2)
  => Teams(g) = Teams(h)

\* Games are apart that have stable ids of one source.
LEMMA StableApart ==
  ASSUME NEW l, NEW s, NEW D, NEW d \in Seq(D), NEW e \in Seq(D), 
         NEW na, IsSequence(na), NEW nb, IsSequence(nb),
         NEW nx, IsSequence(nx), NEW ny, IsSequence(ny),
         NEW g, NEW h,
         g.away = MapTeam(na, l), g.home = MapTeam(nb, l),
         h.away = MapTeam(nx, l), h.home = MapTeam(ny, l),
         g.id = StableId(l, s, g.away, g.home, d), h.id = StableId(l, s, h.away, h.home, e)
  PROVE  Apart(g, h)
<1> SUFFICES ASSUME g.id = h.id, \A id \in {g.away, g.home, h.away, h.home} : Len(id) = 2
             PROVE  g.away = h.away /\ g.home = h.home
  BY DEF Apart, Teams
<1>1. CodeOf(g.away) = CodeOf(h.away) /\ CodeOf(g.home) = CodeOf(h.home)
  <2>1. StableId(l, s, g.away, g.home, d) = StableId(l, s, h.away, h.home, e)
    OBVIOUS
  <2>2. SameCodes(g.away, g.home, h.away, h.home)
    BY <2>1, StableIdsDiffer, Zenon
  <2>3. QED
    BY <2>2 DEF SameCodes
<1>2. g.away = <<l, CodeOf(g.away)>> /\ g.home = <<l, CodeOf(g.home)>>
  BY ShortIds
<1>3. h.away = <<l, CodeOf(h.away)>> /\ h.home = <<l, CodeOf(h.home)>>
  BY ShortIds
<1>4. QED
  BY <1>1, <1>2, <1>3

WellFormed(stop, page) ==
  /\ HasRows(page) /\ IsSequence(page.links)
  /\ \A row \in ToSet(page.rows) : IsSequence(row.away) /\ IsSequence(row.home)
  /\ \A link \in ToSet(page.links) : IsSequence(link.away)
  /\ stop \in {"json", "alt"} => Scoreboard(page.rows)

AllApart(games) == \A i, j \in DOMAIN games : Apart(games[i], games[j])

\* The cards of a document are apart.
LEMMA CardsApart ==
  ASSUME NEW league, NEW source, NEW row, NEW other,
         IsSequence(row.away), IsSequence(row.home),
         IsSequence(other.away), IsSequence(other.home)
  PROVE  Apart(CardGame(league, source, row), CardGame(league, source, other))
<1> DEFINE g == CardGame(league, source, row)
           h == CardGame(league, source, other)
           d == ScheduledStart(row.text)
           e == ScheduledStart(other.text)
           D == {"today", "tomorrow"}
<1>1. d \in Seq(D) /\ e \in Seq(D)
  <2>1. <<>> \in Seq(D) /\ <<"today">> \in Seq(D) /\ <<"tomorrow">> \in Seq(D)
    OBVIOUS
  <2>2. \A text : ScheduledStart(text) \in {<<>>, <<"today">>, <<"tomorrow">>}
    BY DEF ScheduledStart
  <2>3. QED
    BY <2>1, <2>2
<1>2. /\ g.away = MapTeam(row.away, league) /\ g.home = MapTeam(row.home, league)
      /\ g.id = StableId(league, source, g.away, g.home, d)
  BY DEF CardGame, GameOf
<1>3. /\ h.away = MapTeam(other.away, league) /\ h.home = MapTeam(other.home, league)
      /\ h.id = StableId(league, source, h.away, h.home, e)
  BY DEF CardGame, GameOf
<1> HIDE DEF g, h, d, e, D
<1>4. Apart(g, h)
  BY <1>1, <1>2, <1>3, StableApart
<1>5. QED
  BY <1>4 DEF g, h

\* A card that is scheduled shows no clock, where times of day do not pass for one.
Quiet(g) == g.status = "scheduled" => ~g.clock

LEMMA CardsQuiet ==
  ASSUME NEW league \in {"NBA", "NHL"}, NEW source, NEW row
  PROVE  Quiet(CardGame(league, source, row))
<1> DEFINE g == CardGame(league, source, row)
           text == row.text
<1>1. g.status = MapStatus(league, text) /\ g.clock = ExtractClock(league, source, text)
  BY DEF CardGame, GameOf
<1> HIDE DEF g, text
<1>2. CASE league = "NBA"
  <2>1. SUFFICES ASSUME MapStatus(league, text) = "scheduled"
        PROVE ~NbaClock(text)
    BY <1>1, <1>2 DEF ExtractClock, Quiet, g
  <2>2. ~Shows(text, {"quarter", "ordinal", "half", "live", "clock"})
    BY <1>2, <2>1 DEF MapStatus, NbaStatus, Status
  <2>3. QED
    BY <2>2 DEF Shows, NbaClock
<1>3. CASE league = "NHL"
  <2>1. SUFFICES ASSUME MapStatus(league, text) = "scheduled"
        PROVE ~NhlClock(text)
    BY <1>1, <1>3 DEF ExtractClock, Quiet, g
  <2>2. ~Shows(text, {"ordinal", "overtime", "shootout", "period", "intermission", "clock",
                      "live"})
    BY <1>3, <2>1 DEF MapStatus, NhlStatus, Status
  <2>3. QED
    BY <2>2 DEF Shows, NhlClock
<1>4. QED
  BY <1>2, <1>3

\* Games that each are a card of the page.
AreCards(games, league, source, page) ==
  \A n \in DOMAIN games :
    \E row \in ToSet(page.rows) : games[n] = CardGame(league, source, row)

LEMMA CardsAreCards ==
  ASSUME NEW league, NEW source, NEW page, HasRows(page), NEW codes
  PROVE  AreCards(Cards(league, source, page, codes), league, source, page)
<1> DEFINE cards == [i \in DOMAIN page.rows |-> CardGame(league, source, page.rows[i])]
           places == {i \in DOMAIN cards : /\ Asked(codes, cards[i].away, cards[i].home)
                                           /\ Kept(league, cards[i])}
<1>1. Cards(league, source, page, codes) = Picked(cards, places)
  BY DEF Cards
<1>2. places \subseteq DOMAIN page.rows
  OBVIOUS
<1>3. \A i \in places : \E row \in ToSet(page.rows) : cards[i] = CardGame(league, source, row)
  BY DEF ToSet
<1> HIDE DEF cards, places
<1>4. IsFiniteSet(places) /\ places \subseteq Nat
  BY <1>2, RowsAreFinite
<1>5. TakenFrom(Picked(cards, places), cards, places)
  BY <1>4, PickedAreOfPlaces, Zenon
<1>6. QED
  BY <1>1, <1>3, <1>5 DEF TakenFrom, AreCards

\* FirstOf takes from the games it is given.
LEMMA FirstOfTakes ==
  ASSUME NEW games, NEW n \in Nat, DOMAIN games = 1..n
  PROVE  TakenFrom(FirstOf(games, Teams), games, DOMAIN games)
<1> DEFINE places == {i \in DOMAIN games :
                        \A j \in 1..(i - 1) : Teams(games[j]) # Teams(games[i])}
<1>1. FirstOf(games, Teams) = Picked(games, places)
  BY DEF FirstOf
<1>2. places \subseteq 1..n /\ places \subseteq DOMAIN games
  OBVIOUS
<1> HIDE DEF places
<1>3. IsFiniteSet(places) /\ places \subseteq Nat
  BY <1>2, PlacesAreFinite
<1>4. TakenFrom(Picked(games, places), games, places)
  BY <1>3, PickedAreOfPlaces, Zenon
<1>5. QED
  BY <1>1, <1>2, <1>4 DEF TakenFrom

LEMMA FirstCardsAreCards ==
  ASSUME NEW league, NEW source, NEW page, HasRows(page), NEW codes
  PROVE  AreCards(FirstOf(Cards(league, source, page, codes), Teams), league, source, page)
<1>1. TakenFrom(FirstOf(Cards(league, source, page, codes), Teams),
                Cards(league, source, page, codes), DOMAIN Cards(league, source, page, codes))
  BY CardsAreAsked, FirstOfTakes
<1>2. QED
  BY <1>1, CardsAreCards DEF TakenFrom, AreCards

\* What a document gives is apart, and quiet in the NBA and the NHL.
LEMMA CardsRight ==
  ASSUME NEW league, NEW source, NEW stop, NEW page, WellFormed(stop, page), NEW games,
         AreCards(games, league, source, page)
  PROVE  /\ AllApart(games)
         /\ league \in {"NBA", "NHL"} => \A n \in DOMAIN games : Quiet(games[n])
<1>1. ASSUME NEW i \in DOMAIN games, NEW j \in DOMAIN games PROVE Apart(games[i], games[j])
  <2>1. PICK row \in ToSet(page.rows) : games[i] = CardGame(league, source, row)
    BY DEF AreCards
  <2>2. PICK other \in ToSet(page.rows) : games[j] = CardGame(league, source, other)
    BY DEF AreCards
  <2>3. /\ IsSequence(row.away) /\ IsSequence(row.home)
        /\ IsSequence(other.away) /\ IsSequence(other.home)
    BY DEF WellFormed
  <2>4. QED
    BY <2>1, <2>2, <2>3, CardsApart
<1>2. ASSUME league \in {"NBA", "NHL"}, NEW n \in DOMAIN games PROVE Quiet(games[n])
  BY <1>2, CardsQuiet DEF AreCards
<1>3. QED
  BY <1>1, <1>2 DEF AllApart

\* An event's teams are names that the mapper knows or takes apart.
EventTeam(league, name, abbr) ==
  IF league = "MLB" THEN MlbEventTeam(name, abbr) ELSE NhlEventTeam(name, abbr)

LEMMA EventFields ==
  ASSUME NEW league, NEW row
  PROVE  LET g == EventGame(league, row) IN
         /\ g.away = EventTeam(league, row.away, row.awayAbbr)
         /\ g.home = EventTeam(league, row.home, row.homeAbbr)
         /\ g.id = EventId(league, row, g.away, g.home)
BY DEF EventGame, EventTeam, GameOf

\* The parts of an id of two teams, as the NHL builds it.
LEMMA PartsOfPair ==
  ASSUME NEW p, NEW q, NEW u, NEW v, NEW x
  PROVE  LET id == <<p, q>> \o <<p, u>> \o <<p, v>> \o <<x>>
         IN Len(id) = 7 /\ id[4] = u /\ id[6] = v
<1> DEFINE S == {p, q, u, v, x}
           a == <<p, q>>
           b == <<p, u>>
           c == <<p, v>>
           d == <<x>>
<1>1. /\ a \in Seq(S) /\ b \in Seq(S) /\ c \in Seq(S) /\ d \in Seq(S)
      /\ Len(a) = 2 /\ Len(b) = 2 /\ Len(c) = 2 /\ Len(d) = 1
      /\ b[2] = u /\ c[2] = v
  OBVIOUS
<1> HIDE DEF S, a, b, c, d
<1>2. a \o b \in Seq(S) /\ Len(a \o b) = 4 /\ (a \o b)[4] = u
  <2>1. a \o b \in Seq(S) /\ Joins(a, b)
    BY <1>1, ConcatParts
  <2>2. 2 \in 1..Len(b) /\ Len(a) + 2 = 4
    BY <1>1
  <2>3. QED
    BY <1>1, <2>1, <2>2 DEF Joins
<1>3. /\ a \o b \o c \in Seq(S) /\ Len(a \o b \o c) = 6
      /\ (a \o b \o c)[4] = u /\ (a \o b \o c)[6] = v
  <2> DEFINE ab == a \o b
  <2> HIDE DEF ab
  <2>1. ab \o c \in Seq(S) /\ Joins(ab, c)
    BY <1>1, <1>2, ConcatParts DEF ab
  <2>2. 2 \in 1..Len(c) /\ Len(ab) + 2 = 6 /\ 4 \in 1..Len(ab)
    BY <1>1, <1>2 DEF ab
  <2>3. QED
    BY <1>1, <1>2, <2>1, <2>2 DEF ab, Joins
<1>4. /\ Len(a \o b \o c \o d) = 7
      /\ (a \o b \o c \o d)[4] = u /\ (a \o b \o c \o d)[6] = v
  <2> DEFINE abc == a \o b \o c
  <2> HIDE DEF abc
  <2>1. Joins(abc, d)
    BY <1>1, <1>3, ConcatParts DEF abc
  <2>2. 6 \in 1..Len(abc) /\ 4 \in 1..Len(abc)
    BY <1>3 DEF abc
  <2>3. QED
    BY <1>1, <1>3, <2>1, <2>2 DEF abc, Joins
<1>5. QED
  BY <1>4 DEF a, b, c, d

\* The events of a scoreboard are apart: by their ids, or else by their teams.
LEMMA EventsApart ==
  ASSUME NEW league \in {"MLB", "NHL"}, NEW rows, Scoreboard(rows),
         NEW row \in ToSet(rows), NEW other \in ToSet(rows),
         IsSequence(row.away), IsSequence(row.home),
         IsSequence(other.away), IsSequence(other.home)
  PROVE  Apart(EventGame(league, row), EventGame(league, other))
<1> DEFINE g == EventGame(league, row)
           h == EventGame(league, other)
<1>1. /\ g.away = EventTeam(league, row.away, row.awayAbbr)
      /\ g.home = EventTeam(league, row.home, row.homeAbbr)
      /\ g.id = EventId(league, row, g.away, g.home)
  BY EventFields
<1>2. /\ h.away = EventTeam(league, other.away, other.awayAbbr)
      /\ h.home = EventTeam(league, other.home, other.homeAbbr)
      /\ h.id = EventId(league, other, h.away, h.home)
  BY EventFields
<1>3. /\ IsSequence(row.awayAbbr) /\ IsSequence(row.homeAbbr)
      /\ IsSequence(other.awayAbbr) /\ IsSequence(other.homeAbbr)
      /\ IsSequence(row.date) /\ IsSequence(other.date)
  BY DEF Scoreboard
<1> HIDE DEF g, h
<1>4. SUFFICES ASSUME g.id = h.id, \A id \in {g.away, g.home, h.away, h.home} : Len(id) = 2
               PROVE  g.away = h.away /\ g.home = h.home
  BY DEF Apart, Teams, g, h
\* The team ids, whatever they were made from.
<1>5. /\ g.away = <<league, CodeOf(g.away)>> /\ g.home = <<league, CodeOf(g.home)>>
      /\ h.away = <<league, CodeOf(h.away)>> /\ h.home = <<league, CodeOf(h.home)>>
  <2>1. ASSUME NEW name, IsSequence(name), NEW abbr, IsSequence(abbr),
               NEW id, id = EventTeam(league, name, abbr), Len(id) = 2
        PROVE id = <<league, CodeOf(id)>>
    <3>1. CASE league = "MLB"
      <4>1. id = MapTeam(name, "MLB") \/ id = MapTeam(abbr, "MLB")
        BY <2>1, <3>1 DEF EventTeam, MlbEventTeam
      <4>2. QED
        BY <2>1, <3>1, <4>1, ShortIds
    <3>2. CASE league = "NHL"
      <4> DEFINE code == CodeOf(MapTeam(name, "NHL"))
      <4>1. id = MapTeam(abbr, "NHL") \/ id = MapTeam(<<code>>, "NHL")
        BY <2>1, <3>2 DEF EventTeam, NhlEventTeam
      <4>2. IsSequence(<<code>>)
        BY OneIsASequence
      <4> HIDE DEF code
      <4>3. QED
        BY <2>1, <3>2, <4>1, <4>2, ShortIds
    <3>3. QED
      BY <3>1, <3>2
  <2>2. QED
    BY <1>1, <1>2, <1>3, <1>4, <2>1
<1>6. CASE row.id # "" /\ other.id # ""
  <2>1. g.id = <<league, "ESPN", row.id>> /\ h.id = <<league, "ESPN", other.id>>
    BY <1>1, <1>2, <1>6 DEF EventId
  <2>2. row.id = other.id
    <3>1. <<league, "ESPN", row.id>>[3] = row.id /\ <<league, "ESPN", other.id>>[3] = other.id
      OBVIOUS
    <3>2. QED
      BY <1>4, <2>1, <3>1
  <2>3. /\ row.away = other.away /\ row.awayAbbr = other.awayAbbr
        /\ row.home = other.home /\ row.homeAbbr = other.homeAbbr
    BY <1>6, <2>2 DEF Scoreboard
  <2>4. QED
    BY <1>1, <1>2, <2>3
\* Without the number of an event an id has more than three parts.
<1>7. CASE row.id = "" /\ other.id = ""
  <2>1. CASE league = "MLB"
    <3>1. /\ g.id = StableId("MLB", "ESPN", g.away, g.home, row.date)
          /\ h.id = StableId("MLB", "ESPN", h.away, h.home, other.date)
      BY <1>1, <1>2, <1>7, <2>1 DEF EventId
    <3>2. SameCodes(g.away, g.home, h.away, h.home)
      <4> DEFINE D == ToSet(row.date) \cup ToSet(other.date)
      <4>1. row.date \in Seq(D) /\ other.date \in Seq(D)
        BY <1>3, SeqMonotonic DEF IsSequence
      <4> HIDE DEF D
      <4>2. QED
        BY <1>4, <3>1, <4>1, StableIdsDiffer, Zenon
    <3>3. QED
      BY <1>5, <3>2 DEF SameCodes
  <2>2. CASE league = "NHL"
    <3>1. /\ g.id = <<league, "ESPN">> \o g.away \o g.home \o <<"now">>
          /\ h.id = <<league, "ESPN">> \o h.away \o h.home \o <<"now">>
      BY <1>1, <1>2, <1>7, <2>2 DEF EventId
    <3>2. /\ g.id = <<league, "ESPN">> \o <<league, CodeOf(g.away)>>
                    \o <<league, CodeOf(g.home)>> \o <<"now">>
          /\ h.id = <<league, "ESPN">> \o <<league, CodeOf(h.away)>>
                    \o <<league, CodeOf(h.home)>> \o <<"now">>
      BY <1>5, <3>1
    <3>3. /\ g.id[4] = CodeOf(g.away) /\ g.id[6] = CodeOf(g.home)
          /\ h.id[4] = CodeOf(h.away) /\ h.id[6] = CodeOf(h.home)
      BY <3>2, PartsOfPair
    <3>4. QED
      BY <1>4, <1>5, <3>3
  <2>3. QED
    BY <2>1, <2>2
<1>8. ASSUME NEW row1 \in {row, other}, row1.id = "", NEW a, NEW b,
             a = <<league, CodeOf(a)>>, b = <<league, CodeOf(b)>>
      PROVE  LET id == EventId(league, row1, a, b) IN Len(id) \in Nat /\ Len(id) > 3
  <2>1. CASE league = "MLB"
    <3> DEFINE D == ToSet(row1.date) \cup {"MLB", "ESPN", CodeOf(a), CodeOf(b)}
               u == <<"MLB", "ESPN">> \o row1.date
    <3>1. row1.date \in Seq(D)
      BY <1>3, SeqMonotonic DEF IsSequence
    <3>2. <<"MLB", "ESPN">> \in Seq(D) /\ Len(<<"MLB", "ESPN">>) = 2
          /\ CodeOf(a) \in D /\ CodeOf(b) \in D
      OBVIOUS
    <3> HIDE DEF D
    <3>3. u \in Seq(D) /\ Len(u) >= 2
      BY <3>1, <3>2, ConcatParts DEF Joins
    <3> HIDE DEF u
    <3>4. Len(u \o <<CodeOf(a), CodeOf(b)>>) = Len(u) + 2 /\ Len(u) \in Nat
      BY <3>2, <3>3, TwoMore
    <3>5. EventId(league, row1, a, b) = u \o <<CodeOf(a), CodeOf(b)>>
      BY <1>8, <2>1 DEF EventId, StableId, u
    <3>6. QED
      BY <3>3, <3>4, <3>5
  <2>2. CASE league = "NHL"
    <3>1. EventId(league, row1, a, b) =
            <<league, "ESPN">> \o <<league, CodeOf(a)>> \o <<league, CodeOf(b)>> \o <<"now">>
      BY <1>8, <2>2 DEF EventId
    <3>2. QED
      BY <3>1, PartsOfPair
  <2>3. QED
    BY <2>1, <2>2
<1>9. ASSUME NEW row1, row1.id # "", NEW a, NEW b PROVE Len(EventId(league, row1, a, b)) = 3
  <2>1. EventId(league, row1, a, b) = <<league, "ESPN", row1.id>>
    BY <1>9 DEF EventId
  <2>2. QED
    BY <2>1
<1>10. ~(row.id # "" /\ other.id = "") /\ ~(row.id = "" /\ other.id # "")
  <2>1. ASSUME row.id # "", other.id = "" PROVE FALSE
    <3>1. Len(g.id) = 3
      BY <1>1, <1>9, <2>1
    <3>2. Len(h.id) \in Nat /\ Len(h.id) > 3
      BY <1>2, <1>5, <1>8, <2>1
    <3>3. QED
      BY <1>4, <3>1, <3>2
  <2>2. ASSUME row.id = "", other.id # "" PROVE FALSE
    <3>1. Len(h.id) = 3
      BY <1>2, <1>9, <2>2
    <3>2. Len(g.id) \in Nat /\ Len(g.id) > 3
      BY <1>1, <1>5, <1>8, <2>2
    <3>3. QED
      BY <1>4, <3>1, <3>2
  <2>3. QED
    BY <2>1, <2>2
<1>11. QED
  BY <1>6, <1>7, <1>10

\* The events that are left are apart.
LEMMA EventsRight ==
  ASSUME NEW league \in {"MLB", "NHL"}, NEW page, WellFormed("json", page), NEW codes
  PROVE  AllApart(Events(league, page, codes))
<1> DEFINE events == [i \in DOMAIN page.rows |-> EventGame(league, page.rows[i])]
           places == {i \in DOMAIN events : /\ EventAsked(league, page.rows[i], codes)
                                            /\ Kept(league, events[i])}
<1>1. Events(league, page, codes) = Picked(events, places)
  BY DEF Events
<1>2. places \subseteq DOMAIN page.rows
  OBVIOUS
<1>3. ASSUME NEW i \in places, NEW j \in places PROVE Apart(events[i], events[j])
  <2>1. /\ events[i] = EventGame(league, page.rows[i])
        /\ events[j] = EventGame(league, page.rows[j])
        /\ page.rows[i] \in ToSet(page.rows) /\ page.rows[j] \in ToSet(page.rows)
    BY DEF ToSet
  <2> HIDE DEF events, places
  <2>2. QED
    BY <2>1, EventsApart DEF WellFormed
<1> HIDE DEF events, places
<1>4. IsFiniteSet(places) /\ places \subseteq Nat
  BY <1>2, RowsAreFinite DEF WellFormed
<1>5. TakenFrom(Picked(events, places), events, places)
  BY <1>4, PickedAreOfPlaces, Zenon
<1>6. QED
  BY <1>1, <1>3, <1>5 DEF TakenFrom, AllApart

\* So are the games of the preview links.
LEMMA PreviewsRight ==
  ASSUME NEW stop, NEW page, WellFormed(stop, page), NEW codes
  PROVE  AllApart(Previews(page, codes))
<1> DEFINE Away(link) == MapTeam(<<link.date>>, "MLB")
           Home(link) == MapTeam(link.away, "MLB")
           Game(link) == GameOf(StableId("MLB", "CBS", Away(link), Home(link), <<>>),
                                Away(link), Home(link), "scheduled", <<>>, FALSE, "now")
           games == [i \in DOMAIN page.links |-> Game(page.links[i])]
           places == {i \in DOMAIN games : Asked(codes, games[i].away, games[i].home)}
<1>1. Previews(page, codes) = Picked(games, places)
  BY DEF Previews
<1>2. places \subseteq DOMAIN page.links
  OBVIOUS
<1>3. ASSUME NEW i \in places, NEW j \in places PROVE Apart(games[i], games[j])
  <2>1. /\ games[i] = Game(page.links[i]) /\ games[j] = Game(page.links[j])
        /\ page.links[i] \in ToSet(page.links) /\ page.links[j] \in ToSet(page.links)
    BY DEF ToSet
  <2>2. ASSUME NEW x \in ToSet(page.links), NEW y \in ToSet(page.links)
        PROVE Apart(Game(x), Game(y))
    <3> DEFINE g == Game(x)
               h == Game(y)
    <3>1. IsSequence(x.away) /\ IsSequence(y.away)
      BY DEF WellFormed
    <3>0. IsSequence(<<x.date>>) /\ IsSequence(<<y.date>>)
      BY OneIsASequence
    <3>2. /\ g.away = Away(x) /\ g.home = Home(x)
          /\ g.id = StableId("MLB", "CBS", g.away, g.home, <<>>)
          /\ h.away = Away(y) /\ h.home = Home(y)
          /\ h.id = StableId("MLB", "CBS", h.away, h.home, <<>>)
      BY DEF GameOf
    <3>3. <<>> \in Seq({})
      BY EmptySeq
    <3> HIDE DEF g, h
    <3>4. Apart(g, h)
      BY <3>0, <3>1, <3>2, <3>3, StableApart
    <3>5. QED
      BY <3>4 DEF g, h
  <2> HIDE DEF games, places, Game
  <2>3. QED
    BY <2>1, <2>2
<1>4. IsFiniteSet(places) /\ places \subseteq Nat
  <2>1. DOMAIN page.links = 1..Len(page.links) /\ Len(page.links) \in Nat
    BY DEF WellFormed, IsSequence
  <2> HIDE DEF games, places
  <2>2. QED
    BY <1>2, <2>1, PlacesAreFinite
<1> HIDE DEF games, places
<1>5. TakenFrom(Picked(games, places), games, places)
  BY <1>4, PickedAreOfPlaces, Zenon
<1>6. QED
  BY <1>1, <1>3, <1>5 DEF TakenFrom, AllApart

\* What may be stored under its ids, and says nothing that contradicts its status.
BoardRight(league, stop, games) ==
  /\ AllApart(games)
  /\ league \in {"NBA", "NHL"} /\ stop \in {"dom", "cbs"} =>
       \A i \in DOMAIN games : Quiet(games[i])

LEMMA ScrapedIsRight ==
  ASSUME NEW league \in ScrapedLeagues, NEW stop \in Stops, stop = "alt" => league = "NHL",
         NEW page, WellFormed(stop, page), NEW codes
  PROVE  BoardRight(league, stop, Scrape(league, stop, page, codes))
<1> DEFINE games == Scrape(league, stop, page, codes)
<1>1. HasRows(page)
  BY DEF WellFormed
<1>2. ASSUME NEW source, AreCards(games, league, source, page)
      PROVE BoardRight(league, stop, games)
  <2> HIDE DEF games
  <2>1. QED
    BY <1>2, CardsRight DEF BoardRight
<1>3. CASE league \in {"NBA", "NFL"}
  <2>1. \/ games = Cards(league, "ESPN", page, codes)
        \/ games = Cards(league, "CBS", page, codes)
    BY <1>3 DEF Scrape, NbaCBS, NbaESPN, NflCBS, NflESPN
  <2> HIDE DEF games
  <2>2. QED
    BY <1>1, <1>2, <2>1, CardsAreCards DEF games
<1>4. CASE league = "NHL" /\ stop \in {"dom", "cbs"}
  <2>1. \/ games = FirstOf(Cards(league, "ESPN", page, codes), Teams)
        \/ games = FirstOf(Cards(league, "CBS", page, codes), Teams)
    BY <1>4 DEF Scrape, NhlESPN, NhlCBS
  <2> HIDE DEF games
  <2>2. QED
    BY <1>1, <1>2, <2>1, FirstCardsAreCards DEF games
<1>5. CASE league \in {"MLB", "NHL"} /\ stop \in {"json", "alt"}
  <2>1. games = Events(league, page, codes)
    BY <1>5 DEF Scrape, NhlJSON, MlbJSON
  <2>2. WellFormed("json", page)
    BY <1>5 DEF WellFormed
  <2> HIDE DEF games
  <2>3. AllApart(games)
    BY <1>5, <2>1, <2>2, EventsRight
  <2>4. QED
    BY <1>5, <2>3 DEF BoardRight, games
<1>6. CASE league = "MLB" /\ stop \in {"dom", "cbs"}
  <2>1. \/ games = Cards(league, "ESPN", page, codes)
        \/ games = Cards(league, "CBS", page, codes)
        \/ games = Previews(page, codes)
    BY <1>6 DEF Scrape, MlbESPN, MlbCBS
  <2> HIDE DEF games
  <2>2. CASE games = Previews(page, codes)
    <3>1. AllApart(games)
      BY <2>2, PreviewsRight
    <3>2. QED
      BY <1>6, <3>1 DEF BoardRight, games
  <2>3. QED
    BY <1>1, <1>2, <2>1, <2>2, CardsAreCards DEF games
<1>7. QED
  BY <1>3, <1>4, <1>5, <1>6 DEF ScrapedLeagues, Stops

-----------------------------------------------------------------------------
\* A call that is still looking has found no games at the sources it left, and the
\* first source of its league is one of them, unless it is there still.
Looking == {"robots", "fill"} \cup Underway

AnswerRight(r) ==
  /\ r.found = <<>> => {"cbs", FirstStop(r.league)} \subseteq r.tried /\ r.listed = {}
  /\ r.found # <<>> => r.listed = {r.stop}
  /\ r.league # "MLB" => OfAskedTeams(r)

Sound(r) ==
  r.op = "live" =>
    /\ r.pc \in Looking => /\ r.listed = {}
                           /\ r.stop = FirstStop(r.league) \/ FirstStop(r.league) \in r.tried
                           /\ r.stop = "alt" => r.league = "NHL"
    /\ r.pc = "answered" => AnswerRight(r) /\ BoardRight(r.league, r.stop, r.found)

AllSound == \A c \in Callers : Sound(call[c])

\* What a source gave does not change what was asked.
LEMMA AfterKeepsOp ==
  ASSUME NEW r, FetchTyped(r), NEW ok, NEW page
  PROVE  After(r, ok, page).op = r.op
<1> DEFINE listed == IF ok /\ Scrape(r.league, r.stop, page, r.codes) # <<>>
                     THEN r.listed \cup {r.stop} ELSE r.listed
           s == [r EXCEPT !.tried = r.tried \cup {r.stop}, !.listed = listed]
<1>1. After(r, ok, page) =
        IF r.league = "NHL" /\ r.op = "schedule" THEN AfterDayStop(s, ok, page)
        ELSE IF r.op = "box" THEN AfterBoxStop(s, ok, page)
        ELSE AfterStop(s, ok, page)
  BY DEF After, FetchTyped, Shaped
<1>2. DOMAIN s = DOMAIN r /\ s.op = r.op
  BY DEF FetchTyped, Shaped
<1> HIDE DEF s
<1>3. ASSUME NEW x, DOMAIN x = DOMAIN r
      PROVE /\ \A stop : GoTo(x, stop).op = x.op
            /\ \A games : Answer(x, games).op = x.op
            /\ [x EXCEPT !.pc = "threw"].op = x.op
  BY <1>3 DEF GoTo, Answer, FetchTyped, Shaped
<1>4. AfterStop(s, ok, page).op = r.op
  BY <1>2, <1>3 DEF AfterStop
<1>5. AfterBoxStop(s, ok, page).op = r.op
  BY <1>2, <1>3 DEF AfterBoxStop
<1>6. AfterDayStop(s, ok, page).op = r.op
  <2> DEFINE heard == ok /\ page.rows # <<>>
             found == s.found \o (IF heard THEN ScrapeDay(s.stop, page, s.codes, Head(s.days))
                                  ELSE <<>>)
             later == [s EXCEPT !.found = found, !.days = Tail(s.days)]
             answer == FirstOf(found, TeamsAndDay)
  <2>1. AfterDayStop(s, ok, page) =
          IF ~heard /\ s.stop # "dom" THEN GoTo(s, NextOfDay(s.stop))
          ELSE IF Tail(s.days) # <<>> THEN GoTo(later, "json")
          ELSE Answer(s, answer)
    BY DEF AfterDayStop
  <2> HIDE DEF heard, found, answer
  <2>2. DOMAIN later = DOMAIN r /\ later.op = r.op
    BY <1>2 DEF FetchTyped, Shaped
  <2> HIDE DEF later
  <2>3. QED
    BY <1>2, <1>3, <2>1, <2>2
<1>7. QED
  BY <1>1, <1>4, <1>5, <1>6

\* What a source gave is either answered or no reason to stop looking.
LEMMA AfterSound ==
  ASSUME NEW r, FetchTyped(r), r.pc \in Looking, Sound(r), NEW ok, NEW page,
         ok => WellFormed(r.stop, page)
  PROVE  Sound(After(r, ok, page))
<1> DEFINE has == ok /\ Scrape(r.league, r.stop, page, r.codes) # <<>>
           games == IF ok THEN Scrape(r.league, r.stop, page, r.codes) ELSE <<>>
           listed == IF has THEN r.listed \cup {r.stop} ELSE r.listed
           s == [r EXCEPT !.tried = r.tried \cup {r.stop}, !.listed = listed]
           next == NextStop(r.league, r.stop, ok, ok /\ page.rows # <<>>)
<1>1. SUFFICES ASSUME After(r, ok, page).op = "live"
               PROVE  Sound(After(r, ok, page))
  BY DEF Sound
<1>2. /\ DOMAIN s = DOMAIN r
      /\ s.op = r.op /\ s.pc = r.pc /\ s.stop = r.stop /\ s.league = r.league
      /\ s.codes = r.codes /\ s.tried = r.tried \cup {r.stop} /\ s.listed = listed
  BY DEF FetchTyped, Shaped
<1>3. After(r, ok, page) =
        IF r.league = "NHL" /\ r.op = "schedule" THEN AfterDayStop(s, ok, page)
        ELSE IF r.op = "box" THEN AfterBoxStop(s, ok, page)
        ELSE AfterStop(s, ok, page)
  BY <1>2 DEF After
<1>4. games # <<>> <=> has
  OBVIOUS
<1>5. AllAsked(games, r.codes) \/ r.league = "MLB"
  <2>1. CASE ok
    BY <2>1, ScrapedAreAsked DEF FetchTyped, ScrapedLeagues, Looking, Underway, WellFormed
  <2>2. CASE ~ok
    BY <2>2 DEF AllAsked
  <2>3. QED
    BY <2>1, <2>2
<1> HIDE DEF s
<1>6. r.op = "live"
  BY <1>1, AfterKeepsOp
<1>7. /\ r.listed = {} /\ (r.stop = FirstStop(r.league) \/ FirstStop(r.league) \in r.tried)
      /\ r.stop = "alt" => r.league = "NHL"
  BY <1>6 DEF Sound
<1>12. r.league \in ScrapedLeagues /\ r.stop \in Stops
  BY DEF FetchTyped, Looking, Underway
<1>13. BoardRight(r.league, r.stop, games)
  <2>1. CASE ok
    BY <1>7, <1>12, <2>1, ScrapedIsRight
  <2>2. CASE ~ok
    BY <2>2 DEF BoardRight, AllApart
  <2>3. QED
    BY <2>1, <2>2
<1>14. next = "alt" => r.league = "NHL"
  BY <1>12 DEF NextStop, NbaNext, NflNext, MlbNext, ScrapedLeagues
<1>8. After(r, ok, page) = IF games # <<>> \/ r.stop = "cbs" THEN Answer(s, games)
                           ELSE GoTo(s, next)
  BY <1>2, <1>3, <1>6 DEF AfterStop, Finish
<1> HIDE DEF games, next, has
<1>9. CASE games # <<>> \/ r.stop = "cbs"
  <2> DEFINE q == Answer(s, games)
  <2>1. /\ q.pc = "answered" /\ q.found = games /\ q.tried = r.tried \cup {r.stop}
        /\ q.listed = listed /\ q.stop = r.stop /\ q.league = r.league /\ q.codes = r.codes
    BY <1>2 DEF Answer, FetchTyped, Shaped
  <2>2. listed = IF games # <<>> THEN {r.stop} ELSE {}
    BY <1>4, <1>7
  <2> HIDE DEF q, listed
  <2>3. AnswerRight(q)
    BY <1>5, <1>7, <1>9, <2>1, <2>2 DEF AnswerRight, OfAskedTeams, AllAsked
  <2>4. QED
    BY <1>8, <1>9, <1>13, <2>1, <2>3 DEF Sound, Looking, Underway, q
<1>10. CASE games = <<>> /\ r.stop # "cbs"
  <2> DEFINE q == GoTo(s, next)
  <2>1. /\ q.pc = "robots" /\ q.tried = r.tried \cup {r.stop} /\ q.listed = listed
        /\ q.league = r.league /\ q.stop = next
    BY <1>2 DEF GoTo, FetchTyped, Shaped
  <2>2. listed = {}
    BY <1>4, <1>7, <1>10
  <2> HIDE DEF q, listed
  <2>3. QED
    BY <1>7, <1>8, <1>10, <1>14, <2>1, <2>2 DEF Sound, q
<1>11. QED
  BY <1>9, <1>10

\* What the fetch of a page changes of a call is not what it has found.
Kin(q, r) ==
  /\ q.op = r.op /\ q.league = r.league /\ q.codes = r.codes /\ q.stop = r.stop
  /\ q.tried = r.tried /\ q.listed = r.listed /\ q.found = r.found
  /\ q.pc = r.pc \/ {q.pc, r.pc} \subseteq Looking

LEMMA KinIsSound ==
  ASSUME NEW r, NEW q, Kin(q, r), Sound(r)
  PROVE  Sound(q)
<1>1. q.pc \in Looking => r.pc \in Looking
  BY DEF Kin
<1>2. q.pc = "answered" => r.pc = "answered"
  BY DEF Kin, Looking, Underway
<1>3. QED
  BY <1>1, <1>2 DEF Kin, Sound, AnswerRight, OfAskedTeams

LEMMA OneIsSound ==
  ASSUME ScrapeInv, AllSound, NEW c \in Callers, NEW q, Sound(q),
         call' = [call EXCEPT ![c] = q]
  PROVE  AllSound'
BY DEF AllSound, ScrapeInv, ScrapeTyped

LEMMA SendsSound ==
  ASSUME ScrapeInv, AllSound, NEW c \in Callers, call[c].pc \in Looking, NEW n, Sends(c, n)
  PROVE  AllSound'
<1>1. SUFFICES ASSUME NEW o \in Callers PROVE Kin(call'[o], call[o])
  BY KinIsSound DEF AllSound
<1>2. FetchTyped(call[o])
  BY DEF ScrapeInv, ScrapeTyped
<1>3. CASE o = c
  <2>1. call'[o] = [call[o] EXCEPT !.pc = "request", !.attempt = n, !.alone = TRUE]
    BY <1>3 DEF Sends
  <2>2. QED
    BY <1>2, <1>3, <2>1 DEF Kin, FetchTyped, Shaped, Looking, Underway
<1>4. CASE o # c
  <2>1. call'[o] = call[o] \/ call'[o] = [call[o] EXCEPT !.alone = FALSE]
    BY <1>4 DEF Sends
  <2>2. QED
    BY <1>2, <2>1 DEF Kin, FetchTyped, Shaped
<1>5. QED
  BY <1>3, <1>4

LEMMA FailsSound ==
  ASSUME ScrapeInv, AllSound, NEW c \in Callers, call[c].pc \in Looking,
         call' = [call EXCEPT ![c] = Fails(call[c])]
  PROVE  AllSound'
<1>1. FetchTyped(call[c]) /\ Sound(call[c])
  BY DEF ScrapeInv, ScrapeTyped, AllSound
<1>2. Sound(Fails(call[c]))
  BY <1>1, AfterSound DEF Fails
<1>3. QED
  BY <1>2, OneIsSound

LEMMA DecideSound ==
  ASSUME ScrapeInv, AllSound, NEW c \in Callers, call[c].pc \in Looking,
         NEW rules, Decide(c, rules)
  PROVE  AllSound'
<1>1. CASE rules = "forbids"
  BY <1>1, FailsSound DEF Decide
<1>2. CASE rules # "forbids" /\ age[Domain(c)] < Delay
  <2> DEFINE q == [call[c] EXCEPT !.pc = "wait", !.left = Delay - age[Domain(c)],
                                  !.alone = TRUE]
  <2>1. call' = [call EXCEPT ![c] = q]
    BY <1>2 DEF Decide, ScrapeInv, ScrapeTyped
  <2>2. Kin(q, call[c])
    BY DEF Kin, ScrapeInv, ScrapeTyped, FetchTyped, Shaped, Looking, Underway
  <2> HIDE DEF q
  <2>3. Sound(q)
    BY <2>2, KinIsSound DEF AllSound
  <2>4. QED
    BY <2>1, <2>3, OneIsSound
<1>3. CASE rules # "forbids" /\ ~(age[Domain(c)] < Delay)
  BY <1>3, SendsSound DEF Decide, Grant
<1>4. QED
  BY <1>1, <1>2, <1>3

\* A new call has found nothing and is at its first source.
LEMMA AskSound ==
  ASSUME ScrapeInv, AllSound, NEW c \in Callers, NEW ask \in Asks[c], Ask(c, ask)
  PROVE  AllSound'
<1> DEFINE r == [Idle EXCEPT !.op = ask.op, !.league = ask.league, !.codes = ask.codes,
                             !.limit = ask.limit, !.days = ask.days]
           q == CASE ask.op = "schedule" -> AskSchedule(r)
                  [] ask.op = "box" -> AskBoxScore(r, ask.event)
                  [] OTHER -> GoTo(r, FirstStop(ask.league))
<1>1. call' = [call EXCEPT ![c] = q]
  BY DEF Ask
<1>2. /\ DOMAIN r = DOMAIN Idle /\ r.op = ask.op /\ r.league = ask.league
      /\ r.listed = {} /\ r.pc = "idle"
  BY DEF Idle
<1>3. /\ \A stop : GoTo(r, stop).op = r.op
      /\ \A games : Answer(r, games).op = r.op
      /\ [r EXCEPT !.pc = "threw"].op = r.op
  BY <1>2 DEF GoTo, Answer, Idle
<1>4. /\ \A stop : /\ GoTo(r, stop).listed = {} /\ GoTo(r, stop).stop = stop
                   /\ GoTo(r, stop).pc = "robots" /\ GoTo(r, stop).league = r.league
  BY <1>2 DEF GoTo, Idle
<1> HIDE DEF r
<1>5. CASE ask.op \in {"schedule", "box"}
  <2>1. q.op = ask.op
    BY <1>2, <1>3, <1>5 DEF AskSchedule, AskBoxScore
  <2> HIDE DEF q
  <2>2. Sound(q)
    BY <1>5, <2>1 DEF Sound
  <2>3. QED
    BY <1>1, <2>2, OneIsSound
<1>6. CASE ask.op \notin {"schedule", "box"}
  <2>1. q = GoTo(r, FirstStop(ask.league)) /\ FirstStop(ask.league) # "alt"
    BY <1>6 DEF FirstStop
  <2> HIDE DEF q
  <2>2. Sound(q)
    BY <1>2, <1>4, <2>1 DEF Sound
  <2>3. QED
    BY <1>1, <2>2, OneIsSound
<1>7. QED
  BY <1>5, <1>6

LEMMA FetchSound == ASSUME ScrapeInv, AllSound, NEW c \in Callers, Fetches(c) PROVE AllSound'
<1>1. FetchTyped(call[c]) /\ Sound(call[c])
  BY DEF ScrapeInv, ScrapeTyped, AllSound
<1>2. CASE CheckRobots(c)
  <2>1. CASE robots[Domain(c)] # None
    BY <1>2, <2>1, DecideSound DEF CheckRobots, At, Looking
  <2>2. CASE robots[Domain(c)] = None
    <3> DEFINE q == [call[c] EXCEPT !.pc = "fill"]
    <3>1. call' = [call EXCEPT ![c] = q] /\ call[c].pc = "robots"
      BY <1>2, <2>2 DEF CheckRobots, At
    <3>2. Kin(q, call[c])
      BY <1>1, <3>1 DEF Kin, FetchTyped, Shaped, Looking
    <3> HIDE DEF q
    <3>3. QED
      BY <1>1, <3>1, <3>2, KinIsSound, OneIsSound
  <2>3. QED
    BY <2>1, <2>2
<1>3. ASSUME NEW rules, Fill(c, rules) PROVE AllSound'
  BY <1>3, DecideSound DEF Fill, At, Looking
<1>4. CASE WaitEnds(c)
  BY <1>4, SendsSound DEF WaitEnds, Grant, At, Looking, Underway
<1>5. CASE Retries(c)
  BY <1>5, SendsSound DEF Retries, At, Looking, Underway
<1>6. CASE AttemptFails(c)
  <2>1. call[c].pc = "request"
    BY <1>6 DEF AttemptFails, At
  <2>2. CASE call[c].attempt = FetchRetries
    BY <1>6, <2>1, <2>2, FailsSound DEF AttemptFails, Looking, Underway
  <2>3. CASE call[c].attempt # FetchRetries
    <3> DEFINE n == BackoffDelay(call[c].attempt)
               q == [call[c] EXCEPT !.pc = "backoff", !.left = n]
    <3>1. call' = [call EXCEPT ![c] = q]
      BY <1>6, <2>3 DEF AttemptFails
    <3> HIDE DEF n
    <3>2. Kin(q, call[c])
      BY <1>1, <2>1 DEF Kin, FetchTyped, Shaped, Looking, Underway
    <3> HIDE DEF q
    <3>3. QED
      BY <1>1, <3>1, <3>2, KinIsSound, OneIsSound
  <2>4. QED
    BY <2>2, <2>3
<1>7. ASSUME At(c, "request"), NEW page \in Pages[call[c].league][call[c].stop],
             PageArrives(c, page)
      PROVE  AllSound'
  <2>1. call[c].pc \in Looking /\ call[c].league \in ScrapedLeagues /\ call[c].stop \in Stops
    BY <1>1, <1>7 DEF At, Looking, Underway, FetchTyped
  <2>2. WellFormed(call[c].stop, page)
    BY <1>7, <2>1, ScrapingAssumption DEF ScrapingAssumption, WellFormed, HasRows
  <2>3. Sound(Reads(call[c], page))
    BY <1>1, <2>1, <2>2, AfterSound DEF Reads
  <2>4. QED
    BY <1>7, <2>3, OneIsSound DEF PageArrives
<1>8. QED
  BY <1>2, <1>3, <1>4, <1>5, <1>6, <1>7 DEF Fetches, RobotsArrive, RobotsUnread

LEMMA SoundKeeps == ScrapeInv /\ AllSound /\ [ScrapeNext]_scraping => AllSound'
<1> SUFFICES ASSUME ScrapeInv, AllSound, [ScrapeNext]_scraping PROVE AllSound'
  OBVIOUS
<1>1. CASE UNCHANGED scraping
  BY <1>1 DEF scraping, AllSound
<1>2. CASE ScrapeTick
  <2>1. SUFFICES ASSUME NEW o \in Callers PROVE Kin(call'[o], call[o])
    BY KinIsSound DEF AllSound
  <2>2. FetchTyped(call[o])
    BY DEF ScrapeInv, ScrapeTyped
  <2>3. call'[o] = call[o] \/ call'[o] = [call[o] EXCEPT !.left = call[o].left - 1]
    BY <1>2 DEF ScrapeTick
  <2>4. QED
    BY <2>2, <2>3 DEF Kin, FetchTyped, Shaped
<1>3. QED
  BY <1>1, <1>2, FetchSound, AskSound DEF ScrapeNext

LEMMA AlwaysSound == ScrapeSpec => []AllSound
<1>1. ScrapeInit => AllSound
  <2>1. Sound(Idle)
    BY DEF Sound, Idle, Looking, Underway
  <2>2. QED
    BY <2>1 DEF ScrapeInit, AllSound
<1>2. QED
  BY <1>1, ScrapeSafe, SoundKeeps, PTL DEF ScrapeSpec

\* An answer of fetchLive is empty only when every source was read or failed, no
\* source that listed games was passed over, and its games are of the teams asked
\* for, whatever the pages show (Answered).
THEOREM AnswersAreRight == ScrapeSpec => []Answered
<1>1. AllSound => Answered
  BY DEF AllSound, Sound, AnswerRight, Answered, At
<1>2. QED
  BY <1>1, AlwaysSound, PTL

\* The games of an answer can be told apart by their ids when the mapper knows
\* their teams, and none that is yet to start has a clock where times of day are
\* no clocks, for every page, table of names and interleaving (ReadsTheBoard).
THEOREM AnswersAreFit == ScrapeSpec => []ReadsTheBoard
<1>1. AllSound => ReadsTheBoard
  BY DEF AllSound, Sound, BoardRight, AllApart, Apart, Quiet, ReadsTheBoard, At
<1>2. QED
  BY <1>1, AlwaysSound, PTL
=============================================================================
