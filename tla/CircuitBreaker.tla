---------------------------- MODULE CircuitBreaker ----------------------------
(***************************************************************************)
(* The circuit breaker and the retry loop of the database connection       *)
(* manager (server/utils/dbConnection.ts): executeWithRetry runs a query   *)
(* up to MaxRetries times inside ONE execution of the breaker.             *)
(*                                                                         *)
(* Each member of Calls is one call of executeWithRetry.  The calls are    *)
(* concurrent: between the admission test and the continuation that        *)
(* records the outcome a call waits for the database and, before a retry,  *)
(* for its backoff, and every other call may run in the meantime.          *)
(* Backoff delays only order the calls in time, so a sleeping call may     *)
(* wake at any moment; the only clock kept is the one execute reads.       *)
(***************************************************************************)
EXTENDS Naturals, FiniteSets

CONSTANTS Calls,       \* the calls of executeWithRetry
          Threshold,   \* circuitBreakerThreshold
          Timeout,     \* circuitBreakerTimeout
          MaxRetries,  \* maxRetries
          MaxTime      \* bound on the clock

ASSUME BreakerAssumption ==
  /\ IsFiniteSet(Calls)
  /\ Threshold \in Nat \ {0}   \* the constructor replaces 0 by its default
  /\ Timeout \in Nat \ {0}
  /\ MaxRetries \in Nat \ {0}
  /\ MaxTime \in Nat

VARIABLES
  state,            \* CircuitBreakerState
  failureCount,
  lastFailureTime,
  now,              \* Date.now()
  pc,               \* where each call is
  attempt           \* the attempt each call is making, 0 before the first

vars == <<state, failureCount, lastFailureTime, now, pc, attempt>>

States == {"CLOSED", "OPEN", "HALF_OPEN"}

CallStates == {"idle", "running", "sleeping", "done", "failed", "rejected"}

TypeOK ==
  /\ state \in States
  /\ failureCount \in Nat
  /\ lastFailureTime \in Nat
  /\ now \in Nat
  /\ pc \in [Calls -> CallStates]
  /\ attempt \in [Calls -> 0..MaxRetries]

Init ==
  /\ state = "CLOSED"
  /\ failureCount = 0
  /\ lastFailureTime = 0
  /\ now = 0
  /\ pc = [c \in Calls |-> "idle"]
  /\ attempt = [c \in Calls |-> 0]

-----------------------------------------------------------------------------

CoolDownOver == now > lastFailureTime + Timeout

\* execute refuses the call while the breaker is open and not cooled down.
Reject(c) ==
  /\ pc[c] = "idle"
  /\ state = "OPEN"
  /\ ~CoolDownOver
  /\ pc' = [pc EXCEPT ![c] = "rejected"]
  /\ UNCHANGED <<state, failureCount, lastFailureTime, now, attempt>>

\* Bug: the cool-down ends one tick early.
BugAdmitEarly(c) ==
  /\ pc[c] = "idle"
  /\ state = "OPEN" => now >= lastFailureTime + Timeout
  /\ state' = IF state = "OPEN" THEN "HALF_OPEN" ELSE state
  /\ pc' = [pc EXCEPT ![c] = "running"]
  /\ attempt' = [attempt EXCEPT ![c] = 1]
  /\ UNCHANGED <<failureCount, lastFailureTime, now>>

\* execute lets the call through; the first one after the cool-down of an
\* open breaker half-opens it.
Admit(c) ==
  /\ pc[c] = "idle"
  /\ state = "OPEN" => CoolDownOver
  /\ state' = IF state = "OPEN" THEN "HALF_OPEN" ELSE state
  /\ pc' = [pc EXCEPT ![c] = "running"]
  /\ attempt' = [attempt EXCEPT ![c] = 1]
  /\ UNCHANGED <<failureCount, lastFailureTime, now>>

Reset ==
  IF state = "HALF_OPEN"
    THEN state' = "CLOSED" /\ failureCount' = 0
    ELSE UNCHANGED <<state, failureCount>>

\* The query answered: the call returns through execute.
Succeed(c) ==
  /\ pc[c] = "running"
  /\ Reset
  /\ pc' = [pc EXCEPT ![c] = "done"]
  /\ UNCHANGED <<lastFailureTime, now, attempt>>

\* Bug: every attempt that fails is counted.
BugBackoffCounts(c) ==
  /\ pc[c] = "running"
  /\ attempt[c] < MaxRetries
  /\ failureCount' = failureCount + 1
  /\ pc' = [pc EXCEPT ![c] = "sleeping"]
  /\ UNCHANGED <<state, lastFailureTime, now, attempt>>

\* The query failed with a retryable error and attempts are left.
Backoff(c) ==
  /\ pc[c] = "running"
  /\ attempt[c] < MaxRetries
  /\ pc' = [pc EXCEPT ![c] = "sleeping"]
  /\ UNCHANGED <<state, failureCount, lastFailureTime, now, attempt>>

Retry(c) ==
  /\ pc[c] = "sleeping"
  /\ pc' = [pc EXCEPT ![c] = "running"]
  /\ attempt' = [attempt EXCEPT ![c] = @ + 1]
  /\ UNCHANGED <<state, failureCount, lastFailureTime, now>>

RecordFailure ==
  /\ failureCount' = failureCount + 1
  /\ lastFailureTime' = now
  /\ state' = IF failureCount + 1 >= Threshold THEN "OPEN" ELSE state

\* The query failed for good: the last attempt, or an error that is not
\* retryable on any attempt.  The breaker counts one failure.
Fail(c) ==
  /\ pc[c] = "running"
  /\ RecordFailure
  /\ pc' = [pc EXCEPT ![c] = "failed"]
  /\ UNCHANGED <<now, attempt>>

Tick ==
  /\ now < MaxTime
  /\ now' = now + 1
  /\ UNCHANGED <<state, failureCount, lastFailureTime, pc, attempt>>

Next ==
  \/ \E c \in Calls :
       Reject(c) \/ Admit(c) \/ Succeed(c) \/ Backoff(c) \/ Retry(c) \/ Fail(c)
  \/ Tick

Spec == Init /\ [][Next]_vars

\* The database answers or fails every query, and a timer that was set fires.
\* Nothing makes anybody start a call.
Fairness ==
  \A c \in Calls : WF_vars(Succeed(c) \/ Backoff(c) \/ Fail(c)) /\ WF_vars(Retry(c))

FairSpec == Spec /\ Fairness

-----------------------------------------------------------------------------

\* The breaker is closed exactly while fewer failures than the threshold are
\* counted.  recordFailure and reset set the two fields apart, and late
\* answers reach them in any state: without this a half-open breaker could
\* survive a failed probe, or a health check report a tripped breaker closed.
ClosedIffBelowThreshold == (state = "CLOSED") <=> (failureCount < Threshold)

\* A half-open breaker has seen no failure for more than the timeout, those
\* of calls admitted before it opened included: execute lets every call
\* through in this state without looking at the clock again.
HalfOpenIsCooledDown == state = "HALF_OPEN" => CoolDownOver

Failed == {c \in Calls : pc[c] = "failed"}

\* A call counts as one failure however many attempts it made.
OneFailurePerCall == failureCount <= Cardinality(Failed)

\* Once tripped, the breaker lets no call reach the database until more than
\* the timeout after the LAST failure, whoever caused it.
AdmissionAfterCoolDown ==
  [][\A c \in Calls :
       (pc[c] = "idle" /\ pc'[c] = "running" /\ failureCount >= Threshold)
         => CoolDownOver]_vars

=============================================================================
