----------------------------- MODULE DatabaseCalls -----------------------------
(***************************************************************************)
(* What goes on inside the calls that CircuitBreaker lets through, and the *)
(* life of the pool they use: initialize, its connection test and close of *)
(* the connection manager (server/utils/dbConnection.ts), and the queries  *)
(* and error classes of server/utils/databaseErrorHandling.ts.             *)
(*                                                                         *)
(* initialize and close are not guarded against each other: each awaits,   *)
(* and what it finds afterwards may be the work of the other.  The pool of *)
(* node-postgres is external: it has Size clients, serves who waits in any *)
(* order, and once ended gives out no more.                                *)
(***************************************************************************)
EXTENDS CircuitBreaker

CONSTANTS RawCalls,  \* the calls of executeRawQuery; the rest are of executeQuery
          Starters,  \* the calls of initialize
          Size,      \* max, clients of a pool
          QueryErrors,  \* errors of queries that happen, of AnyQueryError
          MaxPools   \* bound on the pools made

ASSUME PoolAssumption ==
  /\ RawCalls \subseteq Calls /\ Calls \cap Starters = {}
  /\ Size \in Nat \ {0} /\ MaxPools \in Nat

VARIABLES
  manager,   \* pool, 0 for undefined, and isInitialized
  made,      \* number of pools made; they are 1, 2, ...
  ended,     \* pools whose end was called
  held,      \* the clients of each pool that are out, by who holds them
  starter,   \* calls of initialize, with the pool each made
  closing,   \* the pool that close waits for, 0 if it does not run
  work,      \* what the attempt of each call does, and the pool it found
  thrown     \* what the caller of each call was told

database == <<manager, made, ended, held, starter, closing, work, thrown>>

PoolIds == 1..MaxPools
Holders == Calls \cup Starters

\* Failures of an attempt: to connect, of a client that waited too long or came
\* to a pool that is gone, and of the query, by the error codes that differ.
ConnectErrors == {"refused", "waited"}
AnyQueryError == {"reset", "terminated", "deadlock", "unique", "crowded"}

\* isRetryableError of the manager looks for these in the message ...
RetriedHere == {"refused", "reset", "terminated"}
\* ... and the one for callers at the code.
RetryableByCaller(e) == e \in {"reset", "deadlock", "crowded"}

ClassOf(e) ==
  CASE e \in {"refused", "reset"} -> "connection"
    [] e = "unique" -> "constraint"
    [] e = "deadlock" -> "conflict"
    [] e = "crowded" -> "resources"
    [] OTHER -> "generic"

Advice(e) ==
  CASE e \in {"refused", "reset"} -> "later"
    [] e = "unique" -> "exists"
    [] e = "deadlock" -> "again"
    [] e = "crowded" -> "soon"
    [] OTHER -> "an error"

Classified(e) == [error |-> e, class |-> ClassOf(e), retryable |-> RetryableByCaller(e),
                  advice |-> Advice(e)]
Unharmed == [error |-> "none", class |-> "none", retryable |-> FALSE, advice |-> "none"]

AtRest == [at |-> "rest", pool |-> 0]

DatabaseInit ==
  /\ Init
  /\ manager = [pool |-> 0, ready |-> FALSE]
  /\ made = 0
  /\ ended = {}
  /\ held = [p \in PoolIds |-> {}]
  /\ starter = [s \in Starters |-> AtRest]
  /\ closing = 0
  /\ work = [c \in Calls |-> AtRest]
  /\ thrown = [c \in Calls |-> Unharmed]

(***************************************************************************)
(* The pool                                                                *)
(***************************************************************************)
\* initialize: nothing when the manager is ready, else another pool at once.
Initialize(s) ==
  /\ starter[s].at = "rest"
  /\ IF manager.ready THEN UNCHANGED <<manager, made, starter>>
     ELSE /\ made < MaxPools
          /\ made' = made + 1
          /\ manager' = [manager EXCEPT !.pool = made + 1]
          /\ starter' = [starter EXCEPT ![s] = [at |-> "connects", pool |-> made + 1]]
  /\ UNCHANGED <<vars, ended, held, closing, work, thrown>>

HasClient(p) == p \notin ended /\ Cardinality(held[p]) < Size

TestConnects(s) ==
  LET p == starter[s].pool
  IN /\ starter[s].at = "connects" /\ HasClient(p)
     /\ held' = [held EXCEPT ![p] = @ \cup {s}]
     /\ starter' = [starter EXCEPT ![s].at = "queries"]
     /\ UNCHANGED <<vars, manager, made, ended, closing, work, thrown>>

\* testConnection is over, well or not.  The pool stays where it is either way.
TestEnds(s, well) ==
  LET p == starter[s].pool
  IN /\ starter[s].at = "queries" \/ (starter[s].at = "connects" /\ ~well)
     /\ held' = [held EXCEPT ![p] = @ \ {s}]
     /\ starter' = [starter EXCEPT ![s] = AtRest]
     /\ manager' = IF well THEN [manager EXCEPT !.ready = TRUE] ELSE manager
     /\ UNCHANGED <<vars, made, ended, closing, work, thrown>>

\* close ends the pool and waits until its clients are back; a second close
\* of the same pool throws.
Close ==
  /\ manager.pool # 0 /\ closing = 0 /\ manager.pool \notin ended
  /\ closing' = manager.pool
  /\ ended' = ended \cup {manager.pool}
  /\ UNCHANGED <<vars, manager, made, held, starter, work, thrown>>

\* Whatever pool there is by now is forgotten.
CloseEnds ==
  /\ closing # 0 /\ held[closing] = {}
  /\ manager' = [pool |-> 0, ready |-> FALSE]
  /\ closing' = 0
  /\ UNCHANGED <<vars, made, ended, held, starter, work, thrown>>

(***************************************************************************)
(* The calls.  The query of executeQuery is its caller's; executeRawQuery  *)
(* takes a client of the pool it finds at each attempt.                    *)
(***************************************************************************)
Begins(c) ==
  work' = [work EXCEPT ![c] = IF c \in RawCalls THEN [at |-> "connects", pool |-> manager.pool]
                              ELSE [at |-> "queries", pool |-> 0]]

Calling(c) ==
  /\ \/ Admit(c) /\ Begins(c)
     \/ Retry(c) /\ Begins(c)
     \/ Reject(c) /\ UNCHANGED work
  /\ thrown' = [thrown EXCEPT ![c] = IF pc'[c] = "rejected" THEN Classified("open") ELSE @]
  /\ UNCHANGED <<manager, made, ended, held, starter, closing>>

Connects(c) ==
  LET p == work[c].pool
  IN /\ work[c].at = "connects" /\ p # 0 /\ HasClient(p)
     /\ held' = [held EXCEPT ![p] = @ \cup {c}]
     /\ work' = [work EXCEPT ![c].at = "queries"]
     /\ UNCHANGED <<vars, manager, made, ended, starter, closing, thrown>>

Released(c) == [p \in PoolIds |-> held[p] \ {c}]

Answers(c) ==
  /\ work[c].at = "queries"
  /\ Succeed(c)
  /\ held' = Released(c)
  /\ work' = [work EXCEPT ![c] = AtRest]
  /\ UNCHANGED <<manager, made, ended, starter, closing, thrown>>

\* What may go wrong with the attempt of c now.
Errors(c) ==
  CASE work[c].at = "queries" -> QueryErrors
    [] work[c].at = "connects" /\ work[c].pool = 0 -> {"no pool"}
    [] work[c].at = "connects" /\ work[c].pool \in ended -> {"ended", "waited"}
    [] work[c].at = "connects" /\ work[c].pool \in PoolIds \ ended -> ConnectErrors
    [] OTHER -> {}

\* Bug: the client is released when the call is over, not with its attempt.
BugCallFails(c, e) ==
  /\ e \in Errors(c)
  /\ held' = IF e \in RetriedHere /\ attempt[c] < MaxRetries THEN held ELSE Released(c)
  /\ work' = [work EXCEPT ![c] = AtRest]
  /\ IF e \in RetriedHere /\ attempt[c] < MaxRetries
     THEN Backoff(c) /\ UNCHANGED thrown
     ELSE Fail(c) /\ thrown' = [thrown EXCEPT ![c] = Classified(e)]
  /\ UNCHANGED <<manager, made, ended, starter, closing>>

\* The attempt fails.  A connection that broke is tried again, while attempts are
\* left; any other error is the caller's, and the breaker counts it.
CallFails(c, e) ==
  /\ e \in Errors(c)
  /\ held' = Released(c)
  /\ work' = [work EXCEPT ![c] = AtRest]
  /\ IF e \in RetriedHere /\ attempt[c] < MaxRetries
     THEN Backoff(c) /\ UNCHANGED thrown
     ELSE Fail(c) /\ thrown' = [thrown EXCEPT ![c] = Classified(e)]
  /\ UNCHANGED <<manager, made, ended, starter, closing>>

DatabaseNext ==
  \/ \E s \in Starters : Initialize(s) \/ TestConnects(s) \/ TestEnds(s, TRUE) \/ TestEnds(s, FALSE)
  \/ Close \/ CloseEnds
  \/ \E c \in Calls : Calling(c) \/ Connects(c) \/ Answers(c)
  \/ \E c \in Calls : \E e \in Errors(c) : CallFails(c, e)
  \/ Tick /\ UNCHANGED database

DatabaseSpec == DatabaseInit /\ [][DatabaseNext]_<<vars, database>>

-----------------------------------------------------------------------------
\* Clients that are out of a pool are out for work that goes on: whichever way an
\* attempt or a connection test ends, and whatever became of the manager's pool
\* meanwhile, its client is back where it came from (executeRawQuery,
\* testConnection).  A pool that close has ended and awaited is not used again.
NoClientLost ==
  /\ \A p \in PoolIds :
       held[p] = {c \in RawCalls : work[c] = [at |-> "queries", pool |-> p] /\ pc[c] = "running"}
                 \cup {s \in Starters : starter[s] = [at |-> "queries", pool |-> p]}
  /\ \A p \in ended \ {closing} : held[p] = {}

=============================================================================
