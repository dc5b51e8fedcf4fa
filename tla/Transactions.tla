----------------------------- MODULE Transactions -----------------------------
(***************************************************************************)
(* Bulk operations in transactions: executeBatch and executeInTransaction  *)
(* of server/utils/transactionUtils.ts over the connection manager's       *)
(* executeInTransaction (server/utils/dbConnection.ts), and the two kinds  *)
(* of work that run in them: statements on the transaction's client, and   *)
(* those of EnhancedPgStorage, whose transactional storage overrides       *)
(* nothing and so sends every statement through the other, older pool.     *)
(*                                                                         *)
(* The database is explicit as far as the calls can tell: a connection of  *)
(* the pool has a transaction that is open or aborted and the items        *)
(* written in it.  A BEGIN in an open transaction only warns, and a COMMIT *)
(* of an aborted one rolls back without an error.                          *)
(***************************************************************************)
EXTENDS Naturals

CONSTANTS
  Calls,       \* the calls of executeBatch
  ByClient,    \* those whose work uses the client it is given
  Items,       \* how many items each call has
  BatchSize,
  MaxRetries,  \* maxRetries, from 1
  Clients,     \* the connections of the pool
  MaxCrashes,  \* bound on the crashes of the process
  None

ASSUME TransactionsAssumption ==
  /\ ByClient \subseteq Calls
  /\ Items \in [Calls -> Nat]
  /\ {BatchSize, MaxRetries} \subseteq Nat \ {0}
  /\ MaxCrashes \in Nat
  /\ None \notin Clients

VARIABLES
  pc,        \* where each call is
  attempt,   \* attempt of the running batch
  from,      \* the items of the batches that are over
  step,      \* items written by this attempt
  error,     \* why this attempt fails
  client,    \* the client a call holds
  txn,       \* the transaction of each connection
  pending,   \* items <<call, item>> written in it
  stored,    \* how often each item of a call is stored
  crashes

call == <<pc, attempt, from, step, error, client>>
connection == <<txn, pending>>
vars == <<call, connection, stored, crashes>>

Item == Calls \X Nat
Errors == {"code", "text", "other"}

TypeOK ==
  /\ pc \in [Calls -> {"new", "connect", "begin", "work", "rollback", "sleep",
                        "done", "failed", "lost"}]
  /\ attempt \in [Calls -> 1..MaxRetries]
  /\ from \in [Calls -> Nat]
  /\ step \in [Calls -> Nat]
  /\ error \in [Calls -> Errors \cup {None}]
  /\ client \in [Calls -> Clients \cup {None}]
  /\ txn \in [Clients -> {"none", "open", "aborted"}]
  /\ pending \in [Clients -> SUBSET Item]
  /\ \A c \in Calls : stored[c] \in [1..Items[c] -> Nat]
  /\ crashes \in 0..MaxCrashes

Init ==
  /\ pc = [c \in Calls |-> "new"]
  /\ attempt = [c \in Calls |-> 1]
  /\ from = [c \in Calls |-> 0]
  /\ step = [c \in Calls |-> 0]
  /\ error = [c \in Calls |-> None]
  /\ client = [c \in Calls |-> None]
  /\ txn = [k \in Clients |-> "none"]
  /\ pending = [k \in Clients |-> {}]
  /\ stored = [c \in Calls |-> [i \in 1..Items[c] |-> 0]]
  /\ crashes = 0

-----------------------------------------------------------------------------

Idle == {k \in Clients : \A c \in Calls : client[c] # k}

\* The last item of the batch of c.
BatchEnd(c) == IF from[c] + BatchSize < Items[c] THEN from[c] + BatchSize ELSE Items[c]

Worked(c) == from[c] + step[c] = BatchEnd(c)

\* What is stored once the items of the set written are stored too.
With(written) ==
  [c \in Calls |-> [i \in 1..Items[c] |->
     stored[c][i] + IF <<c, i>> \in written THEN 1 ELSE 0]]

\* executeBatch: nothing to do without items.
Start(c) ==
  /\ pc[c] = "new"
  /\ pc' = [pc EXCEPT ![c] = IF Items[c] = 0 THEN "done" ELSE "connect"]
  /\ UNCHANGED <<attempt, from, step, error, client, connection, stored, crashes>>

Connect(c) ==
  /\ pc[c] = "connect"
  /\ \E k \in Idle : client' = [client EXCEPT ![c] = k]
  /\ pc' = [pc EXCEPT ![c] = "begin"]
  /\ UNCHANGED <<attempt, from, step, error, connection, stored, crashes>>

\* connectionTimeoutMillis; the error is not one that is retried.
ConnectTimesOut(c) ==
  /\ pc[c] = "connect"
  /\ pc' = [pc EXCEPT ![c] = "failed"]
  /\ UNCHANGED <<attempt, from, step, error, client, connection, stored, crashes>>

\* BEGIN and the settings.
Begins(c) ==
  /\ pc[c] = "begin"
  /\ pc' = [pc EXCEPT ![c] = "work"]
  /\ txn' = [txn EXCEPT ![client[c]] = IF @ = "none" THEN "open" ELSE @]
  /\ UNCHANGED <<attempt, from, step, error, client, pending, stored, crashes>>

\* The statement of the next item.  Only statements on the client belong to the
\* transaction.
Writes(c) ==
  LET item == from[c] + step[c] + 1 IN
  /\ pc[c] = "work"
  /\ ~Worked(c)
  /\ step' = [step EXCEPT ![c] = @ + 1]
  /\ IF c \in ByClient
       THEN /\ pending' = [pending EXCEPT ![client[c]] = @ \cup {<<c, item>>}]
            /\ UNCHANGED stored
       ELSE /\ stored' = With({<<c, item>>})
            /\ UNCHANGED pending
  /\ UNCHANGED <<pc, attempt, from, error, client, txn, crashes>>

\* BEGIN, a statement or COMMIT fails.  A conflict is reported by the error's
\* code; an error whose text has the code is what isSerializationFailure looks for.
QueryFails(c) ==
  /\ pc[c] \in {"begin", "work"}
  /\ \E e \in Errors : error' = [error EXCEPT ![c] = e]
  /\ pc' = [pc EXCEPT ![c] = "rollback"]
  /\ txn' = [txn EXCEPT ![client[c]] = IF @ = "open" THEN "aborted" ELSE @]
  /\ UNCHANGED <<attempt, from, step, client, pending, stored, crashes>>

\* Bug: the loop does not advance past the batch.
BugNextBatch(c) ==
  /\ pc' = [pc EXCEPT ![c] = IF BatchEnd(c) = Items[c] THEN "done" ELSE "connect"]
  /\ from' = [from EXCEPT ![c] = @ + step[c] - 1]
  /\ step' = [step EXCEPT ![c] = 0]
  /\ attempt' = [attempt EXCEPT ![c] = 1]

\* The batch is over: on to the next one, in a transaction of its own.
NextBatch(c) ==
  /\ pc' = [pc EXCEPT ![c] = IF BatchEnd(c) = Items[c] THEN "done" ELSE "connect"]
  /\ from' = [from EXCEPT ![c] = BatchEnd(c)]
  /\ step' = [step EXCEPT ![c] = 0]
  /\ attempt' = [attempt EXCEPT ![c] = 1]

\* COMMIT; the client is released.
Commits(c) ==
  LET k == client[c] IN
  /\ pc[c] = "work"
  /\ Worked(c)
  /\ stored' = IF txn[k] = "open" THEN With(pending[k]) ELSE stored
  /\ txn' = [txn EXCEPT ![k] = "none"]
  /\ pending' = [pending EXCEPT ![k] = {}]
  /\ client' = [client EXCEPT ![c] = None]
  /\ NextBatch(c)
  /\ UNCHANGED <<error, crashes>>

\* The client is released and the caller sees an error.  Only the text of an
\* error is searched for the code.
Retried(c, thrown) == thrown = "text" /\ attempt[c] < MaxRetries
EndsAttempt(c, thrown) ==
  LET k == client[c] IN
  /\ pc[c] = "rollback"
  /\ txn' = [txn EXCEPT ![k] = "none"]
  /\ pending' = [pending EXCEPT ![k] = {}]
  /\ client' = [client EXCEPT ![c] = None]
  /\ pc' = [pc EXCEPT ![c] = IF Retried(c, thrown) THEN "sleep" ELSE "failed"]
  /\ step' = [step EXCEPT ![c] = 0]
  /\ error' = [error EXCEPT ![c] = None]
  /\ UNCHANGED <<attempt, from, stored, crashes>>

\* ROLLBACK, and the first error.
RollsBack(c) == EndsAttempt(c, error[c])

\* ROLLBACK fails, and its error takes the first one's place.  It can fail only
\* with its connection: the database rolls back what was open on that, and the
\* pool makes a new one in its place.
RollbackFails(c) == \E thrown \in Errors : EndsAttempt(c, thrown)

\* The backoff is over.
WakesUp(c) ==
  /\ pc[c] = "sleep"
  /\ pc' = [pc EXCEPT ![c] = "connect"]
  /\ attempt' = [attempt EXCEPT ![c] = @ + 1]
  /\ UNCHANGED <<from, step, error, client, connection, stored, crashes>>

\* The process dies and starts again: a client that is in use has no listener for
\* its error event, so a lost connection is enough.  The database rolls back,
\* but a COMMIT that was sent may have reached it.
Crash ==
  /\ crashes < MaxCrashes
  /\ crashes' = crashes + 1
  /\ \E sent \in SUBSET {c \in Calls : pc[c] = "work" /\ Worked(c)} :
       stored' = With(UNION {pending[client[c]] : c \in {d \in sent : txn[client[d]] = "open"}})
  /\ pc' = [c \in Calls |-> IF pc[c] \in {"new", "done", "failed"} THEN pc[c] ELSE "lost"]
  /\ client' = [c \in Calls |-> None]
  /\ error' = [c \in Calls |-> None]
  /\ txn' = [k \in Clients |-> "none"]
  /\ pending' = [k \in Clients |-> {}]
  /\ UNCHANGED <<attempt, from, step>>

-----------------------------------------------------------------------------

Works(c) == Begins(c) \/ Writes(c) \/ QueryFails(c) \/ Commits(c)

Next ==
  \/ \E c \in Calls :
       \/ Start(c) \/ Connect(c) \/ ConnectTimesOut(c)
       \/ Works(c)
       \/ RollsBack(c) \/ RollbackFails(c) \/ WakesUp(c)
  \/ Crash

Spec == Init /\ [][Next]_vars

\* The database answers or fails every query, and timers fire.
Fairness ==
  \A c \in Calls :
    /\ WF_vars(Connect(c) \/ ConnectTimesOut(c))
    /\ WF_vars(Works(c))
    /\ WF_vars(RollsBack(c) \/ RollbackFails(c))
    /\ WF_vars(WakesUp(c))

FairSpec == Spec /\ Fairness

-----------------------------------------------------------------------------

\* What the caller of executeBatch knows.
outcome == [c \in ByClient |->
  IF pc[c] = "done" THEN "done"
  ELSE IF pc[c] \in {"failed", "lost"} THEN "failed" ELSE "running"]

Batches == INSTANCE BatchStore
  WITH Calls <- ByClient, stored <- [c \in ByClient |-> stored[c]]

\* Bulk operations whose work uses their client keep what BatchStore promises,
\* through failures of every query, retries, crashes, and the sharing of
\* clients: no statement of one call is committed or rolled back by another.
StoredByBatch == Batches!Spec

\* A client goes back to the pool without a transaction.
IdleIsClean == \A k \in Idle : txn[k] = "none" /\ pending[k] = {}

=============================================================================
