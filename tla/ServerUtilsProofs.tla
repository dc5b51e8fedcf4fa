--------------------------- MODULE ServerUtilsProofs ---------------------------
(***************************************************************************)
(* Proofs about the server's utilities.  Transactions, for any number of   *)
(* calls, items, clients and crashes: types, clean idle clients, and that  *)
(* the calls whose work uses their client implement BatchStore.            *)
(* JobSchedule, for any leagues, teams, starts, edits and failures: what   *)
(* was found at the start is polled.  ArticleIndex, for any articles,      *)
(* callers and failures: a search finds what is there, and a check for     *)
(* duplicates a copy.  ErrorMonitoring, for any errors, thresholds and     *)
(* times: an error beyond a threshold has one alert.                       *)
(***************************************************************************)
EXTENDS Transactions, JobSchedule, ArticleIndex, ErrorMonitoring, SequenceTheorems,
        FiniteSetTheorems, WellFoundedInduction, TLAPS

Holding == {"begin", "work", "rollback"}

\* Exactly the calls between connect and release hold a client, each its own.
ClientsInv ==
  /\ \A c \in Calls : client[c] # None <=> pc[c] \in Holding
  /\ \A c, d \in Calls : client[c] = client[d] /\ client[c] # None => c = d

\* What a connection has in its transaction.
ConnectionsInv ==
  /\ IdleIsClean
  /\ \A c \in Calls :
       /\ pc[c] = "begin" => txn[client[c]] = "none" /\ pending[client[c]] = {}
       /\ pc[c] = "work" =>
            /\ txn[client[c]] = "open"
            /\ c \in ByClient =>
                 pending[client[c]] = {<<c, i>> : i \in (from[c] + 1)..(from[c] + step[c])}
            /\ c \notin ByClient => pending[client[c]] = {}

\* Where a call is in its list.
ProgressInv ==
  \A c \in Calls :
    /\ pc[c] \in {"connect", "begin", "work", "rollback", "sleep"} => from[c] < Items[c]
    /\ pc[c] \in {"new", "connect", "begin", "sleep"} => step[c] = 0
    /\ pc[c] = "new" => from[c] = 0
    /\ pc[c] = "work" => from[c] + step[c] <= BatchEnd(c)
    /\ pc[c] = "done" => from[c] = Items[c]
    /\ pc[c] = "sleep" => attempt[c] < MaxRetries

\* A call of a client has stored the items of its batches that are over.
StoredInv ==
  \A c \in ByClient : pc[c] # "lost" => stored[c] = Batches!Prefix(c, from[c])

IInv == TypeOK /\ ClientsInv /\ ConnectionsInv /\ ProgressInv /\ StoredInv

-----------------------------------------------------------------------------

LEMMA BatchEndBounds ==
  ASSUME TypeOK, NEW c \in Calls
  PROVE  /\ BatchEnd(c) \in Nat
         /\ BatchEnd(c) <= Items[c]
         /\ from[c] < Items[c] => from[c] < BatchEnd(c)
  BY TransactionsAssumption DEF TypeOK, BatchEnd

\* Items of other calls change nothing of a call.
LEMMA WithOthers ==
  ASSUME TypeOK, NEW d \in Calls, NEW W, \A i \in 1..Items[d] : <<d, i>> \notin W
  PROVE  With(W)[d] = stored[d]
<1>1. stored[d] \in [1..Items[d] -> Nat]
  BY DEF TypeOK
<1>2. With(W)[d] = [i \in 1..Items[d] |-> stored[d][i] + IF <<d, i>> \in W THEN 1 ELSE 0]
  BY DEF With
<1>3. \A i \in 1..Items[d] : stored[d][i] + (IF <<d, i>> \in W THEN 1 ELSE 0) = stored[d][i]
  <2> TAKE i \in 1..Items[d]
  <2>1. stored[d][i] \in Nat
    BY <1>1
  <2>2. (IF <<d, i>> \in W THEN 1 ELSE 0) = 0
    OBVIOUS
  <2> QED
    BY <2>1, <2>2
<1> QED
  BY <1>1, <1>2, <1>3

\* The items after the first m up to the n-th make the first n.
LEMMA WithBatch ==
  ASSUME TypeOK, NEW c \in Calls, NEW m \in Nat, NEW n \in Nat, m <= n, NEW W,
         stored[c] = Batches!Prefix(c, m),
         \A i \in 1..Items[c] : <<c, i>> \in W <=> m < i /\ i <= n
  PROVE  With(W)[c] = Batches!Prefix(c, n)
<1> DEFINE old(i) == IF i <= m THEN 1 ELSE 0
           new(i) == IF i <= n THEN 1 ELSE 0
<1>1. With(W)[c] = [i \in 1..Items[c] |-> stored[c][i] + IF <<c, i>> \in W THEN 1 ELSE 0]
  BY DEF With
<1>2. \A i \in 1..Items[c] : stored[c][i] = old(i)
  BY DEF Batches!Prefix
<1>3. \A i \in 1..Items[c] : old(i) + (IF <<c, i>> \in W THEN 1 ELSE 0) = new(i)
  <2> TAKE i \in 1..Items[c]
  <2>1. i \in Nat
    BY TransactionsAssumption
  <2> QED
    BY <2>1
<1>4. Batches!Prefix(c, n) = [i \in 1..Items[c] |-> new(i)]
  BY DEF Batches!Prefix
<1> QED
  BY <1>1, <1>2, <1>3, <1>4

\* Whatever is written, the counts are numbers.
LEMMA WithType ==
  ASSUME TypeOK, NEW W
  PROVE  \A c \in Calls : With(W)[c] \in [1..Items[c] -> Nat]
<1> TAKE c \in Calls
<1>1. stored[c] \in [1..Items[c] -> Nat]
  BY DEF TypeOK
<1>2. \A i \in 1..Items[c] : stored[c][i] + (IF <<c, i>> \in W THEN 1 ELSE 0) \in Nat
  <2> TAKE i \in 1..Items[c]
  <2>1. stored[c][i] \in Nat
    BY <1>1
  <2>2. (IF <<c, i>> \in W THEN 1 ELSE 0) \in {0, 1}
    OBVIOUS
  <2> QED
    BY <2>1, <2>2
<1> QED
  BY <1>2 DEF With

-----------------------------------------------------------------------------

LEMMA InitInv == Init => IInv
<1> SUFFICES ASSUME Init PROVE IInv
  OBVIOUS
<1>1. TypeOK
  BY TransactionsAssumption DEF Init, TypeOK
<1>2. ClientsInv
  BY DEF Init, ClientsInv, Holding
<1>3. ConnectionsInv
  BY DEF Init, ConnectionsInv, IdleIsClean, Idle
<1>4. ProgressInv
  BY TransactionsAssumption DEF Init, ProgressInv
<1>5. StoredInv
  <2> SUFFICES ASSUME NEW c \in ByClient PROVE stored[c] = Batches!Prefix(c, from[c])
    BY DEF StoredInv
  <2>1. c \in Calls /\ from[c] = 0 /\ stored[c] = [i \in 1..Items[c] |-> 0]
    BY TransactionsAssumption DEF Init
  <2>2. \A i \in 1..Items[c] : (IF i <= 0 THEN 1 ELSE 0) = 0
    BY TransactionsAssumption, <2>1
  <2> QED
    BY <2>1, <2>2 DEF Batches!Prefix
<1> QED
  BY <1>1, <1>2, <1>3, <1>4, <1>5 DEF IInv

LEMMA TypeStep == IInv /\ [Next]_vars => TypeOK'
<1> SUFFICES ASSUME IInv, [Next]_vars PROVE TypeOK'
  OBVIOUS
<1> USE TransactionsAssumption DEF IInv, ClientsInv, Holding
<1>0. TypeOK
  OBVIOUS
<1>1. CASE UNCHANGED vars
  BY <1>1 DEF vars, call, connection, TypeOK
<1>2. CASE Crash
  <2>1. \A c \in Calls : stored'[c] \in [1..Items[c] -> Nat]
    BY <1>0, <1>2, WithType DEF Crash
  <2>2. pc' \in [Calls -> {"new", "connect", "begin", "work", "rollback", "sleep",
                           "done", "failed", "lost"}]
    BY <1>2 DEF Crash, TypeOK
  <2>3. txn' \in [Clients -> {"none", "open", "aborted"}] /\ pending' \in [Clients -> SUBSET Item]
    BY <1>2 DEF Crash
  <2>4. /\ client' \in [Calls -> Clients \cup {None}]
        /\ error' \in [Calls -> Errors \cup {None}]
        /\ crashes' \in 0..MaxCrashes
    BY <1>2 DEF Crash, TypeOK
  <2> QED
    BY <1>2, <2>1, <2>2, <2>3, <2>4 DEF Crash, TypeOK
<1>3. ASSUME NEW c \in Calls,
             \/ Start(c) \/ Connect(c) \/ ConnectTimesOut(c) \/ Begins(c)
             \/ QueryFails(c) \/ RollsBack(c) \/ RollbackFails(c) \/ WakesUp(c)
      PROVE  TypeOK'
  <2>1. CASE Start(c)
    BY <2>1 DEF Start, connection, TypeOK
  <2>2. CASE Connect(c)
    BY <2>2 DEF Connect, Idle, connection, TypeOK
  <2>3. CASE ConnectTimesOut(c)
    BY <2>3 DEF ConnectTimesOut, connection, TypeOK
  <2>4. CASE Begins(c)
    BY <2>4 DEF Begins, TypeOK
  <2>5. CASE QueryFails(c)
    BY <2>5 DEF QueryFails, TypeOK
  <2>6. CASE RollsBack(c) \/ RollbackFails(c)
    <3>1. PICK thrown : EndsAttempt(c, thrown)
      BY <2>6 DEF RollsBack, RollbackFails
    <3> QED BY <3>1 DEF EndsAttempt, TypeOK
  <2>7. CASE WakesUp(c)
    <3>1. attempt[c] + 1 \in 1..MaxRetries
      BY <2>7 DEF WakesUp, ProgressInv, TypeOK
    <3> QED
      BY <2>7, <3>1 DEF WakesUp, connection, TypeOK
  <2> QED
    BY <1>3, <2>1, <2>2, <2>3, <2>4, <2>5, <2>6, <2>7
<1>4. ASSUME NEW c \in Calls, Writes(c) PROVE TypeOK'
  <2> DEFINE item == from[c] + step[c] + 1
  <2>1. <<c, item>> \in Item
    BY DEF Item, TypeOK
  <2>2. \A d \in Calls : stored'[d] \in [1..Items[d] -> Nat]
    BY <1>0, <1>4, WithType DEF Writes, TypeOK
  <2>3. pending' \in [Clients -> SUBSET Item]
    <3>1. CASE c \in ByClient
      <4>1. pending' = [pending EXCEPT ![client[c]] = @ \cup {<<c, item>>}]
        BY <1>4, <3>1 DEF Writes
      <4> QED
        BY <2>1, <4>1 DEF TypeOK
    <3>2. CASE c \notin ByClient
      BY <1>4, <3>2 DEF Writes, TypeOK
    <3> QED
      BY <3>1, <3>2
  <2> QED
    BY <1>4, <2>2, <2>3 DEF Writes, TypeOK
<1>5. ASSUME NEW c \in Calls, Commits(c) PROVE TypeOK'
  <2>1. \A d \in Calls : stored'[d] \in [1..Items[d] -> Nat]
    BY <1>0, <1>5, WithType DEF Commits, TypeOK
  <2>2. BatchEnd(c) \in Nat
    BY BatchEndBounds
  <2> QED
    BY <1>5, <2>1, <2>2 DEF Commits, NextBatch, TypeOK
<1> QED
  BY <1>1, <1>2, <1>3, <1>4, <1>5 DEF Next, Works

LEMMA ClientsStep == IInv /\ [Next]_vars => ClientsInv'
<1> SUFFICES ASSUME IInv, [Next]_vars PROVE ClientsInv'
  OBVIOUS
<1> USE TransactionsAssumption DEF IInv, ClientsInv, Holding, TypeOK
<1>1. CASE UNCHANGED vars
  BY <1>1 DEF vars, call
<1>2. CASE Crash
  BY <1>2 DEF Crash
<1>3. ASSUME NEW c \in Calls, Start(c) \/ ConnectTimesOut(c) \/ WakesUp(c)
      PROVE  ClientsInv'
  BY <1>3 DEF Start, ConnectTimesOut, WakesUp
<1>4. ASSUME NEW c \in Calls, Connect(c) PROVE ClientsInv'
  BY <1>4 DEF Connect, Idle
<1>5. ASSUME NEW c \in Calls, Begins(c) \/ Writes(c) \/ QueryFails(c) PROVE ClientsInv'
  BY <1>5 DEF Begins, Writes, QueryFails
<1>6. ASSUME NEW c \in Calls, Commits(c) \/ RollsBack(c) \/ RollbackFails(c) PROVE ClientsInv'
  <2>1. /\ client' = [client EXCEPT ![c] = None]
        /\ pc'[c] \notin Holding
        /\ \A d \in Calls \ {c} : pc'[d] = pc[d]
    BY <1>6 DEF Commits, NextBatch, RollsBack, RollbackFails, EndsAttempt, Retried
  <2> QED
    BY <2>1
<1> QED
  BY <1>1, <1>2, <1>3, <1>4, <1>5, <1>6 DEF Next, Works

\* A call that connects gets a clean client.
LEMMA ConnectKeepsConnections ==
  ASSUME IInv, NEW c \in Calls, Connect(c)
  PROVE  ConnectionsInv'
<1>1. PICK k \in Idle : client' = [client EXCEPT ![c] = k]
  BY DEF Connect
<1>2. /\ pc[c] = "connect"
      /\ pc' = [pc EXCEPT ![c] = "begin"]
      /\ UNCHANGED <<txn, pending, from, step>>
  BY DEF Connect, connection
<1>3. k \in Clients /\ txn[k] = "none" /\ pending[k] = {} /\ \A d \in Calls : client[d] # k
  BY DEF IInv, ConnectionsInv, IdleIsClean, Idle
<1>4. client \in [Calls -> Clients \cup {None}] /\ DOMAIN pc = Calls
  BY DEF IInv, TypeOK
<1>5. client'[c] = k /\ \A d \in Calls \ {c} : client'[d] = client[d] /\ pc'[d] = pc[d]
  BY <1>1, <1>2, <1>4
<1>6. pc'[c] = "begin"
  BY <1>2, <1>4
<1>7. client[c] = None
  BY <1>2 DEF IInv, ClientsInv, Holding
<1>8. ASSUME NEW j \in Clients, \A d \in Calls : client'[d] # j
      PROVE  txn'[j] = "none" /\ pending'[j] = {}
  <2>1. \A d \in Calls : client[d] # j
    BY <1>5, <1>7, <1>8, TransactionsAssumption
  <2> QED
    BY <1>2, <2>1 DEF IInv, ConnectionsInv, IdleIsClean, Idle
<1>9. IdleIsClean'
  BY <1>8 DEF IdleIsClean, Idle
<1>10. ASSUME NEW d \in Calls
       PROVE  /\ pc'[d] = "begin" => txn'[client'[d]] = "none" /\ pending'[client'[d]] = {}
              /\ pc'[d] = "work" =>
                   /\ txn'[client'[d]] = "open"
                   /\ d \in ByClient => pending'[client'[d]] =
                        {<<d, i>> : i \in (from'[d] + 1)..(from'[d] + step'[d])}
                   /\ d \notin ByClient => pending'[client'[d]] = {}
  <2>1. CASE d = c
    BY <1>2, <1>3, <1>5, <1>6, <2>1
  <2>2. CASE d # c
    BY <1>2, <1>5, <2>2 DEF IInv, ConnectionsInv
  <2> QED
    BY <2>1, <2>2
<1> QED
  BY <1>9, <1>10 DEF ConnectionsInv

LEMMA NextItem ==
  ASSUME NEW c, NEW a \in Nat, NEW n \in Nat
  PROVE  {<<c, i>> : i \in (a + 1)..(a + n + 1)} =
           {<<c, i>> : i \in (a + 1)..(a + n)} \cup {<<c, a + n + 1>>}
<1>1. \A i \in (a + 1)..(a + n + 1) : i \in (a + 1)..(a + n) \/ i = a + n + 1
  OBVIOUS
<1>2. \A i \in (a + 1)..(a + n) : i \in (a + 1)..(a + n + 1)
  OBVIOUS
<1>3. a + n + 1 \in (a + 1)..(a + n + 1)
  OBVIOUS
<1> QED
  BY <1>1, <1>2, <1>3

LEMMA WrittenItems ==
  ASSUME IInv, NEW c \in ByClient, Writes(c)
  PROVE  pending'[client[c]] = {<<c, i>> : i \in (from[c] + 1)..(from[c] + step'[c])}
<1> DEFINE a == from[c]
           n == step[c]
           k == client[c]
<1>1. c \in Calls /\ k \in Clients
  BY TransactionsAssumption DEF Writes, IInv, ClientsInv, Holding, TypeOK
<1>2. a \in Nat /\ n \in Nat /\ step'[c] = n + 1
  BY <1>1 DEF Writes, IInv, TypeOK
<1>3. pending' = [pending EXCEPT ![k] = @ \cup {<<c, a + n + 1>>}]
  BY DEF Writes
<1>4. pending'[k] = pending[k] \cup {<<c, a + n + 1>>}
  BY <1>1, <1>3 DEF IInv, TypeOK
<1>5. pending[k] = {<<c, i>> : i \in (a + 1)..(a + n)}
  BY <1>1 DEF Writes, IInv, ConnectionsInv
<1>6. step'[c] = n + 1 /\ a + (n + 1) = a + n + 1
  BY <1>2
<1> HIDE DEF a, n, k
<1>7. {<<c, i>> : i \in (a + 1)..(a + n + 1)} =
         {<<c, i>> : i \in (a + 1)..(a + n)} \cup {<<c, a + n + 1>>}
  BY <1>2, NextItem
<1>8. pending'[k] = {<<c, i>> : i \in (a + 1)..(a + step'[c])}
  BY <1>4, <1>5, <1>6, <1>7
<1> QED
  BY <1>8 DEF a, k

LEMMA ConnectionsStep == IInv /\ [Next]_vars => ConnectionsInv'
<1> SUFFICES ASSUME IInv, [Next]_vars PROVE ConnectionsInv'
  OBVIOUS
<1> USE TransactionsAssumption DEF IInv, ClientsInv, Holding, TypeOK, ConnectionsInv, IdleIsClean, Idle
<1>1. CASE UNCHANGED vars
  BY <1>1 DEF vars, call, connection
<1>2. CASE Crash
  BY <1>2 DEF Crash
<1>3. ASSUME NEW c \in Calls, Start(c) \/ ConnectTimesOut(c) \/ WakesUp(c)
      PROVE  ConnectionsInv'
  <2>1. /\ pc'[c] \notin Holding
        /\ \A d \in Calls \ {c} : pc'[d] = pc[d]
        /\ UNCHANGED <<client, txn, pending, from, step>>
    BY <1>3 DEF Start, ConnectTimesOut, WakesUp, connection
  <2> QED
    BY <2>1
<1>4. ASSUME NEW c \in Calls, Connect(c) PROVE ConnectionsInv'
  BY <1>4, ConnectKeepsConnections
<1>5. ASSUME NEW c \in Calls, Begins(c) PROVE ConnectionsInv'
  BY <1>5 DEF Begins, ProgressInv
<1>6. ASSUME NEW c \in Calls, Writes(c) PROVE ConnectionsInv'
  <2> DEFINE k == client[c]
  <2>1. k \in Clients /\ \A d \in Calls \ {c} : client[d] # k
    BY <1>6 DEF Writes
  <2>2. CASE c \in ByClient
    <3>1. pending' = [pending EXCEPT ![k] = @ \cup {<<c, from[c] + step[c] + 1>>}]
      BY <1>6, <2>2 DEF Writes
    <3>2. pending'[k] = {<<c, i>> : i \in (from[c] + 1)..(from[c] + step'[c])}
      BY <1>6, <2>2, WrittenItems
    <3> QED
      BY <1>6, <2>1, <2>2, <3>1, <3>2 DEF Writes
  <2>3. CASE c \notin ByClient
    BY <1>6, <2>1, <2>3 DEF Writes
  <2> QED
    BY <2>2, <2>3
<1>7. ASSUME NEW c \in Calls, QueryFails(c) PROVE ConnectionsInv'
  BY <1>7 DEF QueryFails
<1>8. ASSUME NEW c \in Calls, Commits(c) \/ RollsBack(c) \/ RollbackFails(c) PROVE ConnectionsInv'
  <2> DEFINE k == client[c]
  <2>1. k \in Clients /\ \A d \in Calls \ {c} : client[d] # k
    BY <1>8 DEF Commits, RollsBack, RollbackFails, EndsAttempt
  <2>2. /\ client' = [client EXCEPT ![c] = None]
        /\ txn' = [txn EXCEPT ![k] = "none"]
        /\ pending' = [pending EXCEPT ![k] = {}]
        /\ pc'[c] \notin Holding
        /\ \A d \in Calls \ {c} : pc'[d] = pc[d] /\ from'[d] = from[d] /\ step'[d] = step[d]
    BY <1>8 DEF Commits, NextBatch, RollsBack, RollbackFails, EndsAttempt
  <2> QED
    BY <2>1, <2>2
<1> QED
  BY <1>1, <1>2, <1>3, <1>4, <1>5, <1>6, <1>7, <1>8 DEF Next, Works

LEMMA ProgressStep == IInv /\ [Next]_vars => ProgressInv'
<1> SUFFICES ASSUME IInv, [Next]_vars PROVE ProgressInv'
  OBVIOUS
<1> USE TransactionsAssumption DEF IInv, TypeOK, ProgressInv, BatchEnd
<1>1. CASE UNCHANGED vars
  BY <1>1 DEF vars, call
<1>2. CASE Crash
  BY <1>2 DEF Crash
<1>3. ASSUME NEW c \in Calls, Start(c) \/ Connect(c) \/ ConnectTimesOut(c) \/ WakesUp(c)
      PROVE  ProgressInv'
  BY <1>3 DEF Start, Connect, ConnectTimesOut, WakesUp
<1>4. ASSUME NEW c \in Calls, Begins(c) PROVE ProgressInv'
  BY <1>4 DEF Begins
<1>5. ASSUME NEW c \in Calls, Writes(c) PROVE ProgressInv'
  <2>1. from[c] + step[c] + 1 <= BatchEnd(c)
    BY <1>5 DEF Writes, Worked
  <2>2. /\ pc[c] = "work" /\ step' = [step EXCEPT ![c] = @ + 1]
        /\ UNCHANGED <<pc, from, attempt>>
    BY <1>5 DEF Writes
  <2>3. SUFFICES ASSUME NEW d \in Calls
                 PROVE  /\ pc[d] = "work" => from[d] + step'[d] <= BatchEnd(d)
                        /\ pc[d] \in {"new", "connect", "begin", "sleep"} => step'[d] = 0
    BY <2>2
  <2>4. step'[d] = IF d = c THEN step[d] + 1 ELSE step[d]
    BY <2>2
  <2>5. from[d] + step[d] + 1 = from[d] + (step[d] + 1)
    OBVIOUS
  <2> QED
    BY <2>1, <2>2, <2>4, <2>5
<1>6. ASSUME NEW c \in Calls, QueryFails(c) PROVE ProgressInv'
  BY <1>6 DEF QueryFails
<1>7. ASSUME NEW c \in Calls, Commits(c) PROVE ProgressInv'
  BY <1>7 DEF Commits, NextBatch
<1>8. ASSUME NEW c \in Calls, RollsBack(c) \/ RollbackFails(c) PROVE ProgressInv'
  BY <1>8 DEF RollsBack, RollbackFails, EndsAttempt, Retried
<1> QED
  BY <1>1, <1>2, <1>3, <1>4, <1>5, <1>6, <1>7, <1>8 DEF Next, Works

LEMMA StoredStep == IInv /\ [Next]_vars => StoredInv'
<1> SUFFICES ASSUME IInv, [Next]_vars, NEW c \in ByClient, pc'[c] # "lost"
             PROVE  (stored[c])' = Batches!Prefix(c, from'[c])
  BY DEF StoredInv
<1>0. TypeOK /\ c \in Calls
  BY TransactionsAssumption DEF IInv
<1>a. pc[c] # "lost" => stored[c] = Batches!Prefix(c, from[c])
  BY DEF IInv, StoredInv
<1>1. CASE UNCHANGED vars
  BY <1>1, <1>a DEF vars, call
<1>2. CASE Crash
  <2>1. pc[c] \in {"new", "done", "failed"} /\ from'[c] = from[c]
    BY <1>0, <1>2 DEF Crash
  <2>2. PICK sent \in SUBSET {d \in Calls : pc[d] = "work" /\ Worked(d)} :
          stored' = With(UNION {pending[client[d]] : d \in {e \in sent : txn[client[e]] = "open"}})
    BY <1>2 DEF Crash
  <2> DEFINE W == UNION {pending[client[d]] : d \in {e \in sent : txn[client[e]] = "open"}}
  <2>3. ASSUME NEW d \in sent PROVE \A i : <<c, i>> \notin pending[client[d]]
    BY <2>1, <2>3 DEF IInv, ConnectionsInv
  <2>4. \A i \in 1..Items[c] : <<c, i>> \notin W
    BY <2>3
  <2>5. With(W)[c] = stored[c]
    BY <1>0, <2>4, WithOthers
  <2> QED
    BY <1>a, <2>1, <2>2, <2>5
<1>3. ASSUME NEW d \in Calls,
             \/ Start(d) \/ Connect(d) \/ ConnectTimesOut(d) \/ Begins(d)
             \/ QueryFails(d) \/ RollsBack(d) \/ RollbackFails(d) \/ WakesUp(d)
      PROVE  (stored[c])' = Batches!Prefix(c, from'[c])
  <2>1. UNCHANGED <<stored, from>> /\ (pc[c] = "lost" => pc'[c] = "lost")
    BY <1>0, <1>3
    DEF Start, Connect, ConnectTimesOut, Begins, QueryFails, RollsBack, RollbackFails, EndsAttempt,
        WakesUp, TypeOK
  <2> QED
    BY <1>a, <2>1
<1>4. ASSUME NEW d \in Calls, Writes(d) PROVE (stored[c])' = Batches!Prefix(c, from'[c])
  <2>1. UNCHANGED <<pc, from>>
    BY <1>4 DEF Writes
  <2>2. CASE d \in ByClient
    BY <1>4, <1>a, <2>1, <2>2 DEF Writes
  <2>3. CASE d \notin ByClient
    <3>1. PICK i : stored' = With({<<d, i>>})
      BY <1>4, <2>3 DEF Writes
    <3>2. With({<<d, i>>})[c] = stored[c]
      BY <1>0, <2>3, WithOthers
    <3> QED
      BY <1>a, <2>1, <3>1, <3>2
  <2> QED
    BY <2>2, <2>3
<1>5. ASSUME NEW d \in Calls, Commits(d) PROVE (stored[c])' = Batches!Prefix(c, from'[c])
  <2>1. /\ stored' = With(pending[client[d]])
        /\ from' = [from EXCEPT ![d] = BatchEnd(d)]
        /\ \A e \in Calls \ {d} : pc'[e] = pc[e]
        /\ pc[d] = "work" /\ from[d] + step[d] = BatchEnd(d)
    BY <1>5 DEF Commits, NextBatch, Worked, IInv, ConnectionsInv, TypeOK
  <2>2. CASE d = c
    <3>1. pending[client[c]] = {<<c, i>> : i \in (from[c] + 1)..BatchEnd(c)}
      BY <1>0, <2>1, <2>2 DEF IInv, ConnectionsInv
    <3>2. from[c] \in Nat /\ BatchEnd(c) \in Nat /\ from[c] <= BatchEnd(c)
      BY <1>0, <2>1, <2>2, BatchEndBounds DEF IInv, TypeOK
    <3>3. \A i \in 1..Items[c] :
            <<c, i>> \in pending[client[c]] <=> from[c] < i /\ i <= BatchEnd(c)
      BY <1>0, <3>1, <3>2, TransactionsAssumption
    <3>4. stored[c] = Batches!Prefix(c, from[c])
      BY <1>a, <2>1, <2>2
    <3>5. With(pending[client[c]])[c] = Batches!Prefix(c, BatchEnd(c))
      BY <1>0, <3>2, <3>3, <3>4, WithBatch
    <3>6. from'[c] = BatchEnd(c)
      BY <1>0, <2>1, <2>2 DEF TypeOK
    <3> QED
      BY <2>1, <2>2, <3>5, <3>6
  <2>3. CASE d # c
    <3>1. \A i \in 1..Items[c] : <<c, i>> \notin pending[client[d]]
      BY <2>1, <2>3 DEF IInv, ConnectionsInv
    <3>2. With(pending[client[d]])[c] = stored[c]
      BY <1>0, <3>1, WithOthers
    <3>3. from'[c] = from[c] /\ pc'[c] = pc[c]
      BY <1>0, <2>1, <2>3 DEF TypeOK
    <3> QED
      BY <1>a, <2>1, <3>2, <3>3
  <2> QED
    BY <2>2, <2>3
<1> QED
  BY <1>1, <1>2, <1>3, <1>4, <1>5 DEF Next, Works

LEMMA Invariance == Spec => []IInv
<1>1. IInv /\ [Next]_vars => IInv'
  BY TypeStep, ClientsStep, ConnectionsStep, ProgressStep, StoredStep DEF IInv
<1> QED
  BY InitInv, <1>1, PTL DEF Spec

\* The type invariant.
THEOREM TypeCorrect == Spec => []TypeOK
BY Invariance, PTL DEF IInv

\* No client goes back to the pool with a transaction, whichever query failed
\* and however often calls were retried.
THEOREM CleanClients == Spec => []IdleIsClean
<1>1. IInv => IdleIsClean
  BY DEF IInv, ConnectionsInv
<1> QED
  BY Invariance, <1>1, PTL

\* Bulk operations whose work uses their client implement BatchStore: batches
\* are stored in order, entirely and once.
THEOREM ImplementsBatchStore == Spec => StoredByBatch
<1>1. Init => Batches!Init
  <2> SUFFICES ASSUME Init PROVE Batches!Init
    OBVIOUS
  <2>1. ByClient \subseteq Calls
    BY TransactionsAssumption
  <2>2. ASSUME NEW c \in ByClient PROVE stored[c] = Batches!Prefix(c, 0)
    <3>1. StoredInv
      BY InitInv DEF IInv
    <3> QED
      BY <2>1, <2>2, <3>1 DEF Init, StoredInv
  <2>3. outcome = [c \in ByClient |-> "running"]
    BY <2>1 DEF Init, outcome
  <2> QED
    BY <2>2, <2>3 DEF Batches!Init
<1>2. IInv /\ IInv' /\ [Next]_vars => [Batches!Next]_(Batches!vars)
  <2> SUFFICES ASSUME IInv, IInv', [Next]_vars, NEW c \in ByClient
               PROVE  \/ stored'[c] = stored[c] /\ outcome'[c] = outcome[c]
                      \/ /\ outcome[c] = "running"
                         /\ \/ stored'[c] = stored[c]
                            \/ \E n \in 0..Items[c] :
                                 /\ stored[c] = Batches!Prefix(c, n)
                                 /\ stored'[c] = Batches!Prefix(c, Batches!BatchEnd(c, n))
                         /\ \/ outcome'[c] \in {"running", "failed"}
                            \/ outcome'[c] = "done" /\ stored'[c] = Batches!Prefix(c, Items[c])
    BY DEF Batches!Next, Batches!Moves, Batches!Stays, Batches!Stores
  <2>1. c \in Calls /\ TypeOK
    BY TransactionsAssumption DEF IInv
  <2>2. CASE UNCHANGED vars
    <3>1. stored'[c] = stored[c] /\ outcome'[c] = outcome[c]
      BY <2>2 DEF vars, call, outcome
    <3> QED
      BY <3>1
  <2>3. ASSUME NEW d \in Calls, Commits(d), d = c PROVE Commits(c)
    BY <2>3
  <2>4. CASE Commits(c)
    <3>1. pc[c] = "work" /\ from'[c] = BatchEnd(c) /\ pc'[c] \in {"done", "connect"}
      BY <2>1, <2>4 DEF Commits, NextBatch, TypeOK
    <3>2. stored[c] = Batches!Prefix(c, from[c]) /\ stored'[c] = Batches!Prefix(c, BatchEnd(c))
      BY <3>1 DEF IInv, StoredInv
    <3>3. from[c] \in 0..Items[c] /\ Batches!BatchEnd(c, from[c]) = BatchEnd(c)
      BY <2>1, <3>1, TransactionsAssumption DEF IInv, ProgressInv, TypeOK, BatchEnd, Batches!BatchEnd
    <3>4. outcome[c] = "running" /\ outcome'[c] \in {"running", "done"}
      BY <3>1 DEF outcome
    <3>5. outcome'[c] = "done" => stored'[c] = Batches!Prefix(c, Items[c])
      <4>1. outcome'[c] = "done" => pc'[c] = "done"
        BY <3>1 DEF outcome
      <4>2. pc'[c] = "done" => from'[c] = Items[c]
        BY <2>1 DEF IInv, ProgressInv
      <4> QED
        BY <3>1, <3>2, <4>1, <4>2
    <3> QED
      BY <3>2, <3>3, <3>4, <3>5
  <2>5. CASE Crash
    <3>1. PICK sent \in SUBSET {d \in Calls : pc[d] = "work" /\ Worked(d)} :
            stored' = With(UNION {pending[client[d]] : d \in {e \in sent : txn[client[e]] = "open"}})
      BY <2>5 DEF Crash
    <3> DEFINE W == UNION {pending[client[d]] : d \in {e \in sent : txn[client[e]] = "open"}}
    <3>2. ASSUME NEW d \in sent, d # c PROVE \A i : <<c, i>> \notin pending[client[d]]
      BY <3>2 DEF IInv, ConnectionsInv
    <3>3. pc'[c] = IF pc[c] \in {"new", "done", "failed"} THEN pc[c] ELSE "lost"
      BY <2>1, <2>5 DEF Crash
    <3>4. CASE c \notin sent
      <4>1. \A i \in 1..Items[c] : <<c, i>> \notin W
        BY <3>2, <3>4
      <4>2. stored'[c] = stored[c]
        BY <2>1, <3>1, <4>1, WithOthers
      <4>3. outcome'[c] = outcome[c] \/ (outcome[c] = "running" /\ outcome'[c] = "failed")
        <5>1. CASE pc[c] \in {"new", "done", "failed"}
          <6>1. pc'[c] = pc[c]
            BY <3>3, <5>1
          <6> QED
            BY <6>1 DEF outcome
        <5>2. CASE pc[c] \notin {"new", "done", "failed"}
          <6>0. pc'[c] = "lost"
            BY <3>3, <5>2
          <6>1. pc'[c] = "lost" /\ outcome'[c] = "failed"
            BY <6>0 DEF outcome
          <6>2. outcome[c] \in {"failed", "running"}
            BY <5>2 DEF outcome
          <6> QED
            BY <6>1, <6>2
        <5> QED
          BY <5>1, <5>2
      <4> QED
        BY <4>2, <4>3
    <3>5. CASE c \in sent
      <4>1. pc[c] = "work" /\ from[c] + step[c] = BatchEnd(c)
        BY <3>5 DEF Worked
      <4>2. txn[client[c]] = "open" /\
            pending[client[c]] = {<<c, i>> : i \in (from[c] + 1)..BatchEnd(c)}
        BY <2>1, <4>1 DEF IInv, ConnectionsInv
      <4>3. from[c] \in Nat /\ BatchEnd(c) \in Nat /\ from[c] <= BatchEnd(c) /\ from[c] <= Items[c]
        <5>1. from[c] \in Nat /\ Items[c] \in Nat /\ from[c] < Items[c]
          BY <2>1, <4>1, TransactionsAssumption DEF IInv, ProgressInv, TypeOK
        <5>2. BatchEnd(c) \in Nat /\ (from[c] < Items[c] => from[c] < BatchEnd(c))
          BY <2>1, BatchEndBounds DEF IInv
        <5> QED
          BY <5>1, <5>2
      <4>4. \A i : <<c, i>> \in W <=> <<c, i>> \in pending[client[c]]
        BY <3>2, <3>5, <4>2
      <4>5. \A i \in 1..Items[c] : <<c, i>> \in pending[client[c]] <=> from[c] < i /\ i <= BatchEnd(c)
        BY <2>1, <4>2, <4>3, TransactionsAssumption
      <4>6. \A i \in 1..Items[c] : <<c, i>> \in W <=> from[c] < i /\ i <= BatchEnd(c)
        BY <4>4, <4>5
      <4>7. stored[c] = Batches!Prefix(c, from[c])
        BY <4>1 DEF IInv, StoredInv
      <4> HIDE DEF W
      <4>8. With(W)[c] = Batches!Prefix(c, BatchEnd(c))
        BY <2>1, <4>3, <4>6, <4>7, WithBatch
      <4>9. stored'[c] = Batches!Prefix(c, BatchEnd(c))
        BY <3>1, <4>8 DEF W
      <4>10. outcome[c] = "running" /\ outcome'[c] = "failed"
        BY <3>3, <4>1 DEF outcome
      <4>11. from[c] \in 0..Items[c] /\ Batches!BatchEnd(c, from[c]) = BatchEnd(c)
        BY <2>1, <4>3, TransactionsAssumption DEF BatchEnd, Batches!BatchEnd
      <4> QED
        BY <4>7, <4>9, <4>10, <4>11
    <3> QED
      BY <3>4, <3>5
  <2>6. ASSUME NEW d \in Calls, d # c \/ ~Commits(d),
               \/ Start(d) \/ Connect(d) \/ ConnectTimesOut(d) \/ Begins(d) \/ Writes(d)
               \/ QueryFails(d) \/ Commits(d) \/ RollsBack(d) \/ RollbackFails(d) \/ WakesUp(d)
        PROVE  /\ stored'[c] = stored[c]
               /\ \/ outcome'[c] = outcome[c]
                  \/ /\ outcome[c] = "running"
                     /\ \/ outcome'[c] \in {"running", "failed"}
                        \/ outcome'[c] = "done" /\ stored'[c] = Batches!Prefix(c, Items[c])
    <3>1. CASE Writes(d)
      <4>1. stored'[c] = stored[c]
        <5>1. CASE d \in ByClient
          BY <3>1, <5>1 DEF Writes
        <5>2. CASE d \notin ByClient
          <6>1. PICK i : stored' = With({<<d, i>>})
            BY <3>1, <5>2 DEF Writes
          <6>2. With({<<d, i>>})[c] = stored[c]
            BY <2>1, <5>2, WithOthers
          <6> QED
            BY <6>1, <6>2
        <5> QED
          BY <5>1, <5>2
      <4>2. outcome'[c] = outcome[c]
        BY <3>1 DEF Writes, outcome
      <4> QED
        BY <4>1, <4>2
    <3>2. CASE Commits(d)
      <4>1. /\ d # c
            /\ stored' = With(pending[client[d]])
            /\ pc[d] = "work"
            /\ pc'[c] = pc[c]
        BY <2>1, <2>6, <3>2 DEF Commits, NextBatch, IInv, ConnectionsInv, TypeOK
      <4>2. \A i \in 1..Items[c] : <<c, i>> \notin pending[client[d]]
        BY <4>1 DEF IInv, ConnectionsInv
      <4>3. With(pending[client[d]])[c] = stored[c]
        BY <2>1, <4>2, WithOthers
      <4> QED
        BY <4>1, <4>3 DEF outcome
    <3>3. CASE Start(d)
      <4>1. stored' = stored /\ outcome'[c] \in {outcome[c], "running", "done"}
        BY <2>1, <3>3 DEF Start, outcome, TypeOK
      <4>2. CASE d = c
        <5>1. from[c] = 0 /\ outcome[c] = "running" /\ stored[c] = Batches!Prefix(c, from[c])
          BY <2>1, <3>3, <4>2 DEF Start, outcome, IInv, ProgressInv, StoredInv
        <5>2. outcome'[c] = "done" => Items[c] = 0
          BY <2>1, <3>3, <4>2 DEF Start, outcome, TypeOK
        <5> QED
          BY <4>1, <5>1, <5>2
      <4>3. CASE d # c
        BY <2>1, <3>3, <4>3 DEF Start, outcome, TypeOK
      <4> QED
        BY <4>2, <4>3
    <3>4. CASE \/ Connect(d) \/ ConnectTimesOut(d) \/ Begins(d) \/ QueryFails(d)
               \/ RollsBack(d) \/ RollbackFails(d) \/ WakesUp(d)
      <4>1. stored' = stored
        BY <3>4
        DEF Connect, ConnectTimesOut, Begins, QueryFails, RollsBack, RollbackFails, EndsAttempt,
            WakesUp
      <4>2. \/ pc'[c] = pc[c]
            \/ /\ pc[c] \in {"connect", "begin", "work", "rollback", "sleep"}
               /\ pc'[c] \in {"connect", "begin", "work", "rollback", "sleep", "failed"}
        BY <2>1, <3>4
        DEF Connect, ConnectTimesOut, Begins, QueryFails, RollsBack, RollbackFails, EndsAttempt,
            WakesUp, Retried, TypeOK
      <4> QED
        BY <4>1, <4>2 DEF outcome
    <3> QED
      BY <2>6, <3>1, <3>2, <3>3, <3>4
  <2> QED
    BY <2>2, <2>4, <2>5, <2>6 DEF Next, Works
<1> QED
  BY Invariance, <1>1, <1>2, PTL DEF Spec, StoredByBatch, Batches!Spec

-----------------------------------------------------------------------------
\* The repeatable jobs.

StepNames == LeagueNames \cup {"live", "featured", "maintenance", "observe", "listen"}
Late == {"maintenance", "observe", "listen"}

Servers ==
  [phase : {"down", "booting", "serving", "headless", "stopping", "stopped"},
   todo : Seq(StepNames), list : SUBSET AllTeams, featured : BOOLEAN, ports : Nat]

\* The jobs are all added before the maintenance worker runs.
StartInv ==
  /\ server \in Servers
  /\ \A i \in DOMAIN server.todo :
       server.todo[i] \notin Late => \E j \in DOMAIN server.todo : j > i /\ server.todo[j] = "maintenance"
  /\ server.list # {} => \E j \in DOMAIN server.todo : server.todo[j] = "maintenance"

\* A pass wants the jobs that Polled speaks of, league by league.
Covered(l) ==
  /\ \A t \in (teams \cap LeagueTeams[l]) \ doubt : TeamJob(t) \in pass.wanted
  /\ l \notin doubt => FeaturedJob(l) \in pass.wanted

PassInv ==
  /\ DOMAIN pass = {"at", "left", "wanted", "found", "sure"}
  /\ pass = [at |-> pass.at, left |-> pass.left, wanted |-> pass.wanted,
             found |-> pass.found, sure |-> pass.sure]
  /\ pass.at \in {"none", "lists", "removes"} /\ pass.left \in Seq(LeagueNames)
  /\ pass.at # "none" =>
       /\ server.phase # "down"
       /\ \A i \in DOMAIN server.todo : server.todo[i] # "maintenance"
       /\ \A l \in LeagueNames : (\E i \in DOMAIN pass.left : pass.left[i] = l) \/ Covered(l)
  /\ pass.at = "removes" => pass.left = <<>> /\ \A r \in pass.found : r.id \notin pass.wanted

ScheduleInv == teams \subseteq AllTeams /\ StartInv /\ PassInv /\ Polled

\* What is left after the first step.
LEMMA TailKeepsOrder ==
  ASSUME NEW s \in Seq(StepNames), s # <<>>,
         \A i \in DOMAIN s : s[i] \notin Late => \E j \in DOMAIN s : j > i /\ s[j] = "maintenance"
  PROVE  /\ Tail(s) \in Seq(StepNames)
         /\ \A i \in DOMAIN Tail(s) :
              Tail(s)[i] \notin Late => \E j \in DOMAIN Tail(s) : j > i /\ Tail(s)[j] = "maintenance"
         /\ Head(s) \notin Late => \E j \in DOMAIN Tail(s) : Tail(s)[j] = "maintenance"
         /\ \A j \in DOMAIN Tail(s) : \E i \in DOMAIN s : Tail(s)[j] = s[i]
<1>1. /\ Len(s) \in Nat /\ Len(s) > 0 /\ Len(Tail(s)) = Len(s) - 1
      /\ DOMAIN s = 1..Len(s) /\ DOMAIN Tail(s) = 1..(Len(s) - 1)
      /\ \A i \in 1..(Len(s) - 1) : Tail(s)[i] = s[i + 1]
      /\ Head(s) = s[1] /\ Tail(s) \in Seq(StepNames)
  OBVIOUS
<1>2. ASSUME NEW i \in DOMAIN Tail(s), Tail(s)[i] \notin Late
      PROVE  \E j \in DOMAIN Tail(s) : j > i /\ Tail(s)[j] = "maintenance"
  <2>1. PICK j \in DOMAIN s : j > i + 1 /\ s[j] = "maintenance"
    BY <1>1, <1>2
  <2>2. j - 1 \in DOMAIN Tail(s) /\ j - 1 > i /\ Tail(s)[j - 1] = "maintenance"
    BY <1>1, <2>1
  <2>3. QED
    BY <2>2
<1>3. ASSUME Head(s) \notin Late PROVE \E j \in DOMAIN Tail(s) : Tail(s)[j] = "maintenance"
  <2>1. PICK j \in DOMAIN s : j > 1 /\ s[j] = "maintenance"
    BY <1>1, <1>3
  <2>2. j - 1 \in DOMAIN Tail(s) /\ Tail(s)[j - 1] = "maintenance"
    BY <1>1, <2>1
  <2>3. QED
    BY <2>2
<1>4. \A j \in DOMAIN Tail(s) : j + 1 \in DOMAIN s /\ Tail(s)[j] = s[j + 1]
  BY <1>1
<1>5. QED
  BY <1>1, <1>2, <1>3, <1>4

\* The steps of the start, in their order (server/index.ts).
LEMMA StepsInOrder ==
  /\ Steps \in Seq(StepNames)
  /\ \A i \in DOMAIN Steps : Steps[i] \notin Late => \E j \in DOMAIN Steps : j > i /\ Steps[j] = "maintenance"
<1> DEFINE first == <<"live">> \o Leagues \o <<"featured">> \o Leagues
           last == <<"maintenance", "observe", "listen">>
<1>1. first \in Seq(StepNames) /\ last \in Seq(StepNames)
  <2>1. Leagues \in Seq(StepNames)
    BY ScheduleAssumption DEF StepNames
  <2>2. <<"live">> \in Seq(StepNames) /\ <<"featured">> \in Seq(StepNames) /\ last \in Seq(StepNames)
    BY DEF StepNames
  <2>3. QED
    BY <2>1, <2>2
<1>2. Steps = first \o last
  BY DEF Steps
<1>3. Len(last) = 3 /\ last[1] = "maintenance" /\ last[2] = "observe" /\ last[3] = "listen"
  OBVIOUS
<1> HIDE DEF first, last
<1>4. /\ Steps \in Seq(StepNames) /\ DOMAIN Steps = 1..(Len(first) + 3) /\ Len(first) \in Nat
      /\ \A i \in 1..3 : Steps[Len(first) + i] = last[i]
  <2>1. /\ Steps \in Seq(StepNames) /\ Len(first) \in Nat
        /\ Len(Steps) = Len(first) + Len(last)
        /\ \A i \in 1..(Len(first) + Len(last)) :
             Steps[i] = IF i <= Len(first) THEN first[i] ELSE last[i - Len(first)]
    BY <1>1, <1>2, ConcatProperties
  <2>2. DOMAIN Steps = 1..(Len(first) + 3)
    BY <1>3, <2>1
  <2>3. ASSUME NEW i \in 1..3 PROVE Steps[Len(first) + i] = last[i]
    <3>1. /\ Len(first) + i \in 1..(Len(first) + Len(last)) /\ ~(Len(first) + i <= Len(first))
          /\ (Len(first) + i) - Len(first) = i
      BY <1>3, <2>1
    <3>2. QED
      BY <2>1, <3>1
  <2>4. QED
    BY <2>1, <2>2, <2>3
<1>5. ASSUME NEW i \in DOMAIN Steps, Steps[i] \notin Late
      PROVE  \E j \in DOMAIN Steps : j > i /\ Steps[j] = "maintenance"
  <2>1. i <= Len(first)
    <3>1. SUFFICES ASSUME i > Len(first) PROVE FALSE
      BY <1>4
    <3>2. i - Len(first) \in 1..3 /\ Steps[Len(first) + (i - Len(first))] = last[i - Len(first)]
      BY <1>4, <3>1
    <3>3. QED
      BY <1>3, <1>4, <1>5, <3>2 DEF Late
  <2>2. Len(first) + 1 \in DOMAIN Steps /\ Steps[Len(first) + 1] = "maintenance" /\ Len(first) + 1 > i
    BY <1>3, <1>4, <2>1
  <2>3. QED
    BY <2>2
<1>6. QED
  BY <1>4, <1>5

\* While a job may still be added there is no pass.
LEMMA NoPassYet ==
  ASSUME StartInv, PassInv,
         \/ server.list # {}
         \/ \E l \in LeagueNames : Booting(l)
  PROVE  pass.at = "none"
<1>1. \E j \in DOMAIN server.todo : server.todo[j] = "maintenance"
  <2>1. CASE server.list # {}
    BY <2>1 DEF StartInv, Servers
  <2>2. ASSUME NEW l \in LeagueNames, Booting(l)
        PROVE  \E j \in DOMAIN server.todo : server.todo[j] = "maintenance"
    <3>1. 1 \in DOMAIN server.todo /\ server.todo[1] = l
      BY <2>2 DEF Booting, StartInv, Servers
    <3>2. l \notin Late
      BY ScheduleAssumption DEF Late
    <3>3. QED
      BY <3>1, <3>2 DEF StartInv, Servers
  <2>3. QED
    BY <2>1, <2>2
<1>2. QED
  BY <1>1 DEF PassInv

\* A step of the start, which takes its name from the list.
LEMMA StartGoesOn ==
  ASSUME StartInv, NEW name, Booting(name), NEW s \in Servers, s.todo = server.todo, server' = [s EXCEPT !.todo = Tail(@)],
         s.list # {} => name \notin Late
  PROVE  StartInv' /\ \A j \in DOMAIN server'.todo : \E i \in DOMAIN server.todo : server'.todo[j] = server.todo[i]
<1>1. /\ server.todo \in Seq(StepNames) /\ server.todo # <<>> /\ Head(server.todo) = name
      /\ \A i \in DOMAIN server.todo :
           server.todo[i] \notin Late => \E j \in DOMAIN server.todo : j > i /\ server.todo[j] = "maintenance"
  BY DEF StartInv, Servers, Booting
<1> DEFINE rest == Tail(server.todo)
<1>2. /\ rest \in Seq(StepNames)
      /\ \A i \in DOMAIN rest : rest[i] \notin Late => \E j \in DOMAIN rest : j > i /\ rest[j] = "maintenance"
      /\ name \notin Late => \E j \in DOMAIN rest : rest[j] = "maintenance"
      /\ \A j \in DOMAIN rest : \E i \in DOMAIN server.todo : rest[j] = server.todo[i]
  BY <1>1, TailKeepsOrder
<1> HIDE DEF rest
<1>3. /\ server' \in Servers
      /\ server'.todo = rest /\ server'.list = s.list
  <2>1. server' = [s EXCEPT !.todo = rest]
    BY DEF rest
  <2>2. [s EXCEPT !.todo = rest] \in Servers
    BY <1>2 DEF Servers
  <2>3. [s EXCEPT !.todo = rest].todo = rest /\ [s EXCEPT !.todo = rest].list = s.list
    BY DEF Servers
  <2>4. QED
    BY <2>1, <2>2, <2>3
<1>4. QED
  BY <1>2, <1>3 DEF StartInv

\* What the pass and Polled look at, but for the server.
PassView == <<interval, teams, repeats, pass, doubt>>

LEMMA PassStays ==
  ASSUME ScheduleInv, StartInv', UNCHANGED PassView,
         server.phase # "down" => server'.phase # "down",
         \A j \in DOMAIN server'.todo : \E i \in DOMAIN server.todo : server'.todo[j] = server.todo[i]
  PROVE  ScheduleInv'
<1>1. UNCHANGED <<interval, teams, repeats, pass, doubt>>
  BY DEF PassView
<1>2. \A l : Covered(l)' <=> Covered(l)
  BY <1>1 DEF Covered
<1>3. Polled'
  BY <1>1 DEF ScheduleInv, Polled
<1>4. PassInv'
  BY <1>1, <1>2 DEF ScheduleInv, PassInv
<1>5. QED
  BY <1>1, <1>3, <1>4 DEF ScheduleInv

\* The start and the end of the server, while nothing is added.
LEMMA ServerMoves ==
  ASSUME ScheduleInv,
         \/ TurnsToFeatured \/ StartsMaintenance \/ Observes \/ Signal \/ Stopped
         \/ \E free \in BOOLEAN : Listens(free)
  PROVE  ScheduleInv'
<1>0. StartInv
  BY DEF ScheduleInv
<1>1. CASE TurnsToFeatured
  <2>1. PICK phase \in {"live", "featured"} :
          Booting(phase) /\ server' = [[server EXCEPT !.featured = (phase = "featured")] EXCEPT !.todo = Tail(@)]
    BY <1>1 DEF TurnsToFeatured, Booted
  <2> DEFINE s == [server EXCEPT !.featured = (phase = "featured")]
  <2>2. /\ s \in Servers
        /\ s.todo = server.todo /\ s.list = {} /\ server'.phase = server.phase
    BY <1>0, <2>1 DEF StartInv, Servers, Booting
  <2> HIDE DEF s
  <2>3. /\ StartInv'
        /\ \A j \in DOMAIN server'.todo : \E i \in DOMAIN server.todo : server'.todo[j] = server.todo[i]
    BY <1>0, <2>1, <2>2, StartGoesOn DEF s
  <2>4. UNCHANGED PassView
    BY <1>1 DEF TurnsToFeatured, Rest, PassView
  <2>5. QED
    BY <2>2, <2>3, <2>4, PassStays
<1>2. CASE StartsMaintenance \/ Observes
  <2>1. PICK name \in {"maintenance", "observe"} :
          Booting(name) /\ server' = [server EXCEPT !.todo = Tail(@)] /\ UNCHANGED PassView
    BY <1>2 DEF StartsMaintenance, Observes, Booted, PassView
  <2>2. server.list = {} /\ server'.phase = server.phase
    BY <1>0, <2>1 DEF Booting, StartInv, Servers
  <2>3. /\ StartInv'
        /\ \A j \in DOMAIN server'.todo : \E i \in DOMAIN server.todo : server'.todo[j] = server.todo[i]
    BY <1>0, <2>1, <2>2, StartGoesOn DEF StartInv, Servers
  <2>4. QED
    BY <2>1, <2>2, <2>3, PassStays
<1>3. CASE Signal \/ Stopped
  <2>1. /\ UNCHANGED PassView
        /\ server'.todo = server.todo /\ server'.list = server.list /\ server'.phase # "down"
        /\ server' \in Servers
    BY <1>0, <1>3 DEF Signal, Stopped, Rest, PassView, StartInv, Servers
  <2>2. StartInv'
    BY <1>0, <2>1 DEF StartInv
  <2>3. QED
    BY <2>1, <2>2, PassStays
<1>4. ASSUME Listens(TRUE) PROVE ScheduleInv'
  <2>1. Booting("listen") /\ UNCHANGED PassView
    BY <1>4 DEF Listens, Rest, PassView
  <2> DEFINE s == [server EXCEPT !.phase = "serving"]
  <2>2. /\ s \in Servers
        /\ s.todo = server.todo /\ s.list = {} /\ s.phase = "serving"
        /\ server' = [s EXCEPT !.todo = Tail(@)] /\ server'.phase = "serving"
    BY <1>0, <1>4, <2>1 DEF StartInv, Servers, Booting, Booted, Listens
  <2> HIDE DEF s
  <2>3. /\ StartInv'
        /\ \A j \in DOMAIN server'.todo : \E i \in DOMAIN server.todo : server'.todo[j] = server.todo[i]
    BY <1>0, <2>1, <2>2, StartGoesOn
  <2>4. QED
    BY <2>1, <2>2, <2>3, PassStays
<1>5. ASSUME Listens(FALSE) PROVE ScheduleInv'
  <2>1. /\ UNCHANGED PassView /\ server.list = {} /\ server.phase = "booting"
        /\ server' \in {[server EXCEPT !.ports = @ + 1], [server EXCEPT !.phase = "headless", !.todo = <<>>]}
    BY <1>5 DEF Listens, Rest, PassView, Booting
  <2>2. /\ server' \in Servers
        /\ server'.todo \in {server.todo, <<>>} /\ server'.list = {} /\ server'.phase # "down"
    <3>1. CASE server' = [server EXCEPT !.ports = @ + 1]
      BY <1>0, <2>1, <3>1 DEF StartInv, Servers
    <3>2. CASE server' = [server EXCEPT !.phase = "headless", !.todo = <<>>]
      <4>1. <<>> \in Seq(StepNames)
        OBVIOUS
      <4>2. QED
        BY <1>0, <2>1, <3>2, <4>1 DEF StartInv, Servers
    <3>3. QED
      BY <2>1, <3>1, <3>2
  <2>3. StartInv'
    BY <1>0, <2>2 DEF StartInv
  <2>4. QED
    BY <2>1, <2>2, <2>3, PassStays
<1>6. QED
  BY <1>1, <1>2, <1>3, <1>4, <1>5

\* Without a pass, only Polled is left.
LEMMA WithoutPass ==
  ASSUME ScheduleInv, pass.at = "none", pass' = pass, teams' \subseteq AllTeams, StartInv', Polled'
  PROVE  ScheduleInv'
  BY DEF ScheduleInv, PassInv

\* What is certain after these steps of the start was certain before, or is added.
LEMMA StartAdds ==
  ASSUME ScheduleInv, NEW well \in BOOLEAN,
         \/ \E l \in LeagueNames : ListsTeams(l, well) \/ AddsFeatured(l, well)
         \/ \E t \in AllTeams : AddsTeam(t, well)
  PROVE  ScheduleInv'
<1>0. StartInv /\ PassInv /\ server \in Servers /\ teams \subseteq AllTeams
  BY DEF ScheduleInv, StartInv
<1>1. ASSUME NEW l \in LeagueNames, ListsTeams(l, well) PROVE ScheduleInv'
  <2>1. Booting(l) /\ UNCHANGED <<interval, teams, pass, repeats>>
    BY <1>1 DEF ListsTeams, Rest
  <2>2. pass.at = "none"
    BY <1>0, <2>1, NoPassYet
  <2> DEFINE s == [server EXCEPT !.list = IF well THEN teams \cap LeagueTeams[l] ELSE {}]
  <2>3. s \in Servers /\ s.todo = server.todo /\ server' = [s EXCEPT !.todo = Tail(@)]
    BY <1>0, <1>1 DEF ListsTeams, Booted, Servers
  <2>4. l \notin Late
    BY ScheduleAssumption DEF Late
  <2> HIDE DEF s
  <2>5. StartInv'
    BY <1>0, <2>1, <2>3, <2>4, StartGoesOn
  <2>6. Polled'
    <3>1. doubt' \in {doubt, doubt \ (LeagueTeams[l] \ teams)}
      BY <1>1 DEF ListsTeams
    <3>2. LeagueTeams[l] \subseteq AllTeams
      BY DEF AllTeams, LeagueNames
    <3>3. LeagueNames \cap LeagueTeams[l] = {}
      BY <3>2, ScheduleAssumption
    <3>4. teams \ doubt' \subseteq teams \ doubt /\ LeagueNames \ doubt' \subseteq LeagueNames \ doubt
      BY <3>1, <3>3
    <3>5. QED
      BY <2>1, <3>4 DEF ScheduleInv, Polled
  <2>7. QED
    BY <1>0, <2>1, <2>2, <2>5, <2>6, WithoutPass
<1>2. ASSUME NEW l \in LeagueNames, AddsFeatured(l, well) PROVE ScheduleInv'
  <2>1. Booting(l) /\ UNCHANGED <<interval, teams, pass>> /\ server' = [server EXCEPT !.todo = Tail(@)]
    BY <1>2 DEF AddsFeatured, Rest, Booted
  <2>2. pass.at = "none" /\ server.list = {}
    BY <1>0, <2>1, NoPassYet DEF Booting
  <2>3. StartInv'
    BY <1>0, <2>1, <2>2, StartGoesOn
  <2>4. Polled'
    <3>1. CASE well
      <4>1. /\ repeats' = repeats \cup {[id |-> FeaturedJob(l), every |-> interval]}
            /\ doubt' = doubt \ {l}
        BY <1>2, <3>1 DEF AddsFeatured
      <4>2. l \notin teams
        BY <1>0, ScheduleAssumption
      <4>3. QED
        BY <2>1, <4>1, <4>2 DEF ScheduleInv, Polled
    <3>2. CASE ~well
      BY <1>2, <2>1, <3>2 DEF AddsFeatured, ScheduleInv, Polled
    <3>3. QED
      BY <3>1, <3>2
  <2>5. QED
    BY <1>0, <2>1, <2>2, <2>3, <2>4, WithoutPass
<1>3. ASSUME NEW t \in AllTeams, AddsTeam(t, well) PROVE ScheduleInv'
  <2>1. /\ t \in server.list /\ UNCHANGED <<interval, teams, pass>>
        /\ server' = [server EXCEPT !.list = @ \ {t}]
    BY <1>3 DEF AddsTeam, Rest
  <2>2. pass.at = "none"
    BY <1>0, <2>1, NoPassYet
  <2>3. /\ server' \in Servers /\ server'.todo = server.todo
        /\ server'.list # {} => server.list # {}
    BY <1>0, <2>1 DEF Servers
  <2>4. StartInv'
    BY <1>0, <2>3 DEF StartInv
  <2>5. Polled'
    <3>1. CASE well
      <4>1. /\ repeats' = repeats \cup {[id |-> TeamJob(t), every |-> interval]}
            /\ doubt' = doubt \ {t}
        BY <1>3, <3>1 DEF AddsTeam
      <4>2. t \notin LeagueNames
        BY ScheduleAssumption
      <4>3. QED
        BY <2>1, <4>1, <4>2 DEF ScheduleInv, Polled
    <3>2. CASE ~well
      BY <1>3, <2>1, <3>2 DEF AddsTeam, ScheduleInv, Polled
    <3>3. QED
      BY <3>1, <3>2
  <2>6. QED
    BY <1>0, <2>1, <2>2, <2>4, <2>5, WithoutPass
<1>4. QED
  BY <1>1, <1>2, <1>3

\* A start and an end make everything uncertain again.
LEMMA StartsAndEnds ==
  ASSUME ScheduleInv, Dies \/ \E every \in Intervals : Boot(every)
  PROVE  ScheduleInv'
<1>0. StartInv /\ PassInv /\ server \in Servers /\ teams \subseteq AllTeams
  BY DEF ScheduleInv, StartInv
<1>1. Polled'
  <2>1. UNCHANGED teams /\ doubt' = AllTeams \cup LeagueNames
    BY DEF Dies, Boot
  <2>2. QED
    BY <1>0, <2>1 DEF Polled
<1>2. CASE Dies
  <2>1. UNCHANGED teams /\ pass' = NoPass
    BY <1>2 DEF Dies
  <2>2. server' = [server EXCEPT !.phase = "down", !.todo = <<>>, !.list = {}] /\ <<>> \in Seq(StepNames)
    BY <1>2 DEF Dies
  <2>3. server' \in Servers /\ server'.todo = <<>> /\ server'.list = {}
    BY <1>0, <2>2 DEF Servers
  <2>4. StartInv'
    BY <2>3 DEF StartInv
  <2>5. PassInv'
    <3>1. <<>> \in Seq(LeagueNames)
      OBVIOUS
    <3>2. QED
      BY <2>1, <3>1 DEF PassInv, NoPass
  <2>6. QED
    BY <1>0, <1>1, <2>1, <2>4, <2>5 DEF ScheduleInv
<1>3. ASSUME NEW every \in Intervals, Boot(every) PROVE ScheduleInv'
  <2>1. /\ UNCHANGED <<teams, pass>> /\ server.phase = "down"
        /\ server' = [phase |-> "booting", todo |-> Steps, list |-> {}, featured |-> FALSE, ports |-> 0]
    BY <1>3 DEF Boot
  <2>2. server' \in Servers /\ server'.todo = Steps /\ server'.list = {}
    BY <2>1, StepsInOrder DEF Servers
  <2>3. StartInv'
    BY <2>2, StepsInOrder DEF StartInv
  <2>4. pass.at = "none"
    BY <1>0, <2>1 DEF PassInv
  <2>5. QED
    BY <1>0, <1>1, <2>1, <2>3, <2>4, WithoutPass
<1>4. QED
  BY <1>2, <1>3

\* A team stored or deleted is uncertain from then on.
LEMMA EditsAreUncertain ==
  ASSUME ScheduleInv, NEW t \in AllTeams, Edit(t)
  PROVE  ScheduleInv'
<1>1. /\ UNCHANGED <<server, interval, repeats, pass>> /\ doubt' = doubt \cup {t}
      /\ teams' \subseteq AllTeams /\ teams' \ doubt' \subseteq teams \ doubt
  BY DEF Edit, ScheduleInv
<1>2. StartInv' /\ Polled'
  BY <1>1 DEF ScheduleInv, StartInv, Polled
<1>3. \A l \in LeagueNames : Covered(l) => Covered(l)'
  BY <1>1 DEF Covered
<1>4. PassInv'
  BY <1>1, <1>3 DEF ScheduleInv, PassInv
<1>5. QED
  BY <1>1, <1>2, <1>4 DEF ScheduleInv

\* The pass lists league by league, and removes no job of what it listed
\* (reconcileRepeatableScoresJobs).
LEMMA PassRemovesOthers ==
  ASSUME ScheduleInv,
         \/ Maintains \/ ReadsRepeats \/ PassEnds
         \/ \E l \in LeagueNames, well \in BOOLEAN : ListsDesired(l, well)
         \/ \E r \in pass.found, well \in BOOLEAN : RemovesRepeat(r, well)
  PROVE  ScheduleInv'
<1>0. /\ StartInv /\ PassInv /\ Polled /\ server \in Servers /\ teams \subseteq AllTeams
      /\ UNCHANGED <<server, interval, teams>>
  BY DEF ScheduleInv, StartInv, Maintains, ReadsRepeats, PassEnds, ListsDesired, RemovesRepeat
<1>1. StartInv'
  BY <1>0 DEF StartInv
<1>2. CASE Maintains
  <2>1. /\ UNCHANGED <<repeats, doubt>> /\ server.phase # "down"
        /\ \A i \in DOMAIN server.todo : server.todo[i] # "maintenance"
        /\ pass' = [at |-> "lists", left |-> Leagues, wanted |-> {}, found |-> {}, sure |-> TRUE]
    BY <1>2 DEF Maintains, MaintenanceWorking, Working
  <2>2. Leagues \in Seq(LeagueNames) /\ \A l \in LeagueNames : \E i \in DOMAIN Leagues : Leagues[i] = l
    BY ScheduleAssumption DEF LeagueNames
  <2>3. PassInv'
    BY <1>0, <2>1, <2>2 DEF PassInv
  <2>4. QED
    BY <1>0, <1>1, <2>1, <2>3 DEF ScheduleInv, Polled
<1>3. ASSUME NEW l \in LeagueNames, NEW well \in BOOLEAN, ListsDesired(l, well)
      PROVE  ScheduleInv'
  <2> DEFINE more == IF well THEN pass.wanted \cup Desired(l) ELSE pass.wanted
  <2>1. /\ repeats' = repeats /\ pass.at = "lists" /\ pass.left # <<>> /\ Head(pass.left) = l
        /\ doubt' = IF well THEN doubt ELSE doubt \cup LeagueTeams[l] \cup {l}
        /\ pass' = [pass EXCEPT !.left = Tail(@), !.sure = @ /\ well, !.wanted = more]
    BY <1>3 DEF ListsDesired
  <2>2. pass.wanted \subseteq more /\ (well => Desired(l) \subseteq more)
    OBVIOUS
  <2> HIDE DEF more
  <2>3. /\ pass'.at = "lists" /\ pass'.left = Tail(pass.left) /\ pass'.wanted = more
        /\ pass' = [at |-> pass'.at, left |-> pass'.left, wanted |-> pass'.wanted,
                    found |-> pass'.found, sure |-> pass'.sure]
    BY <1>0, <2>1 DEF PassInv
  <2>4. /\ Tail(pass.left) \in Seq(LeagueNames)
        /\ \A k : (\E i \in DOMAIN pass.left : pass.left[i] = k)
                    => k = l \/ \E i \in DOMAIN Tail(pass.left) : Tail(pass.left)[i] = k
    <3>1. /\ pass.left \in Seq(LeagueNames) /\ pass.left # <<>>
          /\ DOMAIN pass.left = 1..Len(pass.left) /\ Len(pass.left) \in Nat /\ pass.left[1] = l
          /\ Tail(pass.left) \in Seq(LeagueNames)
          /\ DOMAIN Tail(pass.left) = 1..(Len(pass.left) - 1)
          /\ \A i \in 1..(Len(pass.left) - 1) : Tail(pass.left)[i] = pass.left[i + 1]
      BY <1>0, <2>1 DEF PassInv
    <3>2. ASSUME NEW k, NEW i \in DOMAIN pass.left, pass.left[i] = k, k # l
          PROVE  \E j \in DOMAIN Tail(pass.left) : Tail(pass.left)[j] = k
      <4>1. i - 1 \in DOMAIN Tail(pass.left) /\ Tail(pass.left)[i - 1] = k
        BY <3>1, <3>2
      <4>2. QED
        BY <4>1
    <3>3. QED
      BY <3>1, <3>2
  <2>5. Covered(l)'
    BY <1>0, <2>1, <2>2, <2>3 DEF Covered, Desired
  <2>6. \A k \in LeagueNames : Covered(k) => Covered(k)'
    BY <1>0, <2>1, <2>2, <2>3 DEF Covered
  <2>7. PassInv'
    BY <1>0, <2>1, <2>3, <2>4, <2>5, <2>6 DEF PassInv
  <2>8. Polled'
    BY <1>0, <2>1 DEF Polled
  <2>9. QED
    BY <1>0, <1>1, <2>7, <2>8 DEF ScheduleInv
<1>4. CASE ReadsRepeats
  <2>1. /\ UNCHANGED <<repeats, doubt>> /\ pass.at = "lists" /\ pass.left = <<>>
        /\ pass' = [pass EXCEPT !.at = "removes", !.found = {r \in repeats : r.id \notin pass.wanted}]
    BY <1>4 DEF ReadsRepeats
  <2>2. /\ pass'.at = "removes" /\ pass'.left = pass.left /\ pass'.wanted = pass.wanted
        /\ pass'.found = {r \in repeats : r.id \notin pass.wanted}
        /\ pass' = [at |-> pass'.at, left |-> pass'.left, wanted |-> pass'.wanted,
                    found |-> pass'.found, sure |-> pass'.sure]
    BY <1>0, <2>1 DEF PassInv
  <2>3. \A k \in LeagueNames : Covered(k) => Covered(k)'
    BY <1>0, <2>1, <2>2 DEF Covered
  <2>4. PassInv'
    BY <1>0, <2>1, <2>2, <2>3 DEF PassInv
  <2>5. QED
    BY <1>0, <1>1, <2>1, <2>4 DEF ScheduleInv, Polled
<1>5. ASSUME NEW r \in pass.found, NEW well \in BOOLEAN, RemovesRepeat(r, well)
      PROVE  ScheduleInv'
  <2>1. /\ pass.at = "removes" /\ doubt' = doubt
        /\ repeats' = IF well THEN repeats \ {r} ELSE repeats
        /\ pass' = [pass EXCEPT !.found = @ \ {r}, !.sure = @ /\ well]
    BY <1>5 DEF RemovesRepeat
  <2>2. /\ pass'.at = pass.at /\ pass'.left = pass.left /\ pass'.wanted = pass.wanted
        /\ pass'.found = pass.found \ {r}
        /\ pass' = [at |-> pass'.at, left |-> pass'.left, wanted |-> pass'.wanted,
                    found |-> pass'.found, sure |-> pass'.sure]
    BY <1>0, <2>1 DEF PassInv
  <2>3. \A k \in LeagueNames : Covered(k) /\ (Covered(k) => Covered(k)')
    BY <1>0, <2>1, <2>2 DEF PassInv, Covered
  <2>4. PassInv'
    BY <1>0, <2>1, <2>2, <2>3 DEF PassInv
  <2>5. r.id \notin pass.wanted
    BY <1>0, <2>1 DEF PassInv
  <2>6. \A t \in teams \ doubt : TeamJob(t) \in pass.wanted
    <3>1. \A t \in teams : \E k \in LeagueNames : t \in LeagueTeams[k]
      BY <1>0 DEF AllTeams, LeagueNames
    <3>2. QED
      BY <2>3, <3>1 DEF Covered
  <2>7. \A k \in LeagueNames \ doubt : FeaturedJob(k) \in pass.wanted
    BY <2>3 DEF Covered
  <2>8. \A id : id \in pass.wanted => [id |-> id, every |-> interval] # r
    BY <2>5
  <2>9. Polled'
    BY <1>0, <2>1, <2>6, <2>7, <2>8 DEF Polled
  <2>10. QED
    BY <1>0, <1>1, <2>4, <2>9 DEF ScheduleInv
<1>6. CASE PassEnds
  <2>1. pass' = NoPass /\ UNCHANGED <<repeats, doubt>>
    BY <1>6 DEF PassEnds
  <2>2. <<>> \in Seq(LeagueNames)
    OBVIOUS
  <2>3. PassInv'
    BY <2>1, <2>2 DEF PassInv, NoPass
  <2>4. QED
    BY <1>0, <1>1, <2>1, <2>3 DEF ScheduleInv, Polled
<1>7. QED
  BY <1>2, <1>3, <1>4, <1>5, <1>6

\* Jobs come and go without any of this.
LEMMA JobsAside ==
  ASSUME ScheduleInv, UNCHANGED <<server, interval, teams, repeats, pass, doubt>>
  PROVE  ScheduleInv'
<1>1. StartInv'
  BY DEF ScheduleInv, StartInv
<1>2. \A j \in DOMAIN server'.todo : \E i \in DOMAIN server.todo : server'.todo[j] = server.todo[i]
  OBVIOUS
<1>3. QED
  BY <1>1, <1>2, PassStays DEF PassView

LEMMA InitScheduleInv == ScheduleInit => ScheduleInv
<1> SUFFICES ASSUME ScheduleInit PROVE ScheduleInv
  OBVIOUS
<1>1. StartInv
  BY DEF ScheduleInit, StartInv, Servers
<1>2. PassInv
  BY DEF ScheduleInit, PassInv, NoPass
<1>3. QED
  BY <1>1, <1>2 DEF ScheduleInit, ScheduleInv, Polled

LEMMA NextScheduleInv == ScheduleInv /\ [ScheduleNext]_schedule => ScheduleInv'
<1> SUFFICES ASSUME ScheduleInv, [ScheduleNext]_schedule PROVE ScheduleInv'
  OBVIOUS
<1>1. CASE \/ \E r \in repeats : Due(r)
           \/ \E j \in queue : Take(j) \/ Completes(j) \/ JobFails(j)
           \/ CleaningDue \/ UNCHANGED schedule
  <2>1. UNCHANGED <<server, interval, teams, repeats, pass, doubt>>
    BY <1>1 DEF Due, Take, Completes, JobFails, CleaningDue, schedule
  <2>2. QED
    BY <2>1, JobsAside
<1>2. QED
  BY <1>1, ServerMoves, StartAdds, StartsAndEnds, EditsAreUncertain, PassRemovesOthers
  DEF ScheduleNext

\* Whatever a server found when it started is polled with its interval, for any leagues,
\* teams and intervals, and any number of starts, edits, failures and reconciliations:
\* the maintenance worker runs once the last job is added, and a pass it ran for a
\* process that died ends with it.
THEOREM StartIsPolled == ScheduleSpec => []Polled
<1>1. ScheduleInv => Polled
  BY DEF ScheduleInv
<1>2. QED
  BY <1>1, InitScheduleInv, NextScheduleInv, PTL DEF ScheduleSpec

-----------------------------------------------------------------------------
(***************************************************************************)
(* The search index: what it has for a term are the documents with it.     *)
(***************************************************************************)

\* A set that has 0 and is closed under successor has every number.
LEMMA Induction ==
  ASSUME NEW S, 0 \in S, \A n \in Nat : n \in S => n + 1 \in S
  PROVE  Nat \subseteq S
<1> DEFINE T == Nat \ S
           R == OpToRel(<, Nat)
<1>1. SUFFICES ASSUME T # {} PROVE FALSE
  OBVIOUS
<1>2. T \subseteq Nat
  OBVIOUS
<1>3. IsWellFoundedOn(R, Nat)
  BY NatLessThanWellFounded
<1> HIDE DEF R, T
<1>4. PICK x \in T : \A y \in T : ~(<<y, x>> \in R)
  BY <1>1, <1>2, <1>3, WFMin
<1>5. x \in Nat /\ x # 0
  BY <1>4 DEF T
<1>6. x - 1 \in Nat /\ x - 1 < x
  BY <1>5
<1>7. <<x - 1, x>> \in R
  BY <1>5, <1>6 DEF R, OpToRel
<1>8. x - 1 \in S
  BY <1>4, <1>6, <1>7 DEF T
<1>9. QED
  BY <1>4, <1>5, <1>6, <1>8 DEF T

\* The documents of ix that have the term.
Having(ix, term) == {d \in DOMAIN ix.docs : term \in ToSet(ix.docs[d])}

\* It has them for the term, with how often it occurs.
Posted(ix, term) ==
  ix.postings[term] = [d \in Having(ix, term) |-> Frequency(term, ix.docs[d])]

IndexOK(ix) ==
  /\ \A t \in DOMAIN ix.postings : t \in Kept /\ Posted(ix, t)
  /\ \A d \in DOMAIN ix.docs : Terms(ix.docs[d]) \subseteq DOMAIN ix.postings

LEMMA PostedValues ==
  ASSUME NEW ix, NEW t, Posted(ix, t)
  PROVE  /\ DOMAIN ix.postings[t] = Having(ix, t)
         /\ \A d \in Having(ix, t) : ix.postings[t][d] = Frequency(t, ix.docs[d])
<1> DEFINE g == [d \in Having(ix, t) |-> Frequency(t, ix.docs[d])]
<1>1. ix.postings[t] = g
  BY DEF Posted
<1>2. DOMAIN g = Having(ix, t) /\ \A d \in Having(ix, t) : g[d] = Frequency(t, ix.docs[d])
  OBVIOUS
<1> QED BY <1>1, <1>2

LEMMA EmptyOK == IndexOK(EmptyIndex)
BY DEF IndexOK, EmptyIndex, Having

LEMMA WithoutOK ==
  ASSUME NEW ix, IndexOK(ix), NEW id
  PROVE  /\ IndexOK(WithoutDocument(ix, id))
         /\ id \notin DOMAIN WithoutDocument(ix, id).docs
<1> DEFINE terms == Terms(ix.docs[id])
           left == DOMAIN ix.docs \ {id}
           keep == {u \in DOMAIN ix.postings : u \in terms => DOMAIN ix.postings[u] # {id}}
           out == WithoutDocument(ix, id)
<1>1. CASE id \notin DOMAIN ix.docs
  BY <1>1 DEF WithoutDocument
<1>2. CASE id \in DOMAIN ix.docs
  <2>1. /\ out.docs = [d \in left |-> ix.docs[d]]
        /\ out.postings = [t \in keep |->
                            IF t \in terms
                            THEN [d \in DOMAIN ix.postings[t] \ {id} |-> ix.postings[t][d]]
                            ELSE ix.postings[t]]
    BY <1>2 DEF WithoutDocument
  <2> HIDE DEF out
  <2>2. \A t \in DOMAIN ix.postings : t \in Kept /\ Posted(ix, t)
    BY DEF IndexOK
  <2>3. \A t : Having(out, t) = Having(ix, t) \ {id}
    BY <2>1 DEF Having
  <2>4. ASSUME NEW t \in keep PROVE Posted(out, t)
    <3>1. \A d \in Having(out, t) : d \in left /\ out.docs[d] = ix.docs[d]
      BY <2>1 DEF Having
    <3>2. /\ t \in Kept /\ DOMAIN ix.postings[t] = Having(ix, t)
          /\ \A d \in Having(ix, t) : ix.postings[t][d] = Frequency(t, ix.docs[d])
          /\ Posted(ix, t)
      BY <2>2, PostedValues
    <3>3. CASE t \in terms
      <4>1. out.postings[t] = [d \in DOMAIN ix.postings[t] \ {id} |-> ix.postings[t][d]]
        BY <2>1, <3>3
      <4>2. out.postings[t] = [d \in Having(out, t) |-> ix.postings[t][d]]
        BY <2>3, <3>2, <4>1
      <4>3. \A d \in Having(out, t) : ix.postings[t][d] = Frequency(t, out.docs[d])
        BY <2>3, <3>1, <3>2
      <4> QED BY <4>2, <4>3 DEF Posted
    <3>4. CASE t \notin terms
      <4>1. out.postings[t] = ix.postings[t]
        BY <2>1, <3>4
      <4>2. t \notin ToSet(ix.docs[id])
        BY <3>2, <3>4 DEF Terms
      <4>3. Having(out, t) = Having(ix, t)
        <5>1. id \notin Having(ix, t)
          BY <4>2 DEF Having
        <5> QED BY <2>3, <5>1
      <4>4. \A d \in Having(ix, t) : Frequency(t, out.docs[d]) = Frequency(t, ix.docs[d])
        BY <3>1, <4>3
      <4> QED BY <3>2, <4>1, <4>3, <4>4 DEF Posted
    <3> QED BY <3>3, <3>4
  <2>5. ASSUME NEW d \in left, NEW t \in Terms(ix.docs[d]) PROVE t \in keep
    <3>1. t \in DOMAIN ix.postings /\ d \in Having(ix, t)
      BY DEF IndexOK, Having, Terms
    <3>2. d \in DOMAIN ix.postings[t] /\ d # id
      BY <2>2, <3>1, PostedValues
    <3> QED BY <3>1, <3>2
  <2>6. DOMAIN out.postings = keep /\ DOMAIN out.docs = left
    BY <2>1
  <2>7. \A t \in keep : t \in Kept
    BY <2>2
  <2>8. \A d \in left : Terms(out.docs[d]) \subseteq keep
    BY <2>1, <2>5
  <2>9. IndexOK(out) /\ id \notin DOMAIN out.docs
    BY <2>4, <2>6, <2>7, <2>8 DEF IndexOK
  <2> QED BY <2>9 DEF out
<1> QED BY <1>1, <1>2

LEMMA WithOK ==
  ASSUME NEW ix, IndexOK(ix), NEW id, NEW text
  PROVE  IndexOK(WithDocument(ix, id, text))
<1> DEFINE old == WithoutDocument(ix, id)
           terms == Terms(text)
           out == WithDocument(ix, id, text)
           before(t) == IF t \in DOMAIN old.postings THEN old.postings[t] ELSE <<>>
<1>1. IndexOK(old) /\ id \notin DOMAIN old.docs
  BY WithoutOK
<1>2. /\ out.docs = [d \in DOMAIN old.docs \cup {id} |-> IF d = id THEN text ELSE old.docs[d]]
      /\ out.postings = [t \in DOMAIN old.postings \cup terms |->
                      IF t \notin terms THEN before(t) ELSE
                      [d \in DOMAIN before(t) \cup {id} |->
                         IF d = id THEN Frequency(t, text) ELSE before(t)[d]]]
  BY DEF WithDocument
<1> HIDE DEF old, out
<1>3. \A t \in DOMAIN old.postings : t \in Kept /\ Posted(old, t)
  BY <1>1 DEF IndexOK
<1>4. \A t \in terms : t \in Kept /\ t \in ToSet(text)
  BY DEF Terms
<1>5. ASSUME NEW t \in Kept
      PROVE  /\ DOMAIN before(t) = Having(old, t)
             /\ \A d \in Having(old, t) : before(t)[d] = Frequency(t, old.docs[d])
  <2>1. CASE t \in DOMAIN old.postings
    BY <1>3, <2>1, PostedValues
  <2>2. CASE t \notin DOMAIN old.postings
    <3>1. Having(old, t) = {}
      BY <1>1, <2>2 DEF IndexOK, Having, Terms
    <3>2. DOMAIN before(t) = {}
      BY <2>2
    <3> QED BY <3>1, <3>2
  <2> QED BY <2>1, <2>2
<1>6. ASSUME NEW t \in terms PROVE Posted(out, t)
  <2>1. Having(out, t) = Having(old, t) \cup {id}
    BY <1>1, <1>2, <1>4 DEF Having
  <2>2. \A d \in Having(old, t) : d # id /\ out.docs[d] = old.docs[d]
    BY <1>1, <1>2 DEF Having
  <2>3. out.docs[id] = text
    BY <1>2
  <2>4. out.postings[t] = [d \in DOMAIN before(t) \cup {id} |->
                             IF d = id THEN Frequency(t, text) ELSE before(t)[d]]
    BY <1>2
  <2> HIDE DEF before
  <2>5. out.postings[t] = [d \in Having(out, t) |->
                             IF d = id THEN Frequency(t, text) ELSE before(t)[d]]
    BY <1>4, <1>5, <2>1, <2>4
  <2>6. \A d \in Having(out, t) : (IF d = id THEN Frequency(t, text) ELSE before(t)[d])
                                = Frequency(t, out.docs[d])
    BY <1>4, <1>5, <2>1, <2>2, <2>3
  <2> QED BY <2>5, <2>6 DEF Posted
<1>7. ASSUME NEW t \in DOMAIN old.postings, t \notin terms
      PROVE  Posted(out, t)
  <2>1. t \notin ToSet(text)
    BY <1>3, <1>7 DEF Terms
  <2>2. Having(out, t) = Having(old, t)
    BY <1>1, <1>2, <2>1 DEF Having
  <2>3. \A d \in Having(old, t) : out.docs[d] = old.docs[d]
    BY <1>1, <1>2 DEF Having
  <2>4. out.postings[t] = old.postings[t]
    BY <1>2, <1>7
  <2>5. \A d \in Having(old, t) : Frequency(t, out.docs[d]) = Frequency(t, old.docs[d])
    BY <2>3
  <2> QED BY <1>3, <2>2, <2>4, <2>5 DEF Posted
<1>8. DOMAIN out.postings = DOMAIN old.postings \cup terms
      /\ DOMAIN out.docs = DOMAIN old.docs \cup {id}
  BY <1>2
<1>9. \A d \in DOMAIN out.docs : Terms(out.docs[d]) \subseteq DOMAIN out.postings
  BY <1>1, <1>2, <1>8 DEF IndexOK
<1>10. IndexOK(out)
  BY <1>3, <1>4, <1>6, <1>7, <1>8, <1>9 DEF IndexOK
<1> QED BY <1>10 DEF out

\* The index while the articles are added: after none, and after each of them.
Adds(ix, team, f, n) ==
  f = [i \in 0..n |->
         IF i = 0 THEN ix
         ELSE IF news[i].team = team /\ ~news[i].deleted
              THEN WithDocument(f[i - 1], news[i].id, news[i].text)
              ELSE f[i - 1]]

LEMMA AddsExists ==
  ASSUME NEW ix, NEW team
  PROVE  \A n \in Nat : \E f : Adds(ix, team, f, n)
<1> DEFINE S == {n \in Nat : \E f : Adds(ix, team, f, n)}
           added(g, i) == IF news[i].team = team /\ ~news[i].deleted
                          THEN WithDocument(g, news[i].id, news[i].text) ELSE g
<1>1. 0 \in S
  <2> DEFINE f == [i \in 0..0 |-> ix]
  <2>1. Adds(ix, team, f, 0)
    BY DEF Adds
  <2> QED BY <2>1
<1>2. ASSUME NEW n \in Nat, n \in S PROVE n + 1 \in S
  <2>1. PICK f : Adds(ix, team, f, n)
    BY <1>2
  <2>2. \A i \in 0..n : f[i] = IF i = 0 THEN ix ELSE added(f[i - 1], i)
    BY <2>1 DEF Adds
  <2> DEFINE g == [i \in 0..(n + 1) |-> IF i = n + 1 THEN added(f[n], i) ELSE f[i]]
  <2> HIDE DEF added
  <2>3. ASSUME NEW i \in 0..(n + 1)
        PROVE  g[i] = IF i = 0 THEN ix ELSE added(g[i - 1], i)
    <3>1. CASE i = n + 1
      <4>1. i # 0 /\ i - 1 = n /\ n \in 0..(n + 1) /\ n # n + 1
        BY <3>1
      <4> QED BY <3>1, <4>1
    <3>2. CASE i # n + 1
      <4>1. i \in 0..n /\ g[i] = f[i]
        BY <3>2
      <4>2. i # 0 => i - 1 \in 0..(n + 1) /\ i - 1 # n + 1
        BY <4>1
      <4> QED BY <2>2, <4>1, <4>2
    <3> QED BY <3>1, <3>2
  <2>4. g = [i \in 0..(n + 1) |-> g[i]]
    OBVIOUS
  <2>5. g = [i \in 0..(n + 1) |-> IF i = 0 THEN ix ELSE added(g[i - 1], i)]
    <3> HIDE DEF g
    <3> QED BY <2>3, <2>4
  <2>6. Adds(ix, team, g, n + 1)
    <3> HIDE DEF g
    <3> QED BY <2>5 DEF Adds, added
  <2> QED BY <2>6
<1> HIDE DEF S
<1>3. Nat \subseteq S
  BY <1>1, <1>2, Induction
<1> QED BY <1>3 DEF S

LEMMA AddsOK ==
  ASSUME NEW ix, IndexOK(ix), NEW team, NEW n \in Nat, NEW f, Adds(ix, team, f, n)
  PROVE  IndexOK(f[n])
<1> DEFINE S == {i \in Nat : i <= n => IndexOK(f[i])}
<1>1. \A i \in 0..n : f[i] = IF i = 0 THEN ix
                        ELSE IF news[i].team = team /\ ~news[i].deleted
                             THEN WithDocument(f[i - 1], news[i].id, news[i].text)
                             ELSE f[i - 1]
  BY DEF Adds
<1>2. 0 \in S
  BY <1>1
<1>3. ASSUME NEW i \in Nat, i \in S PROVE i + 1 \in S
  <2> SUFFICES ASSUME i + 1 <= n PROVE IndexOK(f[i + 1])
    OBVIOUS
  <2>1. IndexOK(f[i]) /\ i + 1 \in 0..n /\ i + 1 # 0 /\ (i + 1) - 1 = i
    BY <1>3
  <2>2. f[i + 1] = WithDocument(f[i], news[i + 1].id, news[i + 1].text) \/ f[i + 1] = f[i]
    BY <1>1, <2>1
  <2> QED BY <2>1, <2>2, WithOK
<1>4. Nat \subseteq S
  <2> HIDE DEF S
  <2> QED BY <1>2, <1>3, Induction
<1> QED BY <1>4

LEMMA FilledOK ==
  ASSUME NEW ix, IndexOK(ix), NEW team, Len(news) \in Nat
  PROVE  IndexOK(Filled(ix, team))
<1> DEFINE f == CHOOSE g : Adds(ix, team, g, Len(news))
<1>1. Adds(ix, team, f, Len(news))
  BY AddsExists
<1>2. Filled(ix, team) = f[Len(news)]
  BY DEF Filled, Adds
<1> HIDE DEF f
<1> QED BY <1>1, <1>2, AddsOK

-----------------------------------------------------------------------------
\* What is stored, and what callers wait with.

OfTeams == {TeamOf[a] : a \in Articles}
Signatures == {<<>>, Unreadable} \cup {Signature(text) : text \in Texts}
Article == [id : Articles, team : OfTeams, text : Texts, minHash : Signatures,
            old : BOOLEAN, deleted : BOOLEAN]

\* Who waits has no answer yet, and a text is one that was published or asked about.
WorkOK(w) ==
  /\ DOMAIN w = DOMAIN Resting
  /\ w.at # "idle" => ~w.new
  /\ w.at \in {"check", "sign"} => w.text \in Texts

LibraryInv ==
  /\ news \in Seq(Article)
  /\ DOMAIN index = TeamIds /\ \A t \in TeamIds : IndexOK(index[t])
  /\ work = [c \in Callers |-> work[c]] /\ \A c \in Callers : WorkOK(work[c])

LEMMA NewArticle ==
  ASSUME NEW a \in Articles, NEW text \in Texts, NEW sig \in {<<>>, Unreadable}
  PROVE  [id |-> a, team |-> TeamOf[a], text |-> text, minHash |-> sig,
          old |-> FALSE, deleted |-> FALSE] \in Article
<1>1. TeamOf[a] \in OfTeams /\ sig \in Signatures
  BY DEF OfTeams, Signatures
<1> QED BY <1>1 DEF Article

LEMMA EditedArticle ==
  ASSUME NEW a \in Article
  PROVE  /\ [a EXCEPT !.deleted = TRUE] \in Article
         /\ [a EXCEPT !.old = TRUE] \in Article
         /\ \A text \in Texts : [a EXCEPT !.text = text] \in Article
         /\ \A text \in Texts : [a EXCEPT !.minHash = Signature(text)] \in Article
<1>1. \A text \in Texts : Signature(text) \in Signatures
  BY DEF Signatures
<1> QED BY <1>1 DEF Article

LEMMA PostsNews ==
  ASSUME news \in Seq(Article), Posts PROVE news' \in Seq(Article)
<1>1. ASSUME NEW a \in Articles, NEW text \in Texts, NEW sig \in {<<>>, Unreadable},
             news' = Append(news, [id |-> a, team |-> TeamOf[a], text |-> text, minHash |-> sig,
                                   old |-> FALSE, deleted |-> FALSE])
      PROVE  news' \in Seq(Article)
  <2> DEFINE new == [id |-> a, team |-> TeamOf[a], text |-> text, minHash |-> sig,
                     old |-> FALSE, deleted |-> FALSE]
  <2>1. new \in Article /\ news' = Append(news, new)
    BY <1>1, NewArticle
  <2> HIDE DEF new
  <2> QED BY <2>1
<1>2. ASSUME NEW i \in DOMAIN news, NEW a \in Article, news' = [news EXCEPT ![i] = a]
      PROVE  news' \in Seq(Article)
  BY <1>2
<1>3. ASSUME NEW i \in DOMAIN news,
             \/ news' = [news EXCEPT ![i].deleted = TRUE]
             \/ news' = [news EXCEPT ![i].old = TRUE]
             \/ \E text \in Texts : news' = [news EXCEPT ![i].text = text]
      PROVE  news' \in Seq(Article)
  <2>1. news[i] \in Article
    OBVIOUS
  <2> QED BY <1>2, <1>3, <2>1, EditedArticle
<1> QED BY <1>1, <1>3 DEF Posts

\* A step of one caller.
LEMMA WorkOf ==
  ASSUME work = [c \in Callers |-> work[c]], \A c \in Callers : WorkOK(work[c]),
         NEW c \in Callers, NEW w, WorkOK(w), work' = [work EXCEPT ![c] = w]
  PROVE  work' = [d \in Callers |-> work'[d]] /\ \A d \in Callers : WorkOK(work'[d])
<1>1. DOMAIN work = Callers
  OBVIOUS
<1>2. \A d \in Callers : work'[d] = IF d = c THEN w ELSE work[d]
  BY <1>1
<1>3. work' = [d \in Callers |-> IF d = c THEN w ELSE work[d]]
  BY <1>1
<1> QED BY <1>2, <1>3

LEMMA RestingOK == WorkOK(Resting) /\ Resting.at = "idle" /\ ~Resting.new
BY DEF WorkOK, Resting

\* Callers that go on take no answer.
LEMMA GoesOnOK ==
  ASSUME NEW w, WorkOK(w), w.at # "idle", NEW at, at \notin {"idle", "check", "sign"}
  PROVE  /\ WorkOK([w EXCEPT !.at = at])
         /\ \A found : WorkOK([w EXCEPT !.at = at, !.found = found])
         /\ \A gen : WorkOK([w EXCEPT !.at = at, !.gen = gen])
         /\ \A count : WorkOK([w EXCEPT !.at = at, !.count = count])
BY DEF WorkOK, Resting

LEMMA AsksOK ==
  ASSUME NEW at, at \notin {"idle", "check", "sign"}, NEW todo, NEW count
  PROVE  WorkOK([Resting EXCEPT !.at = at, !.todo = todo, !.count = count])
BY DEF WorkOK, Resting

LEMMA AfterTeamOK == ASSUME NEW c PROVE WorkOK(AfterTeam(c))
<1>1. ASSUME NEW todo PROVE WorkOK([Resting EXCEPT !.at = "rebuild", !.todo = todo])
  BY DEF WorkOK, Resting
<1> QED BY <1>1, RestingOK DEF AfterTeam

\* A step that changes the index of one team.
LEMMA IndexOf ==
  ASSUME DOMAIN index = TeamIds, \A t \in TeamIds : IndexOK(index[t]),
         NEW team, NEW ix, team \in TeamIds => IndexOK(ix),
         index' = [index EXCEPT ![team] = ix]
  PROVE  DOMAIN index' = TeamIds /\ \A t \in TeamIds : IndexOK(index'[t])
<1>1. DOMAIN index' = TeamIds /\ \A t \in TeamIds : index'[t] = IF t = team THEN ix ELSE index[t]
  OBVIOUS
<1> QED BY <1>1

\* A step of the storage, of a caller, of the index: each of them alone.
NewsKept == news' \in Seq(Article)
IndexKept == DOMAIN index' = TeamIds /\ \A t \in TeamIds : IndexOK(index'[t])
WorkKept == work' = [c \in Callers |-> work'[c]] /\ \A c \in Callers : WorkOK(work'[c])

LEMMA Unchanged ==
  ASSUME LibraryInv
  PROVE  /\ UNCHANGED news => NewsKept
         /\ UNCHANGED index => IndexKept
         /\ UNCHANGED work => WorkKept
         /\ \A c \in Callers : WorkOK(work[c])
BY DEF LibraryInv, NewsKept, IndexKept, WorkKept

LEMMA WorkStep ==
  ASSUME LibraryInv, NEW c \in Callers, NEW w, WorkOK(w), work' = [work EXCEPT ![c] = w]
  PROVE  WorkKept
BY WorkOf DEF LibraryInv, WorkKept

LEMMA AskStep ==
  ASSUME LibraryInv, NEW c \in Callers, NEW at, at \notin {"idle", "check", "sign"},
         NEW todo, NEW count, Asks(c, at, todo, count)
  PROVE  WorkKept
BY AsksOK, WorkStep DEF Asks

LEMMA KeepsAll ==
  ASSUME NewsKept, IndexKept, WorkKept
  PROVE  LibraryInv'
BY DEF LibraryInv, NewsKept, IndexKept, WorkKept

LEMMA ManagerStep ==
  ASSUME LibraryInv, NEW c \in Callers,
         \/ \E a \in ToSet(news) : AddArticle(c, a) \/ RemoveDocument(c, a)
         \/ MarksRebuild(c) \/ LoadsArticles(c)
  PROVE  LibraryInv'
<1>1. \A t \in TeamIds : IndexOK(index[t])
  BY DEF LibraryInv
<1>2. ASSUME NEW a \in ToSet(news), AddArticle(c, a) PROVE LibraryInv'
  <2> DEFINE ix == WithDocument(index[a.team], a.id, a.text)
  <2>1. index' = [index EXCEPT ![a.team] = ix] /\ Asks(c, "look", <<a.team>>, ix.total)
        /\ UNCHANGED news
    BY <1>2 DEF AddArticle
  <2>2. a.team \in TeamIds => IndexOK(ix)
    BY <1>1, WithOK
  <2> HIDE DEF ix
  <2>3. IndexKept
    BY <2>1, <2>2, IndexOf DEF LibraryInv, IndexKept
  <2> QED BY <2>1, <2>3, AskStep, Unchanged, KeepsAll
<1>3. ASSUME NEW a \in ToSet(news), RemoveDocument(c, a) PROVE LibraryInv'
  <2> DEFINE ix == WithoutDocument(index[a.team], a.id)
  <2>1. index' = [index EXCEPT ![a.team] = ix] /\ Asks(c, "look", <<a.team>>, ix.total)
        /\ UNCHANGED news
    BY <1>3 DEF RemoveDocument
  <2>2. a.team \in TeamIds => IndexOK(ix)
    BY <1>1, WithoutOK
  <2> HIDE DEF ix
  <2>3. IndexKept
    BY <2>1, <2>2, IndexOf DEF LibraryInv, IndexKept
  <2> QED BY <2>1, <2>3, AskStep, Unchanged, KeepsAll
<1>4. ASSUME MarksRebuild(c) PROVE LibraryInv'
  <2> DEFINE gen == made'[Team(c)]
  <2>1. /\ index' = [index EXCEPT ![Team(c)] = EmptyIndex] /\ UNCHANGED news
        /\ work[c].at = "mark"
        /\ work' = [work EXCEPT ![c].at = "load", ![c].gen = gen]
    BY <1>4 DEF MarksRebuild
  <2> HIDE DEF gen
  <2>2. IndexKept
    BY <2>1, EmptyOK, IndexOf DEF LibraryInv, IndexKept
  <2>3. work' = [work EXCEPT ![c] = [work[c] EXCEPT !.at = "load", !.gen = gen]]
    <3>1. DOMAIN work = Callers /\ DOMAIN work[c] = DOMAIN Resting
      BY DEF LibraryInv, WorkOK
    <3>2. DOMAIN Resting = {"at", "todo", "gen", "found", "count", "text", "new"}
      BY DEF Resting
    <3> QED BY <2>1, <3>1, <3>2
  <2>4. WorkOK([work[c] EXCEPT !.at = "load", !.gen = gen])
    BY <2>1, GoesOnOK, Unchanged
  <2> QED BY <2>1, <2>2, <2>3, <2>4, WorkStep, Unchanged, KeepsAll
<1>5. ASSUME LoadsArticles(c) PROVE LibraryInv'
  <2> DEFINE ix == Filled(index[Team(c)], Team(c))
             count == index'[Team(c)].total
  <2>1. /\ index' = IF work[c].gen = made[Team(c)] THEN [index EXCEPT ![Team(c)] = ix] ELSE index
        /\ UNCHANGED news /\ work[c].at = "load"
        /\ work' = [work EXCEPT ![c].at = "look", ![c].count = count]
    BY <1>5 DEF LoadsArticles
  <2>2. Len(news) \in Nat
    BY DEF LibraryInv
  <2>3. Team(c) \in TeamIds => IndexOK(ix)
    BY <1>1, <2>2, FilledOK
  <2> HIDE DEF ix, count
  <2>4. IndexKept
    BY <2>1, <2>3, IndexOf DEF LibraryInv, IndexKept
  <2>5. work' = [work EXCEPT ![c] = [work[c] EXCEPT !.at = "look", !.count = count]]
    <3>1. DOMAIN work = Callers /\ DOMAIN work[c] = DOMAIN Resting
      BY DEF LibraryInv, WorkOK
    <3>2. DOMAIN Resting = {"at", "todo", "gen", "found", "count", "text", "new"}
      BY DEF Resting
    <3> QED BY <2>1, <3>1, <3>2
  <2>6. WorkOK([work[c] EXCEPT !.at = "look", !.count = count])
    BY <2>1, GoesOnOK, Unchanged
  <2> QED BY <2>1, <2>4, <2>5, <2>6, WorkStep, Unchanged, KeepsAll
<1> QED BY <1>2, <1>3, <1>4, <1>5

\* The steps of the manager that write no index.
LEMMA RowsStep ==
  ASSUME LibraryInv, NEW c \in Callers,
         \/ \E t \in TeamIds : Searches(c, t) \/ StartsRebuild(c, <<t>>)
         \/ StartsRebuild(c, SetToSeq(TeamIds))
         \/ LooksForRow(c) \/ WritesMetadata(c) \/ CountsQuery(c) \/ QueryCounted(c)
         \/ FindsRow(c) \/ FinishesRebuild(c) \/ FailsRebuild(c) \/ Thrown(c)
  PROVE  LibraryInv'
<1>1. NewsKept /\ IndexKept
  BY Unchanged
     DEF Searches, StartsRebuild, LooksForRow, WritesMetadata, CountsQuery, QueryCounted,
         FindsRow, FinishesRebuild, FailsRebuild, Thrown
<1>2. WorkOK(work[c]) /\ DOMAIN work = Callers /\ DOMAIN work[c] = DOMAIN Resting
  BY DEF LibraryInv, WorkOK
<1>3. DOMAIN Resting = {"at", "todo", "gen", "found", "count", "text", "new"}
  BY DEF Resting
<1>4. ASSUME NEW at, at \notin {"idle", "check", "sign"}, work[c].at # "idle",
             \/ work' = [work EXCEPT ![c].at = at]
             \/ \E found : work' = [work EXCEPT ![c].at = at, ![c].found = found]
             \/ \E count : work' = [work EXCEPT ![c].at = at, ![c].count = count]
             \/ work' = [work EXCEPT ![c] = [@ EXCEPT !.at = at]]
      PROVE  WorkKept
  <2>1. \/ work' = [work EXCEPT ![c] = [work[c] EXCEPT !.at = at]]
        \/ \E found : work' = [work EXCEPT ![c] = [work[c] EXCEPT !.at = at, !.found = found]]
        \/ \E count : work' = [work EXCEPT ![c] = [work[c] EXCEPT !.at = at, !.count = count]]
    BY <1>2, <1>3, <1>4
  <2> QED BY <1>2, <1>4, <2>1, GoesOnOK, WorkStep
<1>5. ASSUME \/ work' = [work EXCEPT ![c] = Resting]
             \/ work' = [work EXCEPT ![c] = AfterTeam(c)]
      PROVE  WorkKept
  BY <1>5, RestingOK, AfterTeamOK, WorkStep
<1>6. CASE LooksForRow(c) \/ FindsRow(c)
  <2> DEFINE seen == Seen(Team(c)) # {}
  <2>1. \E at \in {"write", "mark"} : /\ work[c].at # "idle"
                                      /\ work' = [work EXCEPT ![c].at = at, ![c].found = seen]
    BY <1>6 DEF LooksForRow, FindsRow
  <2> HIDE DEF seen
  <2>2. WorkKept
    BY <1>4, <2>1
  <2> QED BY <1>1, <2>2, KeepsAll
<1>7. CASE WritesMetadata(c)
  <2>1. \/ work' = [work EXCEPT ![c] = [@ EXCEPT !.at = "unmark"]]
        \/ work' = [work EXCEPT ![c] = Resting]
    BY <1>7 DEF WritesMetadata
  <2>2. work[c].at # "idle"
    BY <1>7 DEF WritesMetadata
  <2> QED BY <1>1, <1>4, <1>5, <2>1, <2>2, KeepsAll
<1>8. CASE CountsQuery(c)
  <2>1. \/ work' = [work EXCEPT ![c] = Resting]
        \/ \E count : work' = [work EXCEPT ![c].at = "counted", ![c].count = count]
    BY <1>8 DEF CountsQuery
  <2>2. work[c].at # "idle"
    BY <1>8 DEF CountsQuery
  <2> QED BY <1>1, <1>4, <1>5, <2>1, <2>2, KeepsAll
<1>9. CASE QueryCounted(c) \/ FinishesRebuild(c) \/ FailsRebuild(c)
  BY <1>1, <1>5, <1>9, KeepsAll DEF QueryCounted, FinishesRebuild, FailsRebuild
<1>10. CASE Thrown(c)
  <2>1. \/ work' = [work EXCEPT ![c] = [@ EXCEPT !.at = "clear"]]
        \/ work' = [work EXCEPT ![c] = AfterTeam(c)]
    BY <1>10 DEF Thrown
  <2>2. work[c].at # "idle"
    BY <1>10 DEF Thrown, Waits
  <2> QED BY <1>1, <1>4, <1>5, <2>1, <2>2, KeepsAll
<1>11. CASE \/ \E t \in TeamIds : Searches(c, t) \/ StartsRebuild(c, <<t>>)
            \/ StartsRebuild(c, SetToSeq(TeamIds))
  <2>1. \E at \in {"count", "rebuild"} : \E todo : Asks(c, at, todo, 0)
    BY <1>11 DEF Searches, StartsRebuild
  <2> QED BY <1>1, <2>1, AskStep, KeepsAll
<1> QED BY <1>6, <1>7, <1>8, <1>9, <1>10, <1>11

LEMMA DedupStep ==
  ASSUME LibraryInv, NEW c \in Callers,
         \/ \E a \in ToSet(news) : SignsArticle(c, a)
         \/ \E t \in TeamIds, text \in Texts : Checks(c, t, text)
         \/ Answers(c) \/ ArticleSigned(c)
  PROVE  LibraryInv'
<1>1. ASSUME NEW at \in {"check", "sign"}, NEW todo, NEW text \in Texts,
             work' = [work EXCEPT ![c] = [Resting EXCEPT !.at = at, !.todo = todo, !.text = text]]
      PROVE  WorkKept
  <2>1. WorkOK([Resting EXCEPT !.at = at, !.todo = todo, !.text = text])
    BY DEF WorkOK, Resting
  <2> QED BY <1>1, <2>1, WorkStep
<1>2. ASSUME NEW a \in ToSet(news), SignsArticle(c, a) PROVE LibraryInv'
  <2>1. a.text \in Texts
    <3>1. news \in Seq(Article)
      BY DEF LibraryInv
    <3>2. PICK i \in DOMAIN news : a = news[i]
      BY DEF ToSet
    <3>3. a \in Article
      BY <3>1, <3>2
    <3> QED BY <3>3 DEF Article
  <2>2. WorkKept
    BY <1>1, <1>2, <2>1 DEF SignsArticle
  <2> QED BY <1>2, <2>2, Unchanged, KeepsAll DEF SignsArticle
<1>3. ASSUME NEW t \in TeamIds, NEW text \in Texts, Checks(c, t, text) PROVE LibraryInv'
  <2>1. WorkKept
    BY <1>1, <1>3 DEF Checks
  <2> QED BY <1>3, <2>1, Unchanged, KeepsAll DEF Checks
<1>4. ASSUME Answers(c) PROVE LibraryInv'
  <2> DEFINE answer == ~Matches(Recent(Team(c)), Signature(work[c].text))
  <2>1. work' = [work EXCEPT ![c] = [Resting EXCEPT !.new = answer]]
        /\ UNCHANGED <<news, index>>
    BY <1>4 DEF Answers
  <2> HIDE DEF answer
  <2>2. WorkOK([Resting EXCEPT !.new = answer])
    BY DEF WorkOK, Resting
  <2> QED BY <2>1, <2>2, WorkStep, Unchanged, KeepsAll
<1>5. ASSUME ArticleSigned(c) PROVE LibraryInv'
  <2>1. work[c].text \in Texts
    BY <1>5 DEF ArticleSigned, LibraryInv, WorkOK
  <2> DEFINE signed(i) == [news[i] EXCEPT !.minHash = Signature(work[c].text)]
  <2>2. /\ news' = [i \in DOMAIN news |->
                      IF news[i].id = Head(work[c].todo) THEN signed(i) ELSE news[i]]
        /\ work' = [work EXCEPT ![c] = Resting] /\ UNCHANGED index
    BY <1>5 DEF ArticleSigned
  <2>3. news \in Seq(Article)
    BY DEF LibraryInv
  <2>4. ASSUME NEW i \in DOMAIN news PROVE news[i] \in Article /\ signed(i) \in Article
    <3>1. news[i] \in Article
      BY <2>3
    <3> QED BY <2>1, <3>1, EditedArticle
  <2> HIDE DEF signed
  <2>5. NewsKept
    BY <2>2, <2>3, <2>4 DEF NewsKept
  <2> QED BY <2>2, <2>5, RestingOK, WorkStep, Unchanged, KeepsAll
<1> QED BY <1>2, <1>3, <1>4, <1>5

LEMMA LibraryInitial == ASSUME LibraryInit PROVE LibraryInv
<1>1. news \in Seq(Article)
  BY DEF LibraryInit
<1>2. DOMAIN index = TeamIds /\ \A t \in TeamIds : IndexOK(index[t])
  BY EmptyOK DEF LibraryInit
<1>3. work = [c \in Callers |-> work[c]] /\ \A c \in Callers : WorkOK(work[c])
  BY RestingOK DEF LibraryInit
<1> QED BY <1>1, <1>2, <1>3 DEF LibraryInv

LEMMA LibraryStep ==
  ASSUME LibraryInv, [SearchNext \/ DedupNext]_library PROVE LibraryInv'
<1>1. ASSUME Posts PROVE LibraryInv'
  <2>1. UNCHANGED <<index, work>> /\ NewsKept
    BY <1>1, PostsNews DEF Posts, LibraryInv, NewsKept
  <2> QED BY <2>1, Unchanged, KeepsAll
<1>2. ASSUME ClearAll \/ \E t \in TeamIds : ClearIndex(t) PROVE LibraryInv'
  <2>1. UNCHANGED <<news, work>>
    BY <1>2 DEF ClearAll, ClearIndex
  <2>2. CASE ClearAll
    <3>1. IndexKept
      BY <2>2, EmptyOK DEF ClearAll, IndexKept
    <3> QED BY <2>1, <3>1, Unchanged, KeepsAll
  <2>3. ASSUME NEW t \in TeamIds, ClearIndex(t) PROVE LibraryInv'
    <3>1. IndexKept
      BY <2>3, EmptyOK, IndexOf DEF ClearIndex, IndexKept, LibraryInv
    <3> QED BY <2>1, <3>1, Unchanged, KeepsAll
  <2> QED BY <1>2, <2>2, <2>3
<1>3. ASSUME UNCHANGED library PROVE LibraryInv'
  BY <1>3, Unchanged, KeepsAll DEF library
<1>4. ASSUME SearchNext PROVE LibraryInv'
  BY <1>1, <1>2, <1>4, ManagerStep, RowsStep DEF SearchNext
<1>5. ASSUME DedupNext PROVE LibraryInv'
  BY <1>1, <1>5, DedupStep, RowsStep DEF DedupNext
<1> QED BY <1>3, <1>4, <1>5

\* The documents a search finds are those with a term of the query.
LEMMA FindsDocuments ==
  ASSUME NEW ix, IndexOK(ix), NEW query
  PROVE  Scored(ix, query) = Containing(ix, query)
<1>1. \A t \in DOMAIN ix.postings : t \in Kept /\ DOMAIN ix.postings[t] = Having(ix, t)
  BY PostedValues DEF IndexOK
<1>2. ASSUME NEW d \in DOMAIN ix.docs
      PROVE  (\E t \in Terms(query) : t \in DOMAIN ix.postings /\ d \in DOMAIN ix.postings[t])
             <=> ToSet(query) \cap ToSet(ix.docs[d]) \cap Kept # {}
  <2>1. ASSUME NEW t \in Terms(query), t \in DOMAIN ix.postings, d \in DOMAIN ix.postings[t]
        PROVE  t \in ToSet(query) \cap ToSet(ix.docs[d]) \cap Kept
    BY <1>1, <2>1 DEF Having, Terms
  <2>2. ASSUME NEW t \in ToSet(query) \cap ToSet(ix.docs[d]) \cap Kept
        PROVE  t \in Terms(query) /\ t \in DOMAIN ix.postings /\ d \in DOMAIN ix.postings[t]
    <3>1. t \in Terms(query) /\ t \in Terms(ix.docs[d]) /\ t \in ToSet(ix.docs[d])
      BY DEF Terms
    <3>2. t \in DOMAIN ix.postings
      BY <3>1 DEF IndexOK
    <3> QED BY <1>1, <3>1, <3>2 DEF Having
  <2> QED BY <2>1, <2>2
<1> QED BY <1>2 DEF Scored, Containing

\* A search of a team's index finds documents that contain a term of the query and no
\* other, every one or as many as its limit if there are more, and counts each term as often as it occurs in the text the document has now
\* (BM25Index, BM25IndexManager): whatever callers add, remove, rebuild and clear, and
\* whichever storage calls of theirs fail.
THEOREM SearchIsRight == LibrarySpec => []FindsWhatIsThere
<1>1. ASSUME LibraryInv PROVE FindsWhatIsThere
  <2> SUFFICES ASSUME NEW t \in TeamIds
               PROVE  /\ \A query \in Texts :
                           Scored(index[t], query) = Containing(index[t], query)
                      /\ \A term \in DOMAIN index[t].postings : Posted(index[t], term)
    <3>1. ASSUME NEW ix, NEW query, NEW limit, NEW found \in Found(ix, query, limit),
                 Scored(ix, query) = Containing(ix, query)
          PROVE  /\ found \subseteq Containing(ix, query)
                 /\ IF Cardinality(Containing(ix, query)) <= limit
                      THEN found = Containing(ix, query) ELSE Cardinality(found) = limit
      BY <3>1 DEF Found
    <3> QED BY <3>1 DEF FindsWhatIsThere, Posted, Having
  <2>1. IndexOK(index[t])
    BY <1>1 DEF LibraryInv
  <2> QED BY <2>1, FindsDocuments DEF IndexOK
<1> QED BY <1>1, LibraryInitial, LibraryStep, PTL DEF LibrarySpec

\* A text's signature is that of a copy, and can be compared with it.
LEMMA CopiesMatch ==
  ASSUME NEW text \in Texts
  PROVE  /\ Signature(text) \notin {<<>>, Unreadable}
         /\ Similar(Signature(text), Signature(text))
<1> DEFINE sig == Signature(text)
           places == 1..NumHashes
<1>1. NumHashes \in Nat /\ NumHashes # 0 /\ sig # Unreadable
  BY SearchAssumption
<1>2. DOMAIN sig = places
  BY DEF Signature
<1>3. 1 \in places /\ 1 \notin DOMAIN <<>>
  BY <1>1
<1>4. sig # <<>>
  BY <1>2, <1>3
<1>5. {i \in places : sig[i] = sig[i]} = places
  OBVIOUS
<1>6. Cardinality(places) = NumHashes
  BY <1>1, FS_Interval
<1>7. Similar(sig, sig)
  <2> HIDE DEF sig
  <2>1. 100 * Cardinality({i \in 1..NumHashes : sig[i] = sig[i]}) = 100 * NumHashes
    BY <1>5, <1>6
  <2> QED BY <1>1, <2>1 DEF Similar
<1> QED BY <1>1, <1>4, <1>7

\* Only a check that is answered calls a text new.
LEMMA OnlyAnswers ==
  ASSUME LibraryInv, [SearchNext \/ DedupNext]_library, NEW c \in Callers,
         work[c].at = "check", work'[c].new
  PROVE  Answers(c)
<1>1. DOMAIN work = Callers /\ ~work[c].new /\ DOMAIN work[c] = DOMAIN Resting
  BY DEF LibraryInv, WorkOK
<1>2. DOMAIN Resting = {"at", "todo", "gen", "found", "count", "text", "new"}
  BY DEF Resting
<1>3. work'[c] # work[c]
  BY <1>1
<1>4. ~Posts /\ ~ClearAll /\ (\A t \in TeamIds : ~ClearIndex(t)) /\ ~(UNCHANGED library)
  BY <1>3 DEF Posts, ClearAll, ClearIndex, library
<1>5. ASSUME NEW d \in Callers, NEW at, NEW todo, NEW count, Asks(d, at, todo, count)
      PROVE  FALSE
  <2>1. d # c
    BY <1>5 DEF Asks
  <2> QED BY <1>1, <1>3, <1>5, <2>1 DEF Asks
<1>6. ASSUME NEW d \in Callers, NEW w, work' = [work EXCEPT ![d] = w] PROVE d = c
  BY <1>1, <1>3, <1>6
<1>7. ASSUME NEW d \in Callers,
             \/ MarksRebuild(d) \/ LoadsArticles(d) \/ LooksForRow(d) \/ FindsRow(d)
      PROVE  FALSE
  <2>1. d # c
    BY <1>7 DEF MarksRebuild, LoadsArticles, LooksForRow, FindsRow
  <2>2. work'[c] = work[c]
    BY <1>1, <1>7, <2>1 DEF MarksRebuild, LoadsArticles, LooksForRow, FindsRow
  <2> QED BY <1>3, <2>2
<1>8. ASSUME NEW d \in Callers,
             \/ WritesMetadata(d) \/ CountsQuery(d) \/ QueryCounted(d)
             \/ FinishesRebuild(d) \/ FailsRebuild(d) \/ ArticleSigned(d)
      PROVE  FALSE
  <2>1. d # c
    BY <1>8
       DEF WritesMetadata, CountsQuery, QueryCounted, FinishesRebuild, FailsRebuild, ArticleSigned
  <2>2. work'[c] = work[c]
    BY <1>1, <1>8, <2>1
       DEF WritesMetadata, CountsQuery, QueryCounted, FinishesRebuild, FailsRebuild, ArticleSigned
  <2> QED BY <1>3, <2>2
<1>9. ASSUME NEW d \in Callers,
             \/ \E a \in ToSet(news) : SignsArticle(d, a)
             \/ \E t \in TeamIds, text \in Texts : Checks(d, t, text)
      PROVE  FALSE
  <2>1. d # c
    BY <1>9 DEF SignsArticle, Checks
  <2>2. work'[c] = work[c]
    BY <1>1, <1>9, <2>1 DEF SignsArticle, Checks
  <2> QED BY <1>3, <2>2
<1>10. ASSUME NEW d \in Callers,
              \/ \E a \in ToSet(news) : AddArticle(d, a) \/ RemoveDocument(d, a)
              \/ \E t \in TeamIds : Searches(d, t) \/ StartsRebuild(d, <<t>>)
              \/ StartsRebuild(d, SetToSeq(TeamIds))
       PROVE  FALSE
  <2>1. \E at, todo, count : Asks(d, at, todo, count)
    BY <1>10 DEF AddArticle, RemoveDocument, Searches, StartsRebuild
  <2> QED BY <1>5, <2>1
<1>11. ASSUME NEW d \in Callers, Thrown(d) PROVE FALSE
  <2>1. d = c
    BY <1>6, <1>11 DEF Thrown
  <2>2. \/ work' = [work EXCEPT ![c] = [work[c] EXCEPT !.at = "clear"]]
        \/ work' = [work EXCEPT ![c] = AfterTeam(c)]
    BY <1>11, <2>1 DEF Thrown
  <2>3. ~AfterTeam(c).new
    <3>1. \A todo : ~[Resting EXCEPT !.at = "rebuild", !.todo = todo].new
      BY DEF Resting
    <3> QED BY <3>1, RestingOK DEF AfterTeam
  <2> QED BY <1>1, <1>2, <2>2, <2>3
<1>12. ASSUME NEW d \in Callers, Answers(d) PROVE d = c
  BY <1>6, <1>12 DEF Answers
<1>13. SearchNext \/ DedupNext
  BY <1>4
<1>14. ASSUME SearchNext PROVE FALSE
  BY <1>4, <1>7, <1>8, <1>10, <1>11, <1>14 DEF SearchNext
<1>15. ASSUME DedupNext PROVE Answers(c)
  BY <1>4, <1>8, <1>9, <1>11, <1>12, <1>15 DEF DedupNext
<1> QED BY <1>13, <1>14, <1>15

\* A check that could read the recent articles and calls a text new has seen no signed
\* article of the team with the same text (Deduplicator.checkDuplicate): for any hash
\* functions, articles and callers, whatever was published or signed while it waited.
THEOREM CopiesAreFound == LibrarySpec => CopiesFound
<1>1. ASSUME LibraryInv, [SearchNext \/ DedupNext]_library, NEW c \in Callers,
             work[c].at = "check", work'[c].new,
             NEW a \in ToSet(Recent(Team(c))), a.text = work[c].text
      PROVE  a.minHash # Signature(a.text)
  <2> DEFINE recent == Recent(Team(c))
             sig == Signature(work[c].text)
  <2>1. Answers(c)
    BY <1>1, OnlyAnswers
  <2>2. work' = [work EXCEPT ![c] = [Resting EXCEPT !.new = ~Matches(recent, sig)]]
    BY <2>1 DEF Answers
  <2>3. DOMAIN work = Callers /\ work[c].text \in Texts
    BY <1>1 DEF LibraryInv, WorkOK
  <2> HIDE DEF recent, sig
  <2>4. ~Matches(recent, sig)
    BY <1>1, <2>2, <2>3 DEF Resting
  <2>5. ~(a.minHash # <<>> /\ a.minHash # Unreadable /\ Similar(sig, a.minHash))
    BY <1>1, <2>4 DEF Matches, recent
  <2>6. sig \notin {<<>>, Unreadable} /\ Similar(sig, sig)
    BY <2>3, CopiesMatch DEF sig
  <2> QED BY <1>1, <2>5, <2>6 DEF sig
<1>2. LibraryInv /\ [SearchNext \/ DedupNext]_library =>
        \A c \in Callers : work[c].at = "check" /\ work'[c].new =>
          \A a \in ToSet(Recent(Team(c))) : a.text = work[c].text => a.minHash # Signature(a.text)
  BY <1>1
<1> QED BY <1>2, LibraryInitial, LibraryStep, PTL DEF LibrarySpec, CopiesFound

-----------------------------------------------------------------------------
(***************************************************************************)
(* The error monitor: picking places of a list, and what an alert stands   *)
(* for.                                                                    *)
(***************************************************************************)

\* How many places of S are not after j.
RankIn(S, j) == Cardinality({k \in S : k <= j})

LEMMA RankGrows ==
  ASSUME NEW S \in SUBSET Nat, IsFiniteSet(S), NEW i \in S, NEW j \in S
  PROVE  /\ RankIn(S, j) \in 1..Cardinality(S)
         /\ i < j => RankIn(S, i) < RankIn(S, j)
<1> DEFINE upTo(x) == {k \in S : k <= x}
<1>1. \A x : IsFiniteSet(upTo(x)) /\ Cardinality(upTo(x)) <= Cardinality(S)
  BY FS_Subset
<1>2. Cardinality(S) \in Nat /\ \A x : Cardinality(upTo(x)) \in Nat
  BY <1>1, FS_CardinalityType
<1>3. Cardinality(upTo(j)) # 0
  <2>1. j \in upTo(j)
    OBVIOUS
  <2> QED BY <1>1, <2>1, FS_EmptySet
<1>4. ASSUME i < j PROVE Cardinality(upTo(i)) < Cardinality(upTo(j))
  <2>1. upTo(i) \in SUBSET upTo(j) /\ j \in upTo(j) /\ j \notin upTo(i)
    <3>1. i \in Nat /\ j \in Nat /\ i < j /\ \A k \in S : k \in Nat
      BY <1>4
    <3>2. \A k \in S : k <= i => k <= j
      BY <3>1
    <3>3. upTo(i) \subseteq upTo(j)
      BY <3>2
    <3>4. j \in upTo(j) /\ ~(j <= i)
      BY <3>1
    <3> QED BY <3>3, <3>4
  <2>2. /\ Cardinality(upTo(i)) <= Cardinality(upTo(j))
        /\ Cardinality(upTo(j)) = Cardinality(upTo(i)) => upTo(j) = upTo(i)
    <3> HIDE DEF upTo
    <3> QED BY <1>1, <2>1, FS_Subset, Zenon
  <2>3. upTo(j) # upTo(i)
    BY <2>1
  <2> HIDE DEF upTo
  <2> QED BY <1>2, <2>2, <2>3
<1> QED BY <1>1, <1>2, <1>3, <1>4 DEF RankIn

\* Every place is the i-th of S for one i: the ranks are as many as the places.
LEMMA PlacesExist ==
  ASSUME NEW S \in SUBSET Nat, IsFiniteSet(S)
  PROVE  /\ Cardinality(S) \in Nat
         /\ \A i \in 1..Cardinality(S) : PlaceOf(i, S) \in S /\ RankIn(S, PlaceOf(i, S)) = i
         /\ \A j \in S : RankIn(S, j) \in 1..Cardinality(S) /\ PlaceOf(RankIn(S, j), S) = j
<1> DEFINE n == Cardinality(S)
           rank == [j \in S |-> RankIn(S, j)]
<1>1. n \in Nat /\ IsFiniteSet(1..n) /\ Cardinality(1..n) = n
  BY FS_CardinalityType, FS_Interval
<1>2. rank \in [S -> 1..n] /\ \A i, j \in S : i < j => rank[i] < rank[j]
  BY RankGrows
<1>3. \A i, j \in S : rank[i] = rank[j] => i = j
  <2> TAKE i \in S, j \in S
  <2>1. i \in Nat /\ j \in Nat /\ rank[i] \in Nat /\ rank[j] \in Nat
    BY <1>1, <1>2
  <2> QED BY <1>2, <2>1
<1>4. rank \in Injection(S, 1..n)
  BY <1>2, <1>3 DEF Injection, IsInjective
<1>5. rank \in Surjection(S, 1..n)
  BY <1>1, <1>4, FS_Injection, Zenon
<1>6. \A i \in 1..n : \E j \in S : RankIn(S, j) = i
  BY <1>5 DEF Surjection
<1>7. \A i \in 1..n : PlaceOf(i, S) \in S /\ RankIn(S, PlaceOf(i, S)) = i
  BY <1>6 DEF PlaceOf, RankIn
<1>8. \A j \in S : RankIn(S, j) \in 1..n
  BY RankGrows
<1>9. \A j \in S : PlaceOf(RankIn(S, j), S) = j
  BY <1>3, <1>7, <1>8
<1> QED BY <1>1, <1>7, <1>8, <1>9

\* What picking places of a sequence gives: the elements of these places, in order.
LEMMA PickedElements ==
  ASSUME NEW A, NEW q \in Seq(A), NEW S \in SUBSET DOMAIN q
  PROVE  /\ Picked(q, S) \in Seq(A)
         /\ \A i \in DOMAIN Picked(q, S) :
              PlaceOf(i, S) \in S /\ Picked(q, S)[i] = q[PlaceOf(i, S)]
         /\ \A i, j \in DOMAIN Picked(q, S) : i < j => PlaceOf(i, S) < PlaceOf(j, S)
         /\ \A k \in S : \E i \in DOMAIN Picked(q, S) : Picked(q, S)[i] = q[k]
<1>1. DOMAIN q = 1..Len(q) /\ Len(q) \in Nat /\ IsFiniteSet(1..Len(q))
  BY FS_Interval
<1>2. S \in SUBSET Nat /\ IsFiniteSet(S)
  BY <1>1, FS_Subset
<1> DEFINE n == Cardinality(S)
<1>3. /\ n \in Nat
      /\ \A i \in 1..n : PlaceOf(i, S) \in S /\ RankIn(S, PlaceOf(i, S)) = i
      /\ \A j \in S : RankIn(S, j) \in 1..n /\ PlaceOf(RankIn(S, j), S) = j
  BY <1>2, PlacesExist, Zenon
<1>4. DOMAIN Picked(q, S) = 1..n /\ \A i \in 1..n : Picked(q, S)[i] = q[PlaceOf(i, S)]
  BY DEF Picked
<1>5. \A i \in 1..n : q[PlaceOf(i, S)] \in A
  BY <1>1, <1>3
<1>6. Picked(q, S) \in Seq(A)
  BY <1>3, <1>5 DEF Picked
<1>7. \A i, j \in 1..n : i < j => PlaceOf(i, S) < PlaceOf(j, S)
  <2> SUFFICES ASSUME NEW i \in 1..n, NEW j \in 1..n, i < j, ~(PlaceOf(i, S) < PlaceOf(j, S))
               PROVE FALSE
    OBVIOUS
  <2>1. PlaceOf(i, S) \in S /\ PlaceOf(j, S) \in S /\ RankIn(S, PlaceOf(i, S)) = i
        /\ RankIn(S, PlaceOf(j, S)) = j
    BY <1>3
  <2>2. PlaceOf(i, S) \in Nat /\ PlaceOf(j, S) \in Nat
    BY <1>2, <2>1
  <2>3. PlaceOf(j, S) < PlaceOf(i, S) \/ PlaceOf(j, S) = PlaceOf(i, S)
    BY <2>2
  <2>4. PlaceOf(j, S) < PlaceOf(i, S) => RankIn(S, PlaceOf(j, S)) < RankIn(S, PlaceOf(i, S))
    BY <1>2, <2>1, RankGrows
  <2> QED BY <2>1, <2>3, <2>4
<1>8. \A k \in S : \E i \in 1..n : Picked(q, S)[i] = q[k]
  BY <1>3, <1>4
<1> QED BY <1>3, <1>4, <1>6, <1>7, <1>8

AlertTypes == {"error_rate", "critical_error"}
Error == [at : Nat, type : Classes]
Alert == [at : Nat, type : AlertTypes]

\* Beyond, of any history: the errors up to the i-th that count for the type.
Counted(h, i, type) ==
  {j \in IF type = "error_rate" THEN RecentErrors(h, h[i].at) ELSE CriticalErrors(h, h[i].at) :
     j <= i}
LimitOf(type) == IF type = "error_rate" THEN RateLimit ELSE CriticalLimit
Over(h, i, type) == Cardinality(Counted(h, i, type)) > LimitOf(type)

\* Alerts of one type and time are one.
AlertsOK(list) ==
  /\ list \in Seq(Alert)
  /\ \A k \in DOMAIN list : list[k].at <= now
  /\ \A j, k \in DOMAIN list : list[j].type = list[k].type /\ list[j].at = list[k].at => j = k

HasAlert(list, type, t) == \E k \in DOMAIN list : list[k].type = type /\ list[k].at = t

MonitorInv ==
  /\ now \in Nat
  /\ errors \in Seq(Error) /\ \A i \in DOMAIN errors : errors[i].at <= now
  /\ AlertsOK(alerts)
  /\ \A i \in DOMAIN errors, type \in AlertTypes :
       Over(errors, i, type) => HasAlert(alerts, type, errors[i].at)

LEMMA BeyondIsOver ==
  ASSUME NEW i, NEW type \in AlertTypes
  PROVE  Beyond(i, type) <=> Over(errors, i, type)
<1>1. CASE type = "error_rate"
  BY <1>1 DEF Beyond, Over, Counted, LimitOf
<1>2. CASE type = "critical_error"
  BY <1>2 DEF Beyond, Over, Counted, LimitOf
<1> QED BY <1>1, <1>2 DEF AlertTypes

\* What counts.
LEMMA CountedWhen ==
  ASSUME NEW h, NEW i, NEW j, NEW type
  PROVE  j \in Counted(h, i, type) <=>
           /\ j \in DOMAIN h /\ j <= i
           /\ \/ type = "error_rate" /\ h[j].at + 1 >= h[i].at
              \/ type # "error_rate" /\ h[j].at + LongWindow >= h[i].at /\ IsCritical(h[j].type)
BY DEF Counted, RecentErrors, CriticalErrors

LEMMA CountedFinite ==
  ASSUME NEW h \in Seq(Error), NEW i, NEW type
  PROVE  /\ IsFiniteSet(Counted(h, i, type)) /\ Cardinality(Counted(h, i, type)) \in Nat
         /\ Counted(h, i, type) \subseteq DOMAIN h
<1>1. DOMAIN h = 1..Len(h) /\ IsFiniteSet(1..Len(h))
  BY FS_Interval
<1>2. Counted(h, i, type) \subseteq DOMAIN h
  BY CountedWhen
<1> QED BY <1>1, <1>2, FS_Subset, FS_CardinalityType

\* An error that is kept was beyond the threshold if it is among those that are left.
LEMMA OverKept ==
  ASSUME NEW h \in Seq(Error), NEW S \in SUBSET DOMAIN h, NEW type \in AlertTypes,
         NEW i \in DOMAIN Picked(h, S), Over(Picked(h, S), i, type)
  PROVE  Over(h, PlaceOf(i, S), type)
<1> DEFINE p == Picked(h, S)
           C == Counted(p, i, type)
           D == Counted(h, PlaceOf(i, S), type)
           f == [j \in C |-> PlaceOf(j, S)]
<1>1. /\ p \in Seq(Error)
      /\ \A j \in DOMAIN p : PlaceOf(j, S) \in S /\ p[j] = h[PlaceOf(j, S)]
      /\ \A j, k \in DOMAIN p : j < k => PlaceOf(j, S) < PlaceOf(k, S)
  BY PickedElements
<1> HIDE DEF p
<1>2. /\ DOMAIN p \subseteq Nat /\ DOMAIN h \subseteq Nat
      /\ \A j \in DOMAIN p : PlaceOf(j, S) \in Nat /\ PlaceOf(j, S) \in DOMAIN h
  BY <1>1
<1>3. \A j \in C : j \in DOMAIN p /\ j <= i
  BY CountedWhen
<1>4. i \in DOMAIN p
  BY DEF p
<1>5. ASSUME NEW j \in C PROVE PlaceOf(j, S) \in D
  <2>1. j \in DOMAIN p /\ j <= i
    BY <1>3
  <2>2. PlaceOf(j, S) <= PlaceOf(i, S)
    <3>1. j < i \/ j = i
      BY <1>2, <1>4, <2>1
    <3> QED BY <1>1, <1>2, <1>4, <2>1, <3>1
  <2>3. p[j] = h[PlaceOf(j, S)] /\ p[i] = h[PlaceOf(i, S)]
    BY <1>1, <1>4, <2>1
  <2>4. \/ type = "error_rate" /\ p[j].at + 1 >= p[i].at
        \/ type # "error_rate" /\ p[j].at + LongWindow >= p[i].at /\ IsCritical(p[j].type)
    BY CountedWhen
  <2> QED BY <1>2, <2>1, <2>2, <2>3, <2>4, CountedWhen
<1>6. ASSUME NEW j \in C, NEW k \in C, PlaceOf(j, S) = PlaceOf(k, S) PROVE j = k
  <2>1. j \in DOMAIN p /\ k \in DOMAIN p /\ j \in Nat /\ k \in Nat
    BY <1>2, <1>3
  <2>2. ~(PlaceOf(j, S) < PlaceOf(k, S)) /\ ~(PlaceOf(k, S) < PlaceOf(j, S))
    BY <1>2, <1>6, <2>1
  <2> QED BY <1>1, <2>1, <2>2
<1>7. f \in Injection(C, D)
  <2> HIDE DEF C, D
  <2> QED BY <1>5, <1>6 DEF Injection, IsInjective
<1>8. Cardinality(C) <= Cardinality(D)
  <2>1. IsFiniteSet(D)
    BY CountedFinite
  <2> HIDE DEF C, D, f
  <2> QED BY <1>7, <2>1, FS_Injection, Zenon
<1>9. Cardinality(C) \in Nat /\ Cardinality(D) \in Nat
  BY <1>1, CountedFinite
<1>10. LimitOf(type) \in Nat
  BY MonitorAssumption DEF LimitOf
<1>11. Cardinality(C) > LimitOf(type)
  BY DEF Over, p
<1>12. Cardinality(D) > LimitOf(type)
  <2> HIDE DEF C, D
  <2> QED BY <1>8, <1>9, <1>10, <1>11
<1> QED BY <1>12 DEF Over

\* An alert is triggered once.
LEMMA TriggeredOK ==
  ASSUME now \in Nat, NEW list, AlertsOK(list), NEW type \in AlertTypes
  PROVE  /\ AlertsOK(Triggered(list, type)) /\ HasAlert(Triggered(list, type), type, now)
         /\ \A x, t : HasAlert(list, x, t) => HasAlert(Triggered(list, type), x, t)
<1>1. CASE Fresh(list, type) # {}
  <2>1. PICK k \in DOMAIN list : list[k].type = type /\ list[k].at + 1 > now
    BY <1>1 DEF Fresh
  <2>2. list[k] \in Alert /\ list[k].at <= now
    BY DEF AlertsOK
  <2>3. list[k].at = now
    BY <2>1, <2>2 DEF Alert
  <2> QED BY <1>1, <2>1, <2>3 DEF Triggered, HasAlert
<1>2. CASE Fresh(list, type) = {}
  <2> DEFINE new == [at |-> now, type |-> type]
             p == Append(list, new)
  <2>1. Triggered(list, type) = p /\ list \in Seq(Alert)
    BY <1>2 DEF Triggered, AlertsOK
  <2>2. new \in Alert /\ new.at = now /\ new.type = type
    BY DEF Alert
  <2> HIDE DEF new
  <2>3. /\ p \in Seq(Alert) /\ DOMAIN p = 1..(Len(list) + 1) /\ p[Len(list) + 1] = new
        /\ DOMAIN list = 1..Len(list) /\ Len(list) \in Nat
        /\ \A k \in DOMAIN list : p[k] = list[k] /\ k \in DOMAIN p /\ k # Len(list) + 1
        /\ \A k \in DOMAIN p : k \in DOMAIN list \/ k = Len(list) + 1
    BY <2>1, <2>2
  <2> HIDE DEF p
  <2>4. \A k \in DOMAIN list : ~(list[k].type = type /\ list[k].at = now)
    <3> SUFFICES ASSUME NEW k \in DOMAIN list, list[k].type = type, list[k].at = now PROVE FALSE
      OBVIOUS
    <3>1. list[k].at + 1 > now
      OBVIOUS
    <3> QED BY <1>2, <3>1 DEF Fresh
  <2>5. \A k \in DOMAIN p : p[k].at <= now
    BY <2>2, <2>3 DEF AlertsOK
  <2>6. \A j, k \in DOMAIN p : p[j].type = p[k].type /\ p[j].at = p[k].at => j = k
    BY <2>2, <2>3, <2>4 DEF AlertsOK
  <2>7. AlertsOK(p)
    BY <2>3, <2>5, <2>6 DEF AlertsOK
  <2>8. HasAlert(p, type, now)
    <3>1. Len(list) + 1 \in DOMAIN p
      BY <2>3
    <3> QED BY <2>2, <2>3, <3>1 DEF HasAlert
  <2>9. \A x, t : HasAlert(list, x, t) => HasAlert(p, x, t)
    BY <2>3 DEF HasAlert
  <2> QED BY <2>1, <2>7, <2>8, <2>9
<1> QED BY <1>1, <1>2

LEMMA CheckedOK ==
  ASSUME now \in Nat, AlertsOK(alerts), NEW h
  PROVE  /\ AlertsOK(Checked(h))
         /\ HighRate(h) => HasAlert(Checked(h), "error_rate", now)
         /\ ManyCritical(h) => HasAlert(Checked(h), "critical_error", now)
         /\ \A x, t : HasAlert(alerts, x, t) => HasAlert(Checked(h), x, t)
<1> DEFINE first == IF HighRate(h) THEN Triggered(alerts, "error_rate") ELSE alerts
           last == IF ManyCritical(h) THEN Triggered(first, "critical_error") ELSE first
<1>1. "error_rate" \in AlertTypes /\ "critical_error" \in AlertTypes
  BY DEF AlertTypes
<1>2. /\ AlertsOK(first)
      /\ HighRate(h) => HasAlert(first, "error_rate", now)
      /\ \A x, t : HasAlert(alerts, x, t) => HasAlert(first, x, t)
  BY <1>1, TriggeredOK
<1>3. Checked(h) = last
  BY DEF Checked
<1> HIDE DEF first
<1>4. /\ AlertsOK(last)
      /\ ManyCritical(h) => HasAlert(last, "critical_error", now)
      /\ \A x, t : HasAlert(first, x, t) => HasAlert(last, x, t)
  BY <1>1, <1>2, TriggeredOK
<1> QED BY <1>2, <1>3, <1>4

\* A new error changes nothing for those before it, and is counted with all of them.
LEMMA OverAppended ==
  ASSUME NEW h \in Seq(Error), NEW class \in Classes, now \in Nat,
         NEW type \in AlertTypes
  PROVE  LET g == Append(h, [at |-> now, type |-> class]) IN
         /\ g \in Seq(Error) /\ DOMAIN g = 1..(Len(h) + 1)
         /\ \A i \in DOMAIN h : g[i] = h[i] /\ (Over(g, i, type) => Over(h, i, type))
         /\ g[Len(h) + 1].at = now
         /\ Over(g, Len(h) + 1, type) =>
              IF type = "error_rate" THEN HighRate(g) ELSE ManyCritical(g)
<1> DEFINE new == [at |-> now, type |-> class]
           g == Append(h, new)
           n == Len(h) + 1
<1>1. new \in Error /\ new.at = now
  BY DEF Error
<1> HIDE DEF new
<1>2. /\ g \in Seq(Error) /\ DOMAIN g = 1..n /\ g[n] = new /\ n \in Nat
      /\ DOMAIN h = 1..Len(h) /\ Len(h) \in Nat
      /\ \A i \in DOMAIN h : g[i] = h[i]
  BY <1>1
<1> HIDE DEF g
<1>3. ASSUME NEW i \in DOMAIN h PROVE Counted(g, i, type) = Counted(h, i, type)
  <2>1. \A j : j \in DOMAIN g /\ j <= i <=> j \in DOMAIN h /\ j <= i
    BY <1>2
  <2>2. \A j \in DOMAIN h : g[j] = h[j]
    BY <1>2
  <2>3. g[i] = h[i]
    BY <2>2
  <2>4. ASSUME NEW j PROVE j \in Counted(g, i, type) <=> j \in Counted(h, i, type)
    <3>1. j \in DOMAIN h => g[j] = h[j]
      BY <2>2
    <3> QED BY <2>1, <2>3, <3>1, CountedWhen
  <2> QED BY <2>4
<1>4. Counted(g, n, type) = IF type = "error_rate" THEN RecentErrors(g, now)
                            ELSE CriticalErrors(g, now)
  <2>1. \A j \in DOMAIN g : j <= n
    BY <1>2
  <2>2. g[n].at = now
    BY <1>1, <1>2
  <2> QED BY <2>1, <2>2 DEF Counted, RecentErrors, CriticalErrors
<1>5. \A i \in DOMAIN h : Over(g, i, type) => Over(h, i, type)
  BY <1>3 DEF Over
<1>6. Over(g, n, type) => IF type = "error_rate" THEN HighRate(g) ELSE ManyCritical(g)
  BY <1>4 DEF Over, LimitOf, HighRate, ManyCritical, AlertTypes
<1>7. g[n].at = now
  BY <1>1, <1>2
<1> QED BY <1>2, <1>5, <1>6, <1>7 DEF g, new

LEMMA TrackInv ==
  ASSUME MonitorInv, NEW class \in Classes, TrackError(class)
  PROVE  MonitorInv'
<1> DEFINE g == Append(errors, [at |-> now, type |-> class])
           n == Len(errors) + 1
<1>1. now' = now /\ now \in Nat /\ errors \in Seq(Error) /\ AlertsOK(alerts)
  BY DEF TrackError, MonitorInv
<1>2. CASE class = "ignored"
  BY <1>2 DEF TrackError, MonitorInv, AlertsOK
<1>3. CASE class # "ignored"
  <2>1. errors' = g /\ alerts' = Checked(g)
    BY <1>3 DEF TrackError
  <2>2. /\ g \in Seq(Error) /\ DOMAIN g = 1..n
        /\ \A i \in DOMAIN errors : g[i] = errors[i]
        /\ g[n].at = now
    BY <1>1, OverAppended DEF AlertTypes
  <2>3. ASSUME NEW type \in AlertTypes
        PROVE  /\ \A i \in DOMAIN errors : Over(g, i, type) => Over(errors, i, type)
               /\ Over(g, n, type) => IF type = "error_rate" THEN HighRate(g) ELSE ManyCritical(g)
    BY <1>1, OverAppended
  <2> HIDE DEF g
  <2>4. /\ AlertsOK(alerts')
        /\ HighRate(g) => HasAlert(alerts', "error_rate", now)
        /\ ManyCritical(g) => HasAlert(alerts', "critical_error", now)
        /\ \A x, t : HasAlert(alerts, x, t) => HasAlert(alerts', x, t)
    BY <1>1, <2>1, CheckedOK
  <2>5. \A i \in DOMAIN g : i \in DOMAIN errors \/ i = n
    BY <1>1, <2>2
  <2>6. \A i \in DOMAIN g : g[i].at <= now
    BY <1>1, <2>2, <2>5 DEF MonitorInv
  <2>7. ASSUME NEW i \in DOMAIN g, NEW type \in AlertTypes, Over(g, i, type)
        PROVE  HasAlert(alerts', type, g[i].at)
    <3>1. CASE i \in DOMAIN errors
      BY <2>2, <2>3, <2>4, <2>7, <3>1 DEF MonitorInv
    <3>2. CASE i = n
      BY <2>2, <2>3, <2>4, <2>7, <3>2 DEF AlertTypes
    <3> QED BY <2>5, <3>1, <3>2
  <2>8. AlertsOK(alerts)'
    BY <1>1, <2>4 DEF AlertsOK
  <2> QED BY <1>1, <2>1, <2>2, <2>6, <2>7, <2>8 DEF MonitorInv
<1> QED BY <1>2, <1>3

LEMMA CleanupInv == ASSUME MonitorInv, Cleanup PROVE MonitorInv'
<1> DEFINE S == Lasting(errors)
           R == Lasting(alerts)
           p == Picked(errors, S)
           q == Picked(alerts, R)
<1>1. /\ errors' = p /\ alerts' = q /\ now' = now
      /\ now \in Nat /\ errors \in Seq(Error) /\ alerts \in Seq(Alert)
      /\ S \in SUBSET DOMAIN errors /\ R \in SUBSET DOMAIN alerts
  BY DEF Cleanup, MonitorInv, AlertsOK, Lasting
<1>2. /\ p \in Seq(Error)
      /\ \A i \in DOMAIN p : PlaceOf(i, S) \in S /\ p[i] = errors[PlaceOf(i, S)]
  BY <1>1, PickedElements
<1>3. /\ q \in Seq(Alert)
      /\ \A i \in DOMAIN q : PlaceOf(i, R) \in R /\ q[i] = alerts[PlaceOf(i, R)]
      /\ \A i, j \in DOMAIN q : i < j => PlaceOf(i, R) < PlaceOf(j, R)
      /\ \A k \in R : \E i \in DOMAIN q : q[i] = alerts[k]
  BY <1>1, PickedElements
<1>4. \A i \in DOMAIN p, type \in AlertTypes : Over(p, i, type) => Over(errors, PlaceOf(i, S), type)
  BY <1>1, OverKept
<1>5. (\A i \in S : i \in DOMAIN errors /\ errors[i].at + History >= now)
      /\ R = {i \in DOMAIN alerts : alerts[i].at + History >= now}
  BY DEF Lasting
<1> HIDE DEF p, q, S, R
<1>6. \A i \in DOMAIN p : p[i].at <= now
  BY <1>2, <1>5 DEF MonitorInv
<1>7. AlertsOK(q)
  <2>1. \A k \in DOMAIN q : q[k].at <= now
    BY <1>3, <1>5 DEF MonitorInv, AlertsOK
  <2>2. ASSUME NEW j \in DOMAIN q, NEW k \in DOMAIN q,
               q[j].type = q[k].type, q[j].at = q[k].at
        PROVE  j = k
    <3>1. PlaceOf(j, R) = PlaceOf(k, R) /\ PlaceOf(j, R) \in DOMAIN alerts
      BY <1>3, <1>5, <2>2 DEF MonitorInv, AlertsOK
    <3>2. PlaceOf(j, R) \in Nat /\ j \in Nat /\ k \in Nat
      BY <1>1, <1>3, <3>1
    <3>3. ~(j < k) /\ ~(k < j)
      BY <1>3, <3>1, <3>2
    <3> QED BY <3>2, <3>3
  <2> QED BY <1>3, <2>1, <2>2 DEF AlertsOK
<1>8. ASSUME NEW i \in DOMAIN p, NEW type \in AlertTypes, Over(p, i, type)
      PROVE  HasAlert(q, type, p[i].at)
  <2>1. Over(errors, PlaceOf(i, S), type) /\ PlaceOf(i, S) \in S
        /\ p[i] = errors[PlaceOf(i, S)]
    BY <1>2, <1>4, <1>8
  <2>2. PICK k \in DOMAIN alerts : alerts[k].type = type /\ alerts[k].at = p[i].at
    BY <1>5, <2>1 DEF MonitorInv, HasAlert
  <2>3. k \in R
    BY <1>5, <2>1, <2>2
  <2> QED BY <1>3, <2>2, <2>3 DEF HasAlert
<1>9. AlertsOK(alerts)'
  BY <1>1, <1>7 DEF AlertsOK
<1> QED BY <1>1, <1>2, <1>6, <1>8, <1>9 DEF MonitorInv

LEMMA MonitorStep == ASSUME MonitorInv, [MonitorNext]_monitor PROVE MonitorInv'
<1>1. ASSUME TimePasses PROVE MonitorInv'
  <2>1. /\ now \in Nat /\ now' = now + 1 /\ errors' = errors /\ alerts' = alerts
        /\ alerts \in Seq(Alert) /\ errors \in Seq(Error)
    BY <1>1 DEF TimePasses, MonitorInv, AlertsOK
  <2>2. /\ \A i \in DOMAIN errors : errors[i].at \in Nat /\ errors[i].at <= now
        /\ \A k \in DOMAIN alerts : alerts[k].at \in Nat /\ alerts[k].at <= now
    <3>1. \A i \in DOMAIN errors : errors[i] \in Error
      BY <2>1
    <3>2. \A k \in DOMAIN alerts : alerts[k] \in Alert
      BY <2>1
    <3>3. (\A e \in Error : e.at \in Nat) /\ (\A a \in Alert : a.at \in Nat)
      BY DEF Error, Alert
    <3> QED BY <3>1, <3>2, <3>3 DEF MonitorInv, AlertsOK
  <2>3. /\ \A i \in DOMAIN errors : errors[i].at <= now'
        /\ \A k \in DOMAIN alerts : alerts[k].at <= now'
    BY <2>1, <2>2
  <2>4. AlertsOK(alerts)'
    BY <2>1, <2>3 DEF MonitorInv, AlertsOK
  <2> QED BY <2>1, <2>3, <2>4 DEF MonitorInv
<1>2. ASSUME UNCHANGED monitor PROVE MonitorInv'
  BY <1>2 DEF monitor, MonitorInv, AlertsOK
<1> QED BY <1>1, <1>2, TrackInv, CleanupInv DEF MonitorNext

\* A report sees a critical alert of the last hour, unless as many came after it as it
\* looks at.
LEMMA ReportSees ==
  ASSUME MonitorInv, NEW k \in DOMAIN alerts, alerts[k].type = "critical_error",
         alerts[k].at + LongWindow > now, Healthy
  PROVE  Len(alerts) >= k + Shown
<1> DEFINE n == Len(alerts)
           least == IF n > Shown THEN n + 1 - Shown ELSE 1
           last == LastOf(alerts, Shown)
<1>1. /\ alerts \in Seq(Alert) /\ Shown \in Nat /\ LongWindow \in Nat /\ now \in Nat
      /\ n \in Nat /\ DOMAIN alerts = 1..n
  BY MonitorAssumption DEF MonitorInv, AlertsOK
<1>2. SUFFICES ASSUME k + Shown > n PROVE FALSE
  BY <1>1
<1>3. least \in 1..k
  BY <1>1, <1>2
<1>4. last = SubSeq(alerts, least, n)
  BY DEF LastOf
<1>5. k - least + 1 \in DOMAIN last /\ last[k - least + 1] = alerts[k]
  <2> HIDE DEF last, least, n
  <2>1. least \in Nat /\ least >= 1 /\ k \in Nat /\ k <= n /\ least <= k
    BY <1>1, <1>3
  <2>2. /\ DOMAIN SubSeq(alerts, least, n) = 1..(n - least + 1)
        /\ \A i \in 1..(n - least + 1) : SubSeq(alerts, least, n)[i] = alerts[least + i - 1]
    BY <1>1, <2>1
  <2>3. k - least + 1 \in 1..(n - least + 1) /\ least + (k - least + 1) - 1 = k
    BY <1>1, <2>1
  <2> QED BY <1>4, <2>2, <2>3
<1>6. alerts[k].at + LongWindow <= now
  <2> HIDE DEF least, n
  <2> QED BY <1>5 DEF Healthy
<1>7. alerts[k].at \in Nat
  <2>1. alerts[k] \in Alert
    BY <1>1
  <2> QED BY <2>1 DEF Alert
<1> QED BY <1>1, <1>6, <1>7

\* An error tracked beyond a threshold found or left exactly one alert of that type
\* within its five minutes, which no cleanup loses before the error, and no health
\* report of the next hour calls the server healthy unless later alerts hide it
\* (errorMonitoring.ts): for any errors, times, thresholds and lifetimes.
THEOREM ErrorsAreAlerted == MonitorSpec => []AlertedOnce
<1>1. MonitorInit => MonitorInv
  BY DEF MonitorInit, MonitorInv, AlertsOK
<1>2. ASSUME MonitorInv PROVE AlertedOnce
  <2>1. ASSUME NEW i \in DOMAIN errors, NEW type \in AlertTypes, Beyond(i, type)
        PROVE  \E k \in DOMAIN alerts :
                 /\ \A j \in DOMAIN alerts :
                      (alerts[j].type = type /\ alerts[j].at = errors[i].at) <=> j = k
                 /\ (type = "critical_error" /\ alerts[k].at + LongWindow > now /\ Healthy)
                      => Len(alerts) >= k + Shown
    <3>1. PICK k \in DOMAIN alerts : alerts[k].type = type /\ alerts[k].at = errors[i].at
      BY <1>2, <2>1, BeyondIsOver DEF MonitorInv, HasAlert
    <3>2. \A j \in DOMAIN alerts :
            (alerts[j].type = type /\ alerts[j].at = errors[i].at) <=> j = k
      BY <1>2, <3>1 DEF MonitorInv, AlertsOK
    <3> QED BY <1>2, <3>1, <3>2, ReportSees
  <2> QED BY <2>1 DEF AlertedOnce, AlertTypes
<1> QED BY <1>1, <1>2, MonitorStep, PTL DEF MonitorSpec

=============================================================================
