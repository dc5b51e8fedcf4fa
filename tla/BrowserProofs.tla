--------------------------- MODULE BrowserProofs ----------------------------
(***************************************************************************)
(* What is proved of the two storages, that they answer alike (Storages),  *)
(* of the account pages with the handlers and the tables behind them       *)
(* (AccountPages, Api, Tables), for any number of requests, whatever they  *)
(* ask, and of the browser's socket (WebSocketClient).                     *)
(*                                                                         *)
(* Both storages are kept at one state of the tables but for old sessions, *)
(* which no query reads.  What PostgreSQL sorts and cuts in parts is what  *)
(* is sorted and cut at once (TopOfTops), whatever the order of rows of    *)
(* one rank, and no table outgrows a query's limit.                        *)
(*                                                                         *)
(* The handlers are first shown to move: a step changes the tables and its *)
(* own call in one of a few ways (Moves), whatever it is a step of.  That  *)
(* the calls of the others fit the tables that it leaves is shown of the   *)
(* moves, once.  The pages are shown to know no more than the tables say.  *)
(*                                                                         *)
(* Each state of the socket service that promises progress, the heartbeat  *)
(* and the manual flag are kept by different handlers, so its induction    *)
(* needs all of them and the types at once.  The provider only calls the   *)
(* service and listens to it (ProviderUses): they hold under it as well.   *)
(***************************************************************************)
EXTENDS AccountPages, Storages, WebSocketClient, FiniteSetTheorems, WellFoundedInduction, TLAPS

-----------------------------------------------------------------------------
(***************************************************************************)
(* Tables: what is sorted and cut are the rows that were found.            *)
(***************************************************************************)
\* Induction over the numbers, from the well-foundedness of <.
LEMMA Induction ==
  ASSUME NEW S, 0 \in S, \A n \in Nat : n \in S => n + 1 \in S
  PROVE  Nat \subseteq S
<1> DEFINE T == Nat \ S
           R == OpToRel(<, Nat)
<1>1. SUFFICES ASSUME T # {} PROVE FALSE
  OBVIOUS
<1>2. T \subseteq Nat
  OBVIOUS
<1>3. IsWellFoundedOn(R, Nat)
  BY NatLessThanWellFounded
<1> HIDE DEF R, T
<1>4. PICK x \in T : \A y \in T : ~(<<y, x>> \in R)
  BY <1>1, <1>2, <1>3, WFMin
<1>5. x \in Nat /\ x # 0
  BY <1>4 DEF T
<1>6. x - 1 \in Nat /\ x - 1 < x
  BY <1>5
<1>7. <<x - 1, x>> \in R
  BY <1>5, <1>6 DEF R, OpToRel
<1>8. x - 1 \in S
  BY <1>4, <1>6, <1>7 DEF T
<1>9. QED
  BY <1>4, <1>5, <1>6, <1>8 DEF T

\* Some row of finitely many is last.
LEMMA LastExists ==
  ASSUME NEW ids, IsFiniteSet(ids), ids # {}, NEW rows, NEW column,
         \A id \in ids : rows[id][column] \in Nat
  PROVE  \E id \in ids : \A other \in ids : rows[other][column] <= rows[id][column]
<1> DEFINE Late(T) == \E id \in T : \A other \in T : rows[other][column] <= rows[id][column]
           S == {n \in Nat : \A T \in SUBSET ids : Cardinality(T) = n + 1 => Late(T)}
<1>1. 0 \in S
  <2> SUFFICES ASSUME NEW T \in SUBSET ids, Cardinality(T) = 0 + 1 PROVE Late(T)
    OBVIOUS
  <2>1. IsFiniteSet(T) /\ Cardinality(T) = 1
    BY FS_Subset
  <2>3. PICK id : T = {id}
    BY <2>1, FS_Singleton
  <2>2. QED
    BY <2>3
<1>2. ASSUME NEW n \in Nat, n \in S PROVE n + 1 \in S
  <2> SUFFICES ASSUME NEW T \in SUBSET ids, Cardinality(T) = n + 1 + 1 PROVE Late(T)
    OBVIOUS
  <2>1. IsFiniteSet(T)
    BY FS_Subset
  <2>0. Cardinality(T) # 0
    OBVIOUS
  <2>9. T # {}
    BY <2>0, <2>1, FS_EmptySet, Zenon
  <2>2. PICK id : id \in T
    BY <2>9
  <2> DEFINE U == T \ {id}
  <2>3. Cardinality(U) = n + 1
    <3>1. Cardinality(U) = Cardinality(T) - 1
      BY <2>1, <2>2, FS_RemoveElement
    <3>2. QED
      BY <3>1
  <2>4. Late(U)
    BY <1>2, <2>3
  <2>5. PICK last \in U : \A other \in U : rows[other][column] <= rows[last][column]
    BY <2>4
  <2>6. CASE rows[id][column] <= rows[last][column]
    BY <2>2, <2>5, <2>6
  <2>7. CASE ~(rows[id][column] <= rows[last][column])
    <3>1. \A other \in T : rows[other][column] <= rows[id][column]
      <4> SUFFICES ASSUME NEW other \in T PROVE rows[other][column] <= rows[id][column]
        OBVIOUS
      <4>1. {rows[id][column], rows[last][column], rows[other][column]} \subseteq Nat
        BY <2>2
      <4>2. other # id => rows[other][column] <= rows[last][column]
        BY <2>5
      <4>3. QED
        BY <2>7, <4>1, <4>2
    <3>2. QED
      BY <2>2, <3>1
  <2>8. QED
    BY <2>6, <2>7
<1>3. Nat \subseteq S
  <2> HIDE DEF S
  <2>1. QED
    BY <1>1, <1>2, Induction
<1>4. PICK n \in Nat : Cardinality(ids) = n + 1
  <2>1. Cardinality(ids) \in Nat /\ Cardinality(ids) # 0
    BY FS_CardinalityType, FS_EmptySet
  <2>2. Cardinality(ids) - 1 \in Nat /\ Cardinality(ids) = Cardinality(ids) - 1 + 1
    BY <2>1
  <2>3. QED
    BY <2>2
<1>5. QED
  BY <1>3, <1>4

\* So they can be put in order.
InOrder(s, ids, rows, column) ==
  (\A id \in ids : \E n \in DOMAIN s : s[n] = id) /\ Descending(s, rows, column)

\* The rows that are found can be put in order, the greatest first.
LEMMA OrderExists ==
  ASSUME NEW ids, IsFiniteSet(ids), NEW rows, NEW column,
         \A id \in ids : rows[id][column] \in Nat
  PROVE  \E s \in [1..Cardinality(ids) -> ids] : InOrder(s, ids, rows, column)
<1> DEFINE S == {n \in Nat : \A T \in SUBSET ids : Cardinality(T) = n
                   => \E s \in [1..n -> T] : InOrder(s, T, rows, column)}
<1>1. 0 \in S
  <2> SUFFICES ASSUME NEW T \in SUBSET ids, Cardinality(T) = 0
               PROVE \E s \in [1..0 -> T] : InOrder(s, T, rows, column)
    OBVIOUS
  <2>1. T = {}
    BY FS_Subset, FS_EmptySet
  <2> DEFINE s == [n \in 1..0 |-> n]
  <2>2. DOMAIN s = {} /\ s \in [1..0 -> T]
    OBVIOUS
  <2>3. InOrder(s, T, rows, column)
    BY <2>1, <2>2 DEF InOrder, Descending
  <2>4. QED
    BY <2>2, <2>3
<1>2. ASSUME NEW n \in Nat, n \in S PROVE n + 1 \in S
  <2> SUFFICES ASSUME NEW T \in SUBSET ids, Cardinality(T) = n + 1
               PROVE \E s \in [1..(n + 1) -> T] : InOrder(s, T, rows, column)
    OBVIOUS
  <2>0. Cardinality(T) # 0
    OBVIOUS
  <2>1. IsFiniteSet(T)
    BY FS_Subset
  <2>10. T # {}
    BY <2>0, <2>1, FS_EmptySet, Zenon
  <2>2. PICK id \in T : \A other \in T : rows[other][column] <= rows[id][column]
    BY <2>1, <2>10, LastExists
  <2> DEFINE U == T \ {id}
  <2>3. Cardinality(U) = n
    <3>1. Cardinality(U) = Cardinality(T) - 1
      BY <2>1, <2>2, FS_RemoveElement
    <3>2. QED
      BY <3>1
  <2>4. PICK u \in [1..n -> U] : InOrder(u, U, rows, column)
    BY <1>2, <2>3
  <2> DEFINE s == [m \in 1..(n + 1) |-> IF m = 1 THEN id ELSE u[m - 1]]
  <2>5. s \in [1..(n + 1) -> T]
    OBVIOUS
  <2>6. \A other \in T : \E m \in DOMAIN s : s[m] = other
    <3> SUFFICES ASSUME NEW other \in T PROVE \E m \in 1..(n + 1) : s[m] = other
      OBVIOUS
    <3>1. CASE other = id
      BY <3>1
    <3>2. CASE other # id
      <4>1. PICK k \in 1..n : u[k] = other
        BY <2>4, <3>2 DEF InOrder
      <4>2. k + 1 \in 1..(n + 1) /\ s[k + 1] = other
        BY <4>1
      <4>3. QED
        BY <4>2
    <3>3. QED
      BY <3>1, <3>2
  <2>7. Descending(s, rows, column)
    <3> SUFFICES ASSUME NEW k \in 1..(n + 1), NEW m \in 1..(n + 1), k < m
                 PROVE rows[s[m]][column] <= rows[s[k]][column]
      BY DEF Descending
    <3>1. CASE k = 1
      BY <2>2, <2>5, <3>1
    <3>2. CASE k # 1
      <4>1. k - 1 \in 1..n /\ m - 1 \in 1..n /\ k - 1 < m - 1
        BY <3>2
      <4>2. s[k] = u[k - 1] /\ s[m] = u[m - 1]
        BY <3>2
      <4>3. DOMAIN u = 1..n
        OBVIOUS
      <4>4. rows[u[m - 1]][column] <= rows[u[k - 1]][column]
        BY <2>4, <4>1, <4>3 DEF InOrder, Descending
      <4>5. QED
        BY <4>2, <4>4
    <3>3. QED
      BY <3>1, <3>2
  <2>8. InOrder(s, T, rows, column)
    BY <2>6, <2>7 DEF InOrder
  <2>9. QED
    BY <2>5, <2>8
<1>3. Nat \subseteq S
  <2> HIDE DEF S
  <2>1. QED
    BY <1>1, <1>2, Induction
<1>4. Cardinality(ids) \in S
  BY <1>3, FS_CardinalityType
<1>5. QED
  BY <1>4

\* What is listed are rows that were found, each once.
LEMMA GreatestAreFound ==
  ASSUME NEW db0, NEW table, NEW ids, IsFiniteSet(ids), NEW column, NEW limit \in Nat,
         NEW list \in Greatest(db0, table, ids, column, limit)
  PROVE  list \in Seq(ids)
<1> DEFINE l == Smaller(limit, Cardinality(ids))
<1>1. l \in Nat
  BY FS_CardinalityType DEF Smaller
<1>2. list \in [1..l -> ids]
  BY DEF Greatest
<1>3. QED
  BY <1>1, <1>2

-----------------------------------------------------------------------------
(***************************************************************************)
(* Storages: each call leaves the two databases alike, but for sessions    *)
(* that have expired, which only PostgreSQL may still have.                *)
(***************************************************************************)
Alike(m, p, time) ==
  /\ m = [table \in Names |-> m[table]]
  /\ \A table \in Names \ {"sessions"} : m[table] = p[table]
  /\ m.sessions = [id \in DOMAIN m.sessions |-> p.sessions[id]]
  /\ DOMAIN m.sessions \subseteq DOMAIN p.sessions
  /\ \A id \in DOMAIN p.sessions \ DOMAIN m.sessions : p.sessions[id].expiresAt <= time

StoragesInv ==
  /\ clock \in 10..(10 + MaxWrites) /\ Rejected \in BOOLEAN
  /\ ~Rejected => /\ Fit(pg, clock) /\ Alike(mem, pg, clock)
                  /\ answers.mem = answers.pg

\* What a call has to leave.
Kept(m, p) ==
  p.error = Null => /\ m.answer = p.answer
                    /\ Fit(p.db, clock + 1) /\ Alike(m.db, p.db, clock + 1)

LEMMA BothKeep ==
  ASSUME StoragesInv, NEW m, NEW p, Both(m, p), Kept(m, p) PROVE StoragesInv'
<1>1. clock' \in 10..(10 + MaxWrites) /\ clock' = clock + 1
  BY StoragesAssumption DEF Both, StoragesInv
<1>2. Rejected' = (p.error # Null)
  BY DEF Both, Rejected
<1>3. ASSUME ~Rejected'
      PROVE  Fit(pg', clock') /\ Alike(mem', pg', clock') /\ answers'.mem = answers'.pg
  BY <1>1, <1>2, <1>3 DEF Both, Kept
<1>4. QED
  BY <1>1, <1>2, <1>3 DEF StoragesInv

\* The operations of Tables are those that both storages are written with.
LEMMA SharedWrites ==
  ASSUME NEW db0, NEW table, NEW id, NEW ids, NEW row, NEW data
  PROVE  /\ Mem!Over(data, row) = Over(data, row)
         /\ Pg!Over(data, row) = Over(data, row)
         /\ Mem!Find(db0, table, id) = Find(db0, table, id)
         /\ Pg!Find(db0, table, id) = Find(db0, table, id)
         /\ Mem!Put(db0, table, id, row) = Put(db0, table, id, row)
         /\ Pg!Put(db0, table, id, row) = Put(db0, table, id, row)
         /\ Mem!Drop(db0, table, ids) = Drop(db0, table, ids)
         /\ Pg!Drop(db0, table, ids) = Drop(db0, table, ids)
         /\ Mem!Change(db0, table, ids, data) = Change(db0, table, ids, data)
         /\ Pg!Change(db0, table, ids, data) = Change(db0, table, ids, data)
<1>1. /\ Mem!Over(data, row) = Over(data, row)
      /\ Pg!Over(data, row) = Over(data, row)
  BY DEF Mem!Over, Pg!Over, Over
<1>2. /\ Mem!Find(db0, table, id) = Find(db0, table, id)
      /\ Pg!Find(db0, table, id) = Find(db0, table, id)
  BY DEF Mem!Find, Pg!Find, Find
<1>3. /\ Mem!Put(db0, table, id, row) = Put(db0, table, id, row)
      /\ Pg!Put(db0, table, id, row) = Put(db0, table, id, row)
  BY Zenon DEF Mem!Put, Pg!Put, Put
<1>4. /\ Mem!Drop(db0, table, ids) = Drop(db0, table, ids)
      /\ Pg!Drop(db0, table, ids) = Drop(db0, table, ids)
  BY Zenon DEF Mem!Drop, Pg!Drop, Drop
<1>5. /\ Mem!Change(db0, table, ids, data) = Change(db0, table, ids, data)
      /\ Pg!Change(db0, table, ids, data) = Change(db0, table, ids, data)
  BY Zenon DEF Mem!Change, Pg!Change, Change, Mem!Over, Pg!Over, Over
<1>6. QED
  BY <1>1, <1>2, <1>3, <1>4, <1>5

LEMMA SharedReads ==
  ASSUME NEW db0, NEW table, NEW ids, NEW column, NEW limit
  PROVE  /\ Mem!First(ids) = First(ids) /\ Pg!First(ids) = First(ids)
         /\ Mem!FirstRow(db0, table, ids) = FirstRow(db0, table, ids)
         /\ Pg!FirstRow(db0, table, ids) = FirstRow(db0, table, ids)
         /\ Mem!Greatest(db0, table, ids, column, limit) = Greatest(db0, table, ids, column, limit)
         /\ Pg!Greatest(db0, table, ids, column, limit) = Greatest(db0, table, ids, column, limit)
         /\ Mem!LeastFirst(db0, table, ids, column) = LeastFirst(db0, table, ids, column)
<1>1. Mem!First(ids) = First(ids) /\ Pg!First(ids) = First(ids)
  BY Zenon DEF Mem!First, Pg!First, First
<1>2. /\ Mem!FirstRow(db0, table, ids) = FirstRow(db0, table, ids)
      /\ Pg!FirstRow(db0, table, ids) = FirstRow(db0, table, ids)
  BY <1>1, Zenon DEF Mem!FirstRow, Pg!FirstRow, FirstRow
<1>3. /\ Mem!Cardinality(ids) = Cardinality(ids)
      /\ Pg!Cardinality(ids) = Cardinality(ids)
  BY Zenon DEF Cardinality, Mem!Cardinality, Pg!Cardinality
<1>4. \A number : Mem!Greatest(db0, table, ids, column, number)
                    = Greatest(db0, table, ids, column, number)
  BY <1>3 DEF Greatest, Mem!Greatest, Smaller, Mem!Smaller, Descending, Mem!Descending,
              SeqSet, Mem!SeqSet
<1>5. \A number : Pg!Greatest(db0, table, ids, column, number)
                    = Greatest(db0, table, ids, column, number)
  BY <1>3 DEF Greatest, Pg!Greatest, Smaller, Pg!Smaller, Descending, Pg!Descending,
              SeqSet, Pg!SeqSet
<1>6. Mem!LeastFirst(db0, table, ids, column) = LeastFirst(db0, table, ids, column)
  <2>1. Mem!All = All /\ \A list : Mem!Backwards(list) = Backwards(list)
    BY DEF Mem!All, All, Mem!Backwards, Backwards
  <2>2. Mem!Greatest(db0, table, ids, column, Mem!All) = Greatest(db0, table, ids, column, All)
    BY <1>4, <2>1
  <2>3. QED
    BY <2>1, <2>2, Zenon DEF LeastFirst, Mem!LeastFirst
<1>7. QED
  BY <1>1, <1>2, <1>4, <1>5, <1>6

\* Nothing but one table is not what it was.
Only(old, db0, name) ==
  /\ db0 = [table \in Names |-> db0[table]]
  /\ \A table \in Names \ {name} : db0[table] = old[table]

LEMMA ColumnsAre ==
  /\ DOMAIN Columns = {"sessions", "userTeams", "games", "updates", "experiences", "indexes"}
  /\ Columns["sessions"] = [userId : Nat, expiresAt : Nat]
  /\ Columns["userTeams"] = [userId : Nat, teamId : TeamIds]
  /\ Columns["games"] = [homeTeamId : TeamIds, awayTeamId : TeamIds, homePts : Nat,
                         awayPts : Nat, startTime : 0..All, cachedAt : Nat]
  /\ Columns["updates"] = [teamId : TeamIds, category : {"news", "injury"}, timestamp : Nat]
  /\ Columns["experiences"] = [teamId : TeamIds, title : {"party", "tailgate"}, startTime : Nat]
  /\ Columns["indexes"] = [teamId : TeamIds, totalDocuments : Nat,
                           rebuildInProgress : BOOLEAN, totalQueries : Nat]
  BY DEF Columns

LEMMA FitKept ==
  ASSUME NEW old, NEW db0, NEW name \in Names, NEW time \in Nat,
         Fit(old, time), Only(old, db0, name),
         FitTable(name, db0[name], DOMAIN old.teams, time + 1),
         name = "teams" => DOMAIN old.teams \subseteq DOMAIN db0.teams
  PROVE  Fit(db0, time + 1)
<1>1. DOMAIN old.teams \subseteq DOMAIN db0.teams
  BY DEF Only, Names
<1>2. ASSUME NEW other \in Names PROVE FitTable(other, db0[other], DOMAIN db0.teams, time + 1)
  <2>1. CASE other = name
    BY <1>1, <2>1 DEF FitTable, Scheduled
  <2>2. CASE other # name
    <3>1. db0[other] = old[other]
      BY <2>2 DEF Only
    <3>2. FitTable(other, old[other], DOMAIN old.teams, time)
      BY DEF Fit
    <3>3. DOMAIN old[other] \subseteq 1..(time - 1) => DOMAIN old[other] \subseteq 1..(time + 1 - 1)
      OBVIOUS
    <3>4. FitTable(other, old[other], DOMAIN db0.teams, time + 1)
      BY <1>1, <3>2, <3>3 DEF FitTable, Scheduled
    <3>5. QED
      BY <3>1, <3>4
  <2>3. QED
    BY <2>1, <2>2
<1>3. QED
  BY <1>2 DEF Fit, Only

\* The same change of a table that both have leaves them alike.
LEMMA AlikeKept ==
  ASSUME NEW m, NEW p, NEW m1, NEW p1, NEW name \in Names \ {"sessions"}, NEW time \in Nat,
         Alike(m, p, time), Only(m, m1, name), Only(p, p1, name), m1[name] = p1[name],
         \A id \in DOMAIN p.sessions : p.sessions[id] \in Columns["sessions"]
  PROVE  Alike(m1, p1, time + 1)
<1>1. m1.sessions = m.sessions /\ p1.sessions = p.sessions
  BY DEF Only, Names
<1>2. \A table \in Names \ {"sessions"} : m1[table] = p1[table]
  BY DEF Only, Alike
<1>3. \A id \in DOMAIN p.sessions : p.sessions[id].expiresAt \in Nat
  BY ColumnsAre
<1>4. \A id \in DOMAIN p.sessions \ DOMAIN m.sessions : p.sessions[id].expiresAt <= time + 1
  BY <1>3 DEF Alike
<1>5. QED
  BY <1>1, <1>2, <1>4 DEF Alike, Only

\* What is known of the databases before a call.
LEMMA Known ==
  ASSUME StoragesInv, ~Rejected
  PROVE  /\ clock \in Nat /\ clock >= 10 /\ Fit(pg, clock) /\ Alike(mem, pg, clock)
         /\ \A name \in Names : FitTable(name, pg[name], DOMAIN pg.teams, clock)
         /\ pg = [table \in Names |-> pg[table]] /\ mem = [table \in Names |-> mem[table]]
         /\ \A table \in Names \ {"sessions"} : mem[table] = pg[table]
         /\ \A id \in DOMAIN pg.sessions : pg.sessions[id] \in Columns["sessions"]
<1>1. "sessions" \in Names
  BY DEF Names
<1>2. clock \in Nat /\ clock >= 10 /\ Fit(pg, clock) /\ Alike(mem, pg, clock)
  BY StoragesAssumption DEF StoragesInv
<1>3. \A name \in Names : FitTable(name, pg[name], DOMAIN pg.teams, clock)
  BY <1>2 DEF Fit
<1>4. \A id \in DOMAIN pg.sessions : pg.sessions[id] \in Columns["sessions"]
  BY <1>1, <1>3, ColumnsAre DEF FitTable
<1>5. QED
  BY <1>2, <1>3, <1>4 DEF Fit, Alike

\* What Put, Drop and Change do to the tables.
Grown(table, id, row) == [i \in DOMAIN table \cup {id} |-> IF i = id THEN row ELSE table[i]]
Shrunk(table, ids) == [i \in DOMAIN table \ ids |-> table[i]]
Overwritten(table, ids, data) ==
  [i \in DOMAIN table |-> IF i \in ids THEN Over(data, table[i]) ELSE table[i]]

LEMMA PutIs ==
  ASSUME NEW db0, db0 = [table \in Names |-> db0[table]], NEW name \in Names, NEW id, NEW row
  PROVE  /\ Only(db0, Put(db0, name, id, row), name)
         /\ Put(db0, name, id, row)[name] = Grown(db0[name], id, row)
BY DEF Put, Only, Grown

LEMMA DropIs ==
  ASSUME NEW db0, db0 = [table \in Names |-> db0[table]], NEW name \in Names, NEW ids
  PROVE  /\ Only(db0, Drop(db0, name, ids), name)
         /\ Drop(db0, name, ids)[name] = Shrunk(db0[name], ids)
BY DEF Drop, Only, Shrunk

LEMMA ChangeIs ==
  ASSUME NEW db0, db0 = [table \in Names |-> db0[table]], NEW name \in Names, NEW ids, NEW data
  PROVE  /\ Only(db0, Change(db0, name, ids, data), name)
         /\ Change(db0, name, ids, data)[name] = Overwritten(db0[name], ids, data)
BY DEF Change, Only, Overwritten

\* A row that may be added: of the right columns, with an id that was made now, and
\* none that is there already.
Addable(name, id, row) ==
  /\ name \in DOMAIN Columns => row \in Columns[name]
  /\ name \in {"users", "userTeams", "rsvps", "updates", "experiences", "indexes"} => id = clock
  /\ name = "userTeams" => \A other \in DOMAIN pg.userTeams : pg.userTeams[other] # row
  /\ name = "rsvps" => \A other \in DOMAIN pg.rsvps :
       ~(/\ pg.rsvps[other].experienceId = row.experienceId
         /\ pg.rsvps[other].userId = row.userId)
  /\ name = "indexes" => \A other \in DOMAIN pg.indexes : pg.indexes[other].teamId # row.teamId
  /\ name = "games" => /\ id \in GameIds /\ row.startTime = StartTime[id]
                       /\ {row.homeTeamId, row.awayTeamId} \subseteq DOMAIN pg.teams

LEMMA PutFits ==
  ASSUME StoragesInv, ~Rejected, NEW name \in Names, NEW id, NEW row, Addable(name, id, row)
  PROVE  Fit(Put(pg, name, id, row), clock + 1)
<1> DEFINE new == Grown(pg[name], id, row)
<1>1. /\ Only(pg, Put(pg, name, id, row), name)
      /\ Put(pg, name, id, row)[name] = new
  BY Known, PutIs
<1>2. FitTable(name, pg[name], DOMAIN pg.teams, clock)
  BY Known
<1>3. FitTable(name, new, DOMAIN pg.teams, clock + 1)
  <2>1. DOMAIN new = DOMAIN pg[name] \cup {id} /\ new[id] = row
    BY DEF Grown
  <2>2. \A i \in DOMAIN pg[name] \ {id} : new[i] = pg[name][i]
    BY DEF Grown
  <2>0. IsTable(new)
    BY DEF IsTable, Grown
  <2> HIDE DEF new
  <2>3. name \in DOMAIN Columns => \A i \in DOMAIN new : new[i] \in Columns[name]
    BY <1>2, <2>1, <2>2 DEF FitTable, Addable
  <2>4. name \in {"users", "userTeams", "rsvps", "updates", "experiences", "indexes"} =>
          DOMAIN new \subseteq 1..(clock + 1 - 1)
    BY <1>2, <2>1, Known DEF FitTable, Addable
  <2>5. Once(name, new)
    <3>1. CASE name = "userTeams"
      BY <1>2, <2>1, <2>2, <3>1 DEF FitTable, Addable, Once
    <3>2. CASE name = "rsvps"
      BY <1>2, <2>1, <2>2, <3>2 DEF FitTable, Addable, Once
    <3>3. CASE name = "indexes"
      BY <1>2, <2>1, <2>2, <3>3 DEF FitTable, Addable, Once
    <3>4. CASE name \notin {"userTeams", "rsvps", "indexes"}
      BY <3>4 DEF Once
    <3>5. QED
      BY <3>1, <3>2, <3>3, <3>4
  <2>6. ASSUME name = "games" PROVE Scheduled(new, DOMAIN pg.teams)
    <3>1. Scheduled(pg[name], DOMAIN pg.teams)
      BY <1>2, <2>6 DEF FitTable
    <3>2. IsFiniteSet(DOMAIN new)
      BY <2>1, <3>1, FS_AddElement DEF Scheduled
    <3>3. QED
      BY <2>1, <2>2, <2>6, <3>1, <3>2 DEF Scheduled, Addable
  <2>7. QED
    BY <2>0, <2>3, <2>4, <2>5, <2>6, Known DEF FitTable
<1>4. name = "teams" => DOMAIN pg.teams \subseteq DOMAIN Put(pg, name, id, row).teams
  BY <1>1 DEF Grown
<1>5. QED
  <2> HIDE DEF new
  <2>1. QED
    BY <1>1, <1>3, <1>4, Known, FitKept

LEMMA DropFits ==
  ASSUME StoragesInv, ~Rejected, NEW name \in Names \ {"teams"}, NEW ids
  PROVE  Fit(Drop(pg, name, ids), clock + 1)
<1> DEFINE new == Shrunk(pg[name], ids)
<1>1. Only(pg, Drop(pg, name, ids), name) /\ Drop(pg, name, ids)[name] = new
  BY Known, DropIs
<1>2. FitTable(name, pg[name], DOMAIN pg.teams, clock)
  BY Known
<1>3. FitTable(name, new, DOMAIN pg.teams, clock + 1)
  <2>1. /\ DOMAIN new \subseteq DOMAIN pg[name] /\ \A i \in DOMAIN new : new[i] = pg[name][i]
        /\ IsTable(new)
    BY DEF IsTable, Shrunk
  <2> HIDE DEF new
  <2>2. DOMAIN pg[name] \subseteq 1..(clock - 1) => DOMAIN new \subseteq 1..(clock + 1 - 1)
    BY <2>1, Known
  <2>3. IsFiniteSet(DOMAIN pg[name]) => IsFiniteSet(DOMAIN new)
    BY <2>1, FS_Subset
  <2>4. name \in DOMAIN Columns => \A i \in DOMAIN new : new[i] \in Columns[name]
    BY <1>2, <2>1 DEF FitTable
  <2>5. Once(name, new)
    BY <1>2, <2>1 DEF FitTable, Once
  <2>6. name = "games" => Scheduled(new, DOMAIN pg.teams)
    BY <1>2, <2>1, <2>3 DEF FitTable, Scheduled
  <2>7. QED
    BY <1>2, <2>1, <2>2, <2>4, <2>5, <2>6, Known DEF FitTable
<1>4. QED
  <2> HIDE DEF new
  <2>1. QED
    BY <1>1, <1>3, Known, FitKept

\* Columns of a table that no query takes for granted may be given any value; of an
\* experience, the title and the time.
Changeable(name, data) ==
  name = "experiences" => data \in {[title |-> "tailgate"], [startTime |-> 2]}

LEMMA ChangeFits ==
  ASSUME StoragesInv, ~Rejected, NEW ids, NEW data,
         NEW name \in {"profiles", "experiences", "articles", "sources"}, Changeable(name, data)
  PROVE  Fit(Change(pg, name, ids, data), clock + 1)
<1> DEFINE new == Change(pg, name, ids, data)[name]
<1>1. name \in Names \ {"teams"}
  BY DEF Names
<1>2. Only(pg, Change(pg, name, ids, data), name)
  BY <1>1, Known, ChangeIs
<1>3. new = Overwritten(pg[name], ids, data)
  BY <1>1, Known, ChangeIs
<1>4. IsTable(new)
  BY <1>3 DEF IsTable, Overwritten
<1>5. FitTable(name, new, DOMAIN pg.teams, clock + 1)
  <2>1. FitTable(name, pg[name], DOMAIN pg.teams, clock)
    BY <1>1, Known
  <2>2. /\ DOMAIN new = DOMAIN pg[name]
        /\ \A i \in DOMAIN new : new[i] \in {pg[name][i], Over(data, pg[name][i])}
    BY <1>3 DEF Overwritten
  <2> HIDE DEF new
  <2>3. ASSUME name = "experiences", NEW row \in Columns["experiences"]
        PROVE  Over(data, row) \in Columns["experiences"]
    <3>1. row \in [teamId : TeamIds, title : {"party", "tailgate"}, startTime : Nat]
      BY <2>3, ColumnsAre
    <3>2. CASE data = [title |-> "tailgate"]
      <4>1. Over(data, row) = [teamId |-> row.teamId, title |-> "tailgate", startTime |-> row.startTime]
        BY <3>1, <3>2 DEF Over
      <4>2. QED
        BY <3>1, <4>1, ColumnsAre
    <3>3. CASE data = [startTime |-> 2]
      <4>1. Over(data, row) = [teamId |-> row.teamId, title |-> row.title, startTime |-> 2]
        BY <3>1, <3>3 DEF Over
      <4>2. QED
        BY <3>1, <4>1, ColumnsAre
    <3>4. QED
      BY <2>3, <3>2, <3>3 DEF Changeable
  <2>4. ASSUME name \in DOMAIN Columns, NEW i \in DOMAIN new
        PROVE  new[i] \in Columns[name]
    <3>1. name = "experiences"
      BY <2>4, ColumnsAre
    <3>2. i \in DOMAIN pg[name] /\ pg[name][i] \in Columns["experiences"]
      BY <2>1, <2>2, <2>4, <3>1 DEF FitTable
    <3>3. new[i] = pg[name][i] \/ new[i] = Over(data, pg[name][i])
      BY <2>2
    <3>4. Over(data, pg[name][i]) \in Columns["experiences"]
      BY <2>3, <3>1, <3>2
    <3>5. QED
      BY <3>1, <3>2, <3>3, <3>4
  <2>5. name = "experiences" => DOMAIN new \subseteq 1..clock
    <3>1. name = "experiences" => DOMAIN pg[name] \subseteq 1..(clock - 1)
      BY <2>1 DEF FitTable
    <3>2. clock \in Nat
      BY DEF StoragesInv
    <3>3. 1..(clock - 1) \subseteq 1..clock
      BY <3>2
    <3>4. QED
      BY <2>2, <3>1, <3>3
  <2>6. name # "games" /\ Once(name, new)
    BY DEF Once
  <2>7. name \in {"users", "userTeams", "rsvps", "updates", "experiences", "indexes"} =>
          name = "experiences"
    OBVIOUS
  <2>8. name \in {"users", "userTeams", "rsvps", "updates", "experiences", "indexes"} =>
          DOMAIN new \subseteq 1..clock
    BY <2>5, <2>7
  <2>9. name \in DOMAIN Columns => \A i \in DOMAIN new : new[i] \in Columns[name]
    BY <2>4
  <2>10. IsTable(new)
    BY <1>4
  <2>11. name = "games" => Scheduled(new, DOMAIN pg.teams)
    BY <2>6
  <2>12. clock \in Nat
    BY DEF StoragesInv
  <2>13. QED
    BY <2>6, <2>8, <2>9, <2>10, <2>11, <2>12 DEF FitTable
<1>6. QED
  <2> HIDE DEF new
  <2>1. QED
    BY <1>1, <1>2, <1>5, Known, FitKept DEF new

LEMMA InsertKept ==
  ASSUME StoragesInv, ~Rejected, NEW name \in Names \ {"sessions"}, NEW id, NEW row,
         ~Pg!Dangles(pg, name, row) => Addable(name, id, row)
  PROVE  Kept(Mem!Insert(mem, name, id, row), Pg!Insert(pg, name, id, row))
<1> DEFINE m == Mem!Insert(mem, name, id, row)
           p == Pg!Insert(pg, name, id, row)
<1> SUFFICES ASSUME p.error = Null
             PROVE  /\ m.answer = p.answer
                    /\ Fit(p.db, clock + 1) /\ Alike(m.db, p.db, clock + 1)
  BY DEF Kept
<1>1. m.db = Put(mem, name, id, row) /\ m.answer = row
  BY SharedWrites DEF Mem!Insert, Mem!Done
<1>2. /\ ~Pg!Repeats(pg, name, id, row) /\ ~Pg!Dangles(pg, name, row)
      /\ p = Pg!Done(Pg!Put(pg, name, id, row), row)
  BY StoragesAssumption DEF Pg!Insert, Pg!Throw
<1>3. p.db = Put(pg, name, id, row) /\ p.answer = row
  BY <1>2, SharedWrites DEF Pg!Done
<1>4. Fit(p.db, clock + 1)
  BY <1>2, <1>3, PutFits
<1>5. Alike(m.db, p.db, clock + 1)
  <2>1. Only(mem, m.db, name) /\ Only(pg, p.db, name) /\ m.db[name] = p.db[name]
    <3>1. mem[name] = pg[name] /\ mem = [table \in Names |-> mem[table]]
      BY Known
    <3>2. pg = [table \in Names |-> pg[table]]
      BY Known
    <3>3. /\ Only(mem, Put(mem, name, id, row), name)
          /\ Put(mem, name, id, row)[name] = Grown(mem[name], id, row)
      BY <3>1, PutIs
    <3>4. /\ Only(pg, Put(pg, name, id, row), name)
          /\ Put(pg, name, id, row)[name] = Grown(pg[name], id, row)
      BY <3>2, PutIs
    <3>5. QED
      BY <1>1, <1>3, <3>1, <3>3, <3>4
  <2>2. QED
    <3> HIDE DEF m, p
    <3>1. QED
      BY <2>1, Known, AlikeKept
<1>6. QED
  BY <1>1, <1>3, <1>4, <1>5

\* MemStorage may look for the rows in another way.
LEMMA DeleteKept ==
  ASSUME StoragesInv, ~Rejected, NEW name \in Names \ {"sessions", "teams"}, NEW ids, NEW found,
         DOMAIN pg[name] \ found = DOMAIN pg[name] \ ids
  PROVE  Kept(Mem!Done(Mem!Drop(mem, name, found), "ok"), Pg!Delete(pg, name, ids))
<1> DEFINE m == Mem!Done(Mem!Drop(mem, name, found), "ok")
           p == Pg!Delete(pg, name, ids)
<1> SUFFICES ASSUME p.error = Null
             PROVE  /\ m.answer = p.answer
                    /\ Fit(p.db, clock + 1) /\ Alike(m.db, p.db, clock + 1)
  BY DEF Kept
<1>1. m.db = Drop(mem, name, found) /\ m.answer = "ok"
  BY SharedWrites DEF Mem!Done
<1>2. p = Pg!Done(Pg!Drop(pg, name, ids), "ok")
  BY StoragesAssumption DEF Pg!Delete, Pg!Throw
<1>3. p.db = Drop(pg, name, ids) /\ p.answer = "ok"
  BY <1>2, SharedWrites DEF Pg!Done
<1>4. Fit(p.db, clock + 1)
  BY <1>3, DropFits
<1>5. Alike(m.db, p.db, clock + 1)
  <2>1. Only(mem, m.db, name) /\ Only(pg, p.db, name) /\ m.db[name] = p.db[name]
    <3>1. mem[name] = pg[name] /\ mem = [table \in Names |-> mem[table]]
      BY Known
    <3>2. pg = [table \in Names |-> pg[table]]
      BY Known
    <3>3. /\ Only(mem, Drop(mem, name, found), name)
          /\ Drop(mem, name, found)[name] = Shrunk(mem[name], found)
      BY <3>1, DropIs
    <3>4. /\ Only(pg, Drop(pg, name, ids), name)
          /\ Drop(pg, name, ids)[name] = Shrunk(pg[name], ids)
      BY <3>2, DropIs
    <3>5. Shrunk(pg[name], found) = Shrunk(pg[name], ids)
      BY Zenon DEF Shrunk
    <3>6. QED
      BY <1>1, <1>3, <3>1, <3>3, <3>4, <3>5
  <2>2. QED
    <3> HIDE DEF m, p
    <3>1. QED
      BY <2>1, Known, AlikeKept
<1>6. QED
  BY <1>1, <1>3, <1>4, <1>5

LEMMA ChangeKept ==
  ASSUME StoragesInv, ~Rejected, NEW ids, NEW data,
         NEW name \in {"profiles", "experiences", "articles", "sources"}, Changeable(name, data)
  PROVE  /\ Fit(Change(pg, name, ids, data), clock + 1)
         /\ Alike(Change(mem, name, ids, data), Change(pg, name, ids, data), clock + 1)
<1> DEFINE m == Change(mem, name, ids, data)
           p == Change(pg, name, ids, data)
<1>1. name \in Names \ {"sessions"}
  BY DEF Names
<1>2. mem[name] = pg[name] /\ mem = [table \in Names |-> mem[table]]
  BY <1>1, Known
<1>3. pg = [table \in Names |-> pg[table]]
  BY Known
<1>4. Only(mem, m, name) /\ Only(pg, p, name) /\ m[name] = p[name]
  <2>1. Only(mem, m, name) /\ m[name] = Overwritten(mem[name], ids, data)
    BY <1>1, <1>2, ChangeIs
  <2>2. Only(pg, p, name) /\ p[name] = Overwritten(pg[name], ids, data)
    BY <1>1, <1>3, ChangeIs
  <2>3. QED
    BY <1>2, <2>1, <2>2
<1>5. Fit(p, clock + 1)
  BY ChangeFits
<1> HIDE DEF m, p
<1>6. Alike(m, p, clock + 1)
  BY <1>1, <1>4, Known, AlikeKept
<1>7. QED
  BY <1>5, <1>6 DEF m, p

LEMMA UpdateKept ==
  ASSUME StoragesInv, ~Rejected, NEW id, NEW data,
         NEW name \in {"profiles", "experiences", "articles", "sources"}, Changeable(name, data)
  PROVE  Kept(Mem!Update(mem, name, id, data), Pg!Update(pg, name, id, data))
<1> DEFINE m == Mem!Update(mem, name, id, data)
           p == Pg!Update(pg, name, id, data)
<1>0. name \in Names \ {"sessions"}
  BY DEF Names
<1>1. mem[name] = pg[name]
  BY <1>0, Known
<1>2. /\ p.db = Change(pg, name, {id}, data)
      /\ p.answer = IF id \in DOMAIN pg[name] THEN Over(data, pg[name][id]) ELSE Null
  BY SharedWrites DEF Pg!Update, Pg!Done
<1>3. Fit(p.db, clock + 1)
  BY <1>2, ChangeFits
<1> DEFINE changed == Change(mem, name, {id}, data)
<1>4. /\ Only(mem, changed, name) /\ Only(pg, p.db, name) /\ changed[name] = p.db[name]
      /\ changed[name] = Overwritten(pg[name], {id}, data)
  <2>1. mem = [table \in Names |-> mem[table]]
    BY <1>0, Known
  <2>2. pg = [table \in Names |-> pg[table]]
    BY <1>0, Known
  <2>3. Only(mem, changed, name) /\ changed[name] = Overwritten(mem[name], {id}, data)
    BY <1>0, <2>1, ChangeIs
  <2>4. Only(pg, p.db, name) /\ p.db[name] = Overwritten(pg[name], {id}, data)
    BY <1>0, <1>2, <2>2, ChangeIs
  <2>5. QED
    BY <1>1, <2>3, <2>4
<1> HIDE DEF changed
<1>5. CASE id \in DOMAIN pg[name]
  <2>1. m = Mem!Done(changed, changed[name][id])
    BY <1>1, <1>5, SharedWrites, Zenon DEF Mem!Update, changed
  <2>2. m.db = changed /\ m.answer = p.answer
    BY <1>2, <1>4, <1>5, <2>1 DEF Mem!Done, Overwritten
  <2>3. QED
    BY <1>0, <1>3, <1>4, <2>2, Known, AlikeKept DEF Kept
<1>6. CASE id \notin DOMAIN pg[name]
  <2>1. m.db = mem /\ m.answer = Null
    BY <1>1, <1>6 DEF Mem!Update, Mem!Done
  <2>2. mem[name] = p.db[name]
    <3>1. IsTable(pg[name])
      BY <1>0, Known DEF FitTable
    <3>2. p.db[name] = [i \in DOMAIN pg[name] |-> pg[name][i]]
      BY <1>4, <1>6 DEF Overwritten
    <3>3. QED
      BY <1>1, <3>1, <3>2 DEF IsTable
  <2>3. Only(mem, mem, name)
    BY Known DEF Only
  <2>4. QED
    BY <1>0, <1>2, <1>3, <1>4, <1>6, <2>1, <2>2, <2>3, Known, AlikeKept DEF Kept
<1>7. QED
  BY <1>5, <1>6

\* What refers to what: a game to its teams, an RSVP to its experience, nothing to a
\* session.
LEMMA ReferencesAre ==
  /\ Pg!References["sessions"] = {<<"userId", "users">>}
  /\ Pg!References["games"] = {<<"homeTeamId", "teams">>, <<"awayTeamId", "teams">>}
  /\ Pg!References["rsvps"] = {<<"experienceId", "experiences">>, <<"userId", "users">>}
  /\ \A child \in Names : \A r \in Pg!References[child] : r[2] # "sessions"
<1>1. DOMAIN Pg!AccountKeys = {"users", "sessions", "teams", "profiles", "userTeams"}
  BY DEF Pg!AccountKeys
<1>2. DOMAIN Pg!TeamKeys = {"games", "rsvps", "summaries", "updates", "experiences"}
  BY DEF Pg!TeamKeys
<1>3. DOMAIN Pg!NewsKeys = {"articles", "classes", "sources", "indexes"}
  BY DEF Pg!NewsKeys
<1>4. \A name \in Names : Pg!References[name] =
        IF name \in DOMAIN Pg!AccountKeys THEN Pg!AccountKeys[name]
        ELSE IF name \in DOMAIN Pg!TeamKeys THEN Pg!TeamKeys[name] ELSE Pg!NewsKeys[name]
  BY <1>1, <1>2, <1>3 DEF Pg!References, Pg!Over, Names
<1>5. \A child \in DOMAIN Pg!AccountKeys : \A r \in Pg!AccountKeys[child] : r[2] # "sessions"
  BY <1>1 DEF Pg!AccountKeys
<1>6. \A child \in DOMAIN Pg!TeamKeys : \A r \in Pg!TeamKeys[child] : r[2] # "sessions"
  BY <1>2 DEF Pg!TeamKeys
<1>7. \A child \in DOMAIN Pg!NewsKeys : \A r \in Pg!NewsKeys[child] : r[2] # "sessions"
  BY <1>3 DEF Pg!NewsKeys
<1>8. \A child \in Names : \A r \in Pg!References[child] : r[2] # "sessions"
  BY <1>1, <1>2, <1>3, <1>4, <1>5, <1>6, <1>7 DEF Names
<1>9. Pg!References["sessions"] = {<<"userId", "users">>}
  BY <1>1, <1>4 DEF Pg!AccountKeys, Names
<1>10. /\ Pg!References["games"] = {<<"homeTeamId", "teams">>, <<"awayTeamId", "teams">>}
       /\ Pg!References["rsvps"] = {<<"experienceId", "experiences">>, <<"userId", "users">>}
  BY <1>1, <1>2, <1>4 DEF Pg!TeamKeys, Names
<1>11. QED
  BY <1>8, <1>9, <1>10

\* Sessions that MemStorage no longer has and PostgreSQL still has are over.
LEMMA SessionsLeft ==
  ASSUME StoragesInv, ~Rejected, NEW m, NEW p,
         Only(mem, m, "sessions"), Only(pg, p, "sessions"),
         DOMAIN m.sessions \subseteq DOMAIN mem.sessions,
         m.sessions = [id \in DOMAIN m.sessions |-> mem.sessions[id]],
         DOMAIN p.sessions \subseteq DOMAIN pg.sessions,
         p.sessions = [id \in DOMAIN p.sessions |-> pg.sessions[id]],
         DOMAIN m.sessions \subseteq DOMAIN p.sessions,
         \A id \in DOMAIN p.sessions \ DOMAIN m.sessions : pg.sessions[id].expiresAt <= clock
  PROVE  Fit(p, clock + 1) /\ Alike(m, p, clock + 1)
<1>0. "sessions" \in Names
  BY DEF Names
<1>1. Fit(p, clock + 1)
  <2>1. FitTable("sessions", pg.sessions, DOMAIN pg.teams, clock)
    BY <1>0, Known
  <2>2. FitTable("sessions", p.sessions, DOMAIN pg.teams, clock + 1)
    BY <2>1 DEF FitTable, IsTable, Once
  <2>3. QED
    BY <1>0, <2>2, Known, FitKept
<1>2. \A id \in DOMAIN pg.sessions : pg.sessions[id].expiresAt \in Nat
  BY Known, ColumnsAre
<1>3. Alike(m, p, clock + 1)
  <2>1. \A table \in Names \ {"sessions"} : m[table] = p[table]
    BY Known DEF Only
  <2>2. m.sessions = [id \in DOMAIN m.sessions |-> p.sessions[id]]
    <3>1. \A id \in DOMAIN m.sessions : mem.sessions[id] = pg.sessions[id]
      BY Known DEF Alike
    <3>2. \A id \in DOMAIN m.sessions : p.sessions[id] = pg.sessions[id]
      OBVIOUS
    <3>3. QED
      BY <3>1, <3>2
  <2>3. \A id \in DOMAIN p.sessions \ DOMAIN m.sessions : p.sessions[id].expiresAt <= clock + 1
    BY <1>2, Known
  <2>4. QED
    BY <2>1, <2>2, <2>3 DEF Alike, Only
<1>4. QED
  BY <1>1, <1>3

\* Nothing keeps a session from being deleted.
LEMMA SessionsDeleted ==
  ASSUME NEW ids
  PROVE  Pg!Delete(pg, "sessions", ids) = Pg!Done(Drop(pg, "sessions", ids), "ok")
<1>1. ~Pg!ReferredTo(pg, "sessions", ids \cap DOMAIN pg.sessions)
  BY ReferencesAre DEF Pg!ReferredTo, Pg!Names, Names
<1>2. QED
  BY <1>1, SharedWrites DEF Pg!Delete

\* What a table of sessions is when some are dropped.
LEMMA SessionsDropped ==
  ASSUME StoragesInv, ~Rejected, NEW ids
  PROVE  /\ Only(mem, mem, "sessions") /\ Only(pg, pg, "sessions")
         /\ IsTable(mem.sessions) /\ IsTable(pg.sessions)
         /\ Only(mem, Drop(mem, "sessions", ids), "sessions")
         /\ Drop(mem, "sessions", ids).sessions = Shrunk(mem.sessions, ids)
         /\ Only(pg, Drop(pg, "sessions", ids), "sessions")
         /\ Drop(pg, "sessions", ids).sessions = Shrunk(pg.sessions, ids)
<1>0. "sessions" \in Names
  BY DEF Names
<1>1. mem = [table \in Names |-> mem[table]]
  BY Known
<1>2. pg = [table \in Names |-> pg[table]]
  BY Known
<1>3. /\ Only(mem, Drop(mem, "sessions", ids), "sessions")
      /\ Drop(mem, "sessions", ids).sessions = Shrunk(mem.sessions, ids)
  BY <1>0, <1>1, DropIs
<1>4. /\ Only(pg, Drop(pg, "sessions", ids), "sessions")
      /\ Drop(pg, "sessions", ids).sessions = Shrunk(pg.sessions, ids)
  BY <1>0, <1>2, DropIs
<1>5. IsTable(mem.sessions)
  BY Known DEF Alike, IsTable
<1>6. IsTable(pg.sessions)
  BY <1>0, Known DEF FitTable
<1>7. Only(mem, mem, "sessions") /\ Only(pg, pg, "sessions")
  BY <1>1, <1>2 DEF Only
<1>8. QED
  BY <1>3, <1>4, <1>5, <1>6, <1>7

LEMMA CreateSessionKept ==
  ASSUME StoragesInv, ~Rejected,
         NEW row, row \in [userId : DOMAIN pg.users \cup {clock}, expiresAt : Nat]
  PROVE  Kept(Mem!CreateSession(mem, clock, row), Pg!CreateSession(pg, clock, row))
<1> DEFINE m == Mem!CreateSession(mem, clock, row)
           p == Pg!CreateSession(pg, clock, row)
<1> SUFFICES ASSUME p.error = Null
             PROVE  /\ m.answer = p.answer
                    /\ Fit(p.db, clock + 1) /\ Alike(m.db, p.db, clock + 1)
  BY DEF Kept
<1>0. "sessions" \in Names /\ "users" \in Names
  BY DEF Names
<1>1. m.db = Put(mem, "sessions", clock, row) /\ m.answer = row
  BY SharedWrites DEF Mem!CreateSession, Mem!Insert, Mem!Done
<1>2. p = Pg!Done(Pg!Put(pg, "sessions", clock, row), row)
  BY StoragesAssumption DEF Pg!CreateSession, Pg!Insert, Pg!Throw
<1>3. p.db = Put(pg, "sessions", clock, row) /\ p.answer = row
  BY <1>2, SharedWrites DEF Pg!Done
<1>4. Addable("sessions", clock, row)
  <2>1. DOMAIN pg.users \subseteq Nat
    BY <1>0, Known DEF FitTable
  <2>2. row \in Columns["sessions"]
    BY <2>1, Known, ColumnsAre
  <2>3. QED
    BY <2>2 DEF Addable
<1> HIDE DEF m, p
<1>5. Fit(p.db, clock + 1)
  BY <1>0, <1>3, <1>4, PutFits
<1>6. Only(mem, m.db, "sessions") /\ m.db.sessions = Grown(mem.sessions, clock, row)
  <2>1. mem = [table \in Names |-> mem[table]]
    BY Known
  <2>2. QED
    BY <1>0, <1>1, <2>1, PutIs
<1>7. Only(pg, p.db, "sessions") /\ p.db.sessions = Grown(pg.sessions, clock, row)
  <2>1. pg = [table \in Names |-> pg[table]]
    BY Known
  <2>2. QED
    BY <1>0, <1>3, <2>1, PutIs
<1>8. Alike(m.db, p.db, clock + 1)
  <2>1. \A table \in Names \ {"sessions"} : m.db[table] = p.db[table]
    BY <1>6, <1>7, Known DEF Only
  <2>2. /\ \A id \in DOMAIN mem.sessions : mem.sessions[id] = pg.sessions[id]
        /\ DOMAIN mem.sessions \subseteq DOMAIN pg.sessions
        /\ \A id \in DOMAIN pg.sessions \ DOMAIN mem.sessions : pg.sessions[id].expiresAt <= clock
    BY Known DEF Alike
  <2>3. m.db.sessions = [id \in DOMAIN m.db.sessions |-> p.db.sessions[id]]
    BY <1>6, <1>7, <2>2 DEF Grown
  <2>4. \A id \in DOMAIN pg.sessions : pg.sessions[id].expiresAt \in Nat
    BY Known, ColumnsAre
  <2>5. \A id \in DOMAIN p.db.sessions \ DOMAIN m.db.sessions :
          p.db.sessions[id].expiresAt <= clock + 1
    BY <1>6, <1>7, <2>2, <2>4, Known DEF Grown
  <2>6. DOMAIN m.db.sessions \subseteq DOMAIN p.db.sessions
    BY <1>6, <1>7, <2>2 DEF Grown
  <2>7. QED
    BY <1>6, <2>1, <2>3, <2>5, <2>6 DEF Alike, Only
<1>9. QED
  BY <1>1, <1>3, <1>5, <1>8

\* A session that is asked for is dropped when it is over, on MemStorage even if it
\* is not there.
LEMMA GetSessionKept ==
  ASSUME StoragesInv, ~Rejected, NEW id
  PROVE  Kept(Mem!GetSession(mem, id, clock), Pg!GetSession(pg, id, clock))
<1> DEFINE m == Mem!GetSession(mem, id, clock)
           p == Pg!GetSession(pg, id, clock)
           lost == Drop(mem, "sessions", {id})
           gone == Drop(pg, "sessions", {id})
<1>1. /\ \A i \in DOMAIN mem.sessions : mem.sessions[i] = pg.sessions[i]
      /\ DOMAIN mem.sessions \subseteq DOMAIN pg.sessions
      /\ \A i \in DOMAIN pg.sessions \ DOMAIN mem.sessions : pg.sessions[i].expiresAt <= clock
  BY Known DEF Alike
<1>2. \A i \in DOMAIN pg.sessions :
        pg.sessions[i] # Null /\ pg.sessions[i].expiresAt \in Nat
  <2>1. Null \notin Columns["sessions"]
    BY StoragesAssumption, ColumnsAre
  <2>2. QED
    BY <2>1, Known, ColumnsAre
<1>3. Pg!Delete(pg, "sessions", {id}).db = gone
  BY SessionsDeleted DEF Pg!Done
<1>4. CASE id \in DOMAIN mem.sessions /\ pg.sessions[id].expiresAt > clock
  <2>1. m.db = mem /\ m.answer = pg.sessions[id]
    <3>1. Mem!Find(mem, "sessions", id) = pg.sessions[id]
      BY <1>1, <1>4, SharedWrites DEF Find
    <3>2. QED
      BY <1>1, <1>2, <1>4, <3>1 DEF Mem!GetSession, Mem!Done
  <2>3. p.db = pg /\ p.answer = pg.sessions[id]
    <3>1. Pg!Find(pg, "sessions", id) = pg.sessions[id]
      BY <1>1, <1>4, SharedWrites DEF Find
    <3>2. QED
      BY <1>1, <1>2, <1>4, <3>1 DEF Pg!GetSession, Pg!Done
  <2>2. Fit(pg, clock + 1) /\ Alike(mem, pg, clock + 1)
    BY <1>1, SessionsDropped, SessionsLeft DEF IsTable
  <2>4. QED
    BY <2>1, <2>3, <2>2 DEF Kept
<1>5. CASE id \notin DOMAIN pg.sessions
  <2>0. m.db = lost /\ m.answer = Null
    <3>1. Mem!Find(mem, "sessions", id) = Null
      BY <1>1, <1>5, SharedWrites DEF Find
    <3>2. m = Mem!Done(lost, Null)
      BY <3>1, SharedWrites DEF Mem!GetSession
    <3>3. QED
      BY <3>2 DEF Mem!Done
  <2>1. p.db = pg /\ p.answer = Null
    <3>1. Pg!Find(pg, "sessions", id) = Null
      BY <1>5, SharedWrites DEF Find
    <3>2. QED
      BY <3>1 DEF Pg!GetSession, Pg!Done
  <2>2. Fit(pg, clock + 1) /\ Alike(lost, pg, clock + 1)
    <3>1. /\ DOMAIN lost.sessions = DOMAIN mem.sessions
          /\ lost.sessions = [i \in DOMAIN lost.sessions |-> mem.sessions[i]]
      BY <1>1, <1>5, SessionsDropped DEF Shrunk
    <3>2. QED
      BY <1>1, <3>1, SessionsDropped, SessionsLeft DEF IsTable
  <2>3. QED
    BY <2>0, <2>1, <2>2 DEF Kept
<1>6. CASE id \in DOMAIN pg.sessions /\ ~(pg.sessions[id].expiresAt > clock)
  <2>1. m.db = lost /\ m.answer = Null
    BY <1>1, <1>2, <1>6, SharedWrites DEF Mem!GetSession, Mem!Done, Find
  <2>2. p.db = gone /\ p.answer = Null
    BY <1>2, <1>3, <1>6, SharedWrites DEF Pg!GetSession, Pg!Done, Find
  <2>3. Fit(gone, clock + 1) /\ Alike(lost, gone, clock + 1)
    <3>1. /\ DOMAIN lost.sessions = DOMAIN mem.sessions \ {id}
          /\ lost.sessions = [i \in DOMAIN lost.sessions |-> mem.sessions[i]]
          /\ DOMAIN gone.sessions = DOMAIN pg.sessions \ {id}
          /\ gone.sessions = [i \in DOMAIN gone.sessions |-> pg.sessions[i]]
      BY SessionsDropped DEF Shrunk
    <3>2. QED
      BY <1>1, <3>1, SessionsDropped, SessionsLeft
  <2>4. QED
    BY <2>1, <2>2, <2>3 DEF Kept
<1>7. QED
  BY <1>1, <1>2, <1>4, <1>5, <1>6, Known

\* Some sessions are deleted, the same ones but for those that are over.
LEMMA DeleteSessionsKept ==
  ASSUME StoragesInv, ~Rejected, NEW ids, NEW others,
         ids \cap DOMAIN mem.sessions \subseteq others,
         others \cap DOMAIN mem.sessions \subseteq
           ids \cup {id \in DOMAIN pg.sessions : pg.sessions[id].expiresAt <= clock}
  PROVE  Kept(Mem!Done(Mem!Drop(mem, "sessions", others), "ok"), Pg!Delete(pg, "sessions", ids))
<1> DEFINE m == Mem!Done(Mem!Drop(mem, "sessions", others), "ok")
           p == Pg!Delete(pg, "sessions", ids)
           lost == Drop(mem, "sessions", others)
           gone == Drop(pg, "sessions", ids)
<1>1. /\ \A i \in DOMAIN mem.sessions : mem.sessions[i] = pg.sessions[i]
      /\ DOMAIN mem.sessions \subseteq DOMAIN pg.sessions
      /\ \A i \in DOMAIN pg.sessions \ DOMAIN mem.sessions : pg.sessions[i].expiresAt <= clock
  BY Known DEF Alike
<1>2. m.db = lost /\ m.answer = "ok" /\ p.db = gone /\ p.answer = "ok"
  BY SharedWrites, SessionsDeleted DEF Mem!Done, Pg!Done
<1>3. Fit(gone, clock + 1) /\ Alike(lost, gone, clock + 1)
  <2>1. /\ DOMAIN lost.sessions = DOMAIN mem.sessions \ others
        /\ lost.sessions = [i \in DOMAIN lost.sessions |-> mem.sessions[i]]
        /\ DOMAIN gone.sessions = DOMAIN pg.sessions \ ids
        /\ gone.sessions = [i \in DOMAIN gone.sessions |-> pg.sessions[i]]
    BY SessionsDropped DEF Shrunk
  <2>2. QED
    BY <1>1, <2>1, SessionsDropped, SessionsLeft
<1>4. QED
  BY <1>2, <1>3 DEF Kept

LEMMA CreateProfileKept ==
  ASSUME StoragesInv, ~Rejected, NEW uid, NEW data
  PROVE  Kept(Mem!CreateUserProfile(mem, uid, data), Pg!CreateUserProfile(pg, uid, data))
<1> DEFINE blank == [name |-> Null, sports |-> Null, teams |-> Null, done |-> FALSE]
<1>1. Mem!Over(data, blank) = Pg!Over(data, blank)
  BY SharedWrites
<1>2. Addable("profiles", uid, Pg!Over(data, blank))
  BY ColumnsAre DEF Addable
<1>3. /\ Mem!CreateUserProfile(mem, uid, data)
           = Mem!Insert(mem, "profiles", uid, Pg!Over(data, blank))
      /\ Pg!CreateUserProfile(pg, uid, data)
           = Pg!Insert(pg, "profiles", uid, Pg!Over(data, blank))
  BY <1>1 DEF Mem!CreateUserProfile, Pg!CreateUserProfile
<1> HIDE DEF blank
<1>4. QED
  BY <1>2, <1>3, InsertKept DEF Names

LEMMA PeopleKeep == ASSUME StoragesInv, PeopleCall PROVE StoragesInv'
<1>0. ~Rejected
  BY DEF PeopleCall, Both
<1>1. ASSUME NEW name,
             Both(Mem!CreateUser(mem, clock, [username |-> name]),
                  Pg!CreateUser(pg, clock, [username |-> name]))
      PROVE  StoragesInv'
  <2>1. Addable("users", clock, [username |-> name])
    BY ColumnsAre DEF Addable
  <2>2. Kept(Mem!CreateUser(mem, clock, [username |-> name]),
             Pg!CreateUser(pg, clock, [username |-> name]))
    BY <1>0, <2>1, InsertKept DEF Mem!CreateUser, Pg!CreateUser, Names
  <2>3. QED
    BY <1>1, <2>2, BothKeep
<1>2. ASSUME NEW user \in Users \cup {clock}, NEW lasts \in 1..2,
             Both(Mem!CreateSession(mem, clock, [userId |-> user, expiresAt |-> clock + lasts]),
                  Pg!CreateSession(pg, clock, [userId |-> user, expiresAt |-> clock + lasts]))
      PROVE  StoragesInv'
  <2> DEFINE session == [userId |-> user, expiresAt |-> clock + lasts]
  <2>1. clock + lasts \in Nat
    BY <1>0, Known
  <2>2. session \in [userId : DOMAIN pg.users \cup {clock}, expiresAt : Nat]
    BY <2>1 DEF Users
  <2> HIDE DEF session
  <2>3. Kept(Mem!CreateSession(mem, clock, session), Pg!CreateSession(pg, clock, session))
    BY <1>0, <2>2, CreateSessionKept
  <2>4. QED
    BY <1>2, <2>3, BothKeep DEF session
<1>3. ASSUME NEW id, Both(Mem!GetSession(mem, id, clock), Pg!GetSession(pg, id, clock))
      PROVE  StoragesInv'
  BY <1>0, <1>3, GetSessionKept, BothKeep
<1>4. ASSUME NEW id, Both(Mem!DeleteSession(mem, id), Pg!DeleteSession(pg, id))
      PROVE  StoragesInv'
  <2>1. Kept(Mem!DeleteSession(mem, id), Pg!DeleteSession(pg, id))
    BY <1>0, DeleteSessionsKept DEF Mem!DeleteSession, Pg!DeleteSession
  <2>2. QED
    BY <1>4, <2>1, BothKeep
<1>5. ASSUME Both(Mem!DeleteExpiredSessions(mem, clock), Pg!DeleteExpiredSessions(pg, clock))
      PROVE  StoragesInv'
  <2> DEFINE over == {id \in DOMAIN mem.sessions : mem.sessions[id].expiresAt <= clock}
             past == {id \in DOMAIN pg.sessions : pg.sessions[id].expiresAt < clock}
  <2>1. /\ \A i \in DOMAIN mem.sessions : mem.sessions[i] = pg.sessions[i]
        /\ DOMAIN mem.sessions \subseteq DOMAIN pg.sessions
    BY <1>0, Known DEF Alike
  <2>2. \A i \in DOMAIN pg.sessions : pg.sessions[i].expiresAt \in Nat
    BY <1>0, Known, ColumnsAre
  <2>3. Mem!DeleteExpiredSessions(mem, clock) = Mem!Done(Mem!Drop(mem, "sessions", over), "ok")
    BY DEF Mem!DeleteExpiredSessions, Mem!Where
  <2>4. Pg!DeleteExpiredSessions(pg, clock) = Pg!Delete(pg, "sessions", past)
    BY DEF Pg!DeleteExpiredSessions, Pg!Where
  <2>5. /\ past \cap DOMAIN mem.sessions \subseteq over
        /\ over \cap DOMAIN mem.sessions \subseteq
             past \cup {id \in DOMAIN pg.sessions : pg.sessions[id].expiresAt <= clock}
    BY <1>0, <2>1, <2>2, Known
  <2> HIDE DEF over, past
  <2>6. QED
    BY <1>0, <1>5, <2>3, <2>4, <2>5, DeleteSessionsKept, BothKeep
<1>6. ASSUME NEW uid, NEW data,
             Both(Mem!CreateUserProfile(mem, uid, data), Pg!CreateUserProfile(pg, uid, data))
      PROVE  StoragesInv'
  BY <1>0, <1>6, CreateProfileKept, BothKeep
<1>7. ASSUME NEW uid, NEW data,
             Both(Mem!UpdateUserProfile(mem, uid, data), Pg!UpdateUserProfile(pg, uid, data))
      PROVE  StoragesInv'
  <2>1. Kept(Mem!UpdateUserProfile(mem, uid, data), Pg!UpdateUserProfile(pg, uid, data))
    BY <1>0, UpdateKept DEF Mem!UpdateUserProfile, Pg!UpdateUserProfile, Changeable
  <2>2. QED
    BY <1>7, <2>1, BothKeep
<1>8. QED
  BY <1>1, <1>2, <1>3, <1>4, <1>5, <1>6, <1>7 DEF PeopleCall

LEMMA FavoritesKeep == ASSUME StoragesInv, FavoritesCall PROVE StoragesInv'
<1>0. ~Rejected /\ Users \subseteq Nat
  <2>1. ~Rejected
    BY DEF FavoritesCall, Both
  <2>2. DOMAIN pg.users \subseteq Nat
    <3>1. "users" \in Names
      BY DEF Names
    <3>2. QED
      BY <2>1, <3>1, Known DEF FitTable
  <2>3. QED
    BY <2>1, <2>2 DEF Users
<1>1. ASSUME NEW team, NEW row,
             Both(Mem!CreateTeam(mem, team, row), Pg!CreateTeam(pg, team, row))
      PROVE  StoragesInv'
  <2>1. Addable("teams", team, row)
    BY ColumnsAre DEF Addable
  <2>2. Kept(Mem!CreateTeam(mem, team, row), Pg!CreateTeam(pg, team, row))
    BY <1>0, <2>1, InsertKept DEF Mem!CreateTeam, Pg!CreateTeam, Names
  <2>3. QED
    BY <1>1, <2>2, BothKeep
<1>2. ASSUME NEW team \in TeamIds, NEW user \in Users,
             \A r \in Pg!GetUserTeams(pg, user) :
               pg.userTeams[r] # [userId |-> user, teamId |-> team],
             Both(Mem!CreateUserTeam(mem, clock, [userId |-> user, teamId |-> team]),
                  Pg!CreateUserTeam(pg, clock, [userId |-> user, teamId |-> team]))
      PROVE  StoragesInv'
  <2> DEFINE row == [userId |-> user, teamId |-> team]
  <2>1. row \in Columns["userTeams"]
    BY <1>0, ColumnsAre
  <2>2. ASSUME NEW other \in DOMAIN pg.userTeams PROVE pg.userTeams[other] # row
    <3>1. other \in Pg!GetUserTeams(pg, user) \/ pg.userTeams[other].userId # user
      BY DEF Pg!GetUserTeams, Pg!Where
    <3>2. QED
      BY <1>2, <3>1
  <2>3. row.userId = user /\ row.teamId = team
    OBVIOUS
  <2>4. Addable("userTeams", clock, row)
    BY <2>1, <2>2 DEF Addable
  <2> HIDE DEF row
  <2>5. Kept(Mem!CreateUserTeam(mem, clock, row), Pg!CreateUserTeam(pg, clock, row))
    BY <1>0, <2>4, InsertKept DEF Mem!CreateUserTeam, Pg!CreateUserTeam, Names
  <2>6. QED
    BY <1>2, <2>5, BothKeep DEF row
<1>3. ASSUME NEW team, NEW user,
             Both(Mem!DeleteUserTeam(mem, user, team), Pg!DeleteUserTeam(pg, user, team))
      PROVE  StoragesInv'
  <2> DEFINE found == {r \in DOMAIN pg.userTeams : /\ pg.userTeams[r].userId = user
                                                   /\ pg.userTeams[r].teamId = team}
  <2>1. mem.userTeams = pg.userTeams /\ "userTeams" \in Names \ {"sessions", "teams"}
    BY <1>0, Known DEF Names
  <2>2. Mem!DeleteUserTeam(mem, user, team)
          = Mem!Done(Mem!Drop(mem, "userTeams", {First(found)}), "ok")
    BY <2>1, SharedReads DEF Mem!DeleteUserTeam, Mem!Where
  <2>3. Pg!DeleteUserTeam(pg, user, team) = Pg!Delete(pg, "userTeams", found)
    BY DEF Pg!DeleteUserTeam, Pg!Where
  <2>4. \A r \in DOMAIN pg.userTeams :
          r \in Nat /\ pg.userTeams[r] \in [userId : Nat, teamId : TeamIds]
    <3>1. FitTable("userTeams", pg.userTeams, DOMAIN pg.teams, clock)
      BY <1>0, <2>1, Known
    <3>2. DOMAIN pg.userTeams \subseteq 1..(clock - 1)
      BY <3>1 DEF FitTable
    <3>3. \A r \in DOMAIN pg.userTeams : pg.userTeams[r] \in Columns["userTeams"]
      BY <3>1, ColumnsAre DEF FitTable
    <3>4. QED
      BY <3>2, <3>3, ColumnsAre
  <2>5. \A r, s \in found : r = s
    <3>1. \A r, s \in DOMAIN pg.userTeams : pg.userTeams[r] = pg.userTeams[s] => r = s
      BY <1>0, <2>1, Known DEF FitTable, Once
    <3>2. QED
      BY <2>4, <3>1
  <2>6. DOMAIN pg.userTeams \ {First(found)} = DOMAIN pg.userTeams \ found
    <3>1. CASE found = {}
      BY <2>4, <3>1, StoragesAssumption DEF First
    <3>2. CASE found # {}
      <4>1. PICK r \in found : found = {r}
        BY <2>5, <3>2
      <4>2. First({r}) = r
        BY <2>4, <4>1 DEF First
      <4>3. QED
        BY <4>1, <4>2
    <3>3. QED
      BY <3>1, <3>2
  <2> HIDE DEF found
  <2>7. Kept(Mem!DeleteUserTeam(mem, user, team), Pg!DeleteUserTeam(pg, user, team))
    BY <1>0, <2>1, <2>2, <2>3, <2>6, DeleteKept
  <2>8. QED
    BY <1>3, <2>7, BothKeep
<1>4. ASSUME NEW user, Both(Mem!ClearUserTeams(mem, user), Pg!ClearUserTeams(pg, user))
      PROVE  StoragesInv'
  <2>1. mem.userTeams = pg.userTeams /\ "userTeams" \in Names \ {"sessions", "teams"}
    BY <1>0, Known DEF Names
  <2>2. Mem!GetUserTeams(mem, user) = Pg!GetUserTeams(pg, user)
    BY <2>1 DEF Mem!GetUserTeams, Pg!GetUserTeams, Mem!Where, Pg!Where
  <2>3. Kept(Mem!ClearUserTeams(mem, user), Pg!ClearUserTeams(pg, user))
    BY <1>0, <2>1, <2>2, DeleteKept DEF Mem!ClearUserTeams, Pg!ClearUserTeams
  <2>4. QED
    BY <1>4, <2>3, BothKeep
<1>5. ASSUME NEW user, NEW data,
             Both(Mem!CreateUserProfile(mem, user, data), Pg!CreateUserProfile(pg, user, data))
      PROVE  StoragesInv'
  BY <1>0, <1>5, CreateProfileKept, BothKeep
<1>6. ASSUME NEW row, Both(Mem!CreateSummary(mem, clock, row), Pg!CreateSummary(pg, clock, row))
      PROVE  StoragesInv'
  <2>1. Addable("summaries", clock, row)
    BY ColumnsAre DEF Addable
  <2>2. Kept(Mem!CreateSummary(mem, clock, row), Pg!CreateSummary(pg, clock, row))
    BY <1>0, <2>1, InsertKept DEF Mem!CreateSummary, Pg!CreateSummary, Names
  <2>3. QED
    BY <1>6, <2>2, BothKeep
<1>7. ASSUME NEW team \in TeamIds, NEW category \in {"news", "injury"},
             Both(Mem!CreateUpdate(mem, clock, [teamId |-> team, category |-> category,
                                                timestamp |-> clock]),
                  Pg!CreateUpdate(pg, clock, [teamId |-> team, category |-> category,
                                              timestamp |-> clock]))
      PROVE  StoragesInv'
  <2> DEFINE row == [teamId |-> team, category |-> category, timestamp |-> clock]
  <2>1. Addable("updates", clock, row)
    BY <1>0, Known, ColumnsAre DEF Addable
  <2> HIDE DEF row
  <2>2. Kept(Mem!CreateUpdate(mem, clock, row), Pg!CreateUpdate(pg, clock, row))
    BY <1>0, <2>1, InsertKept DEF Mem!CreateUpdate, Pg!CreateUpdate, Names
  <2>3. QED
    BY <1>7, <2>2, BothKeep DEF row
<1>8. QED
  BY <1>1, <1>2, <1>3, <1>4, <1>5, <1>6, <1>7 DEF FavoritesCall

LEMMA GamesKeep == ASSUME StoragesInv, GamesCall PROVE StoragesInv'
<1>0. ~Rejected
  BY DEF GamesCall, Both
<1>1. ASSUME NEW id \in GameIds, NEW home \in TeamIds, NEW away \in TeamIds, NEW pts \in 0..1,
             NEW game, game = [homeTeamId |-> home, awayTeamId |-> away, homePts |-> pts,
                               awayPts |-> 0, startTime |-> StartTime[id], cachedAt |-> clock],
             Both(Mem!CreateGame(mem, id, game), Pg!CreateGame(pg, id, game))
      PROVE  StoragesInv'
  <2>1. game \in Columns["games"]
    <3>1. StartTime[id] \in 0..All /\ clock \in Nat /\ pts \in Nat
      BY <1>0, Known, StoragesAssumption
    <3>2. QED
      BY <1>1, <3>1, ColumnsAre
  <2>2. ASSUME ~Pg!Dangles(pg, "games", game)
        PROVE  {game.homeTeamId, game.awayTeamId} \subseteq DOMAIN pg.teams
    BY <2>2, ReferencesAre DEF Pg!Dangles
  <2>3. game.startTime = StartTime[id]
    BY <1>1
  <2>4. ~Pg!Dangles(pg, "games", game) => Addable("games", id, game)
    BY <2>1, <2>2, <2>3 DEF Addable
  <2>5. Kept(Mem!CreateGame(mem, id, game), Pg!CreateGame(pg, id, game))
    BY <1>0, <2>4, InsertKept DEF Mem!CreateGame, Pg!CreateGame, Names
  <2>6. QED
    BY <1>1, <2>5, BothKeep
<1>2. QED
  BY <1>1 DEF GamesCall

\* An experience that PostgreSQL deletes has no RSVP, so MemStorage has none to drop.
LEMMA DeleteExperienceKept ==
  ASSUME StoragesInv, ~Rejected, NEW id \in DOMAIN pg.experiences
  PROVE  Kept(Mem!DeleteExperience(mem, id), Pg!DeleteExperience(pg, id))
<1> DEFINE m == Mem!DeleteExperience(mem, id)
           p == Pg!DeleteExperience(pg, id)
           left == Drop(mem, "experiences", {id})
<1> SUFFICES ASSUME p.error = Null
             PROVE  /\ m.answer = p.answer
                    /\ Fit(p.db, clock + 1) /\ Alike(m.db, p.db, clock + 1)
  BY DEF Kept
<1>1. {"experiences", "rsvps"} \subseteq Names
  BY DEF Names
<1>2. mem = [table \in Names |-> mem[table]] /\ mem.rsvps = pg.rsvps
  BY <1>1, Known
<1>3. IsTable(pg.rsvps)
  BY <1>1, Known DEF FitTable
<1>4. Kept(Mem!Done(left, "ok"), p)
  BY <1>1, DeleteKept, SharedWrites DEF Pg!DeleteExperience
<1>5. Fit(p.db, clock + 1) /\ Alike(left, p.db, clock + 1) /\ p.answer = "ok"
  BY <1>4 DEF Kept, Mem!Done
<1>6. Mem!GetRsvpsByExperienceId(mem, id) = {}
  <2>1. ~Pg!ReferredTo(pg, "experiences", {id} \cap DOMAIN pg.experiences)
    BY StoragesAssumption DEF Pg!DeleteExperience, Pg!Delete, Pg!Throw
  <2>2. \A c \in DOMAIN pg.rsvps : pg.rsvps[c].experienceId # id
    <3>1. <<"experienceId", "experiences">> \in Pg!References["rsvps"] /\ "rsvps" \in Pg!Names
      BY ReferencesAre DEF Pg!Names
    <3>2. QED
      BY <2>1, <3>1 DEF Pg!ReferredTo
  <2>3. QED
    BY <1>2, <2>2 DEF Mem!GetRsvpsByExperienceId, Mem!Where
<1>7. m.db = Drop(left, "rsvps", {}) /\ m.answer = "ok"
  BY <1>6, SharedWrites DEF Mem!DeleteExperience, Mem!Done
<1>8. Only(mem, left, "experiences")
  BY <1>1, <1>2, DropIs
<1>9. left = [table \in Names |-> left[table]]
  BY <1>8 DEF Only
<1>10. Only(left, Drop(left, "rsvps", {}), "rsvps")
       /\ Drop(left, "rsvps", {}).rsvps = Shrunk(left.rsvps, {})
  <2> HIDE DEF left
  <2>1. QED
    BY <1>1, <1>9, DropIs
<1>11. left.rsvps = pg.rsvps
  BY <1>1, <1>2, <1>8 DEF Only
<1>12. Shrunk(pg.rsvps, {}) = pg.rsvps
  BY <1>3 DEF Shrunk, IsTable
<1> HIDE DEF m, p, left
<1>13. /\ m.db = [table \in Names |-> m.db[table]]
       /\ \A table \in Names : m.db[table] = left[table]
  BY <1>7, <1>10, <1>11, <1>12 DEF Only
<1>14. Alike(m.db, p.db, clock + 1)
  <2>1. m.db.sessions = left.sessions
    BY <1>13 DEF Names
  <2>2. QED
    BY <1>5, <1>13, <2>1 DEF Alike
<1>15. QED
  BY <1>5, <1>7, <1>14

LEMMA EventsKeep == ASSUME StoragesInv, EventsCall PROVE StoragesInv'
<1>0. ~Rejected /\ "rsvps" \in Names \ {"sessions", "teams"}
  BY DEF EventsCall, Both, Names
<1>1. ASSUME NEW team \in TeamIds, NEW start \in 1..2,
             NEW row, row = [teamId |-> team, title |-> "party", startTime |-> start],
             Both(Mem!CreateExperience(mem, clock, row), Pg!CreateExperience(pg, clock, row))
      PROVE  StoragesInv'
  <2>1. Addable("experiences", clock, row)
    BY <1>1, ColumnsAre DEF Addable
  <2>2. Kept(Mem!CreateExperience(mem, clock, row), Pg!CreateExperience(pg, clock, row))
    BY <1>0, <2>1, InsertKept DEF Mem!CreateExperience, Pg!CreateExperience, Names
  <2>3. QED
    BY <1>1, <2>2, BothKeep
<1>2. ASSUME NEW id, NEW data \in {[title |-> "tailgate"], [startTime |-> 2]},
             Both(Mem!UpdateExperience(mem, id, data), Pg!UpdateExperience(pg, id, data))
      PROVE  StoragesInv'
  <2>1. Kept(Mem!UpdateExperience(mem, id, data), Pg!UpdateExperience(pg, id, data))
    BY <1>0, UpdateKept DEF Mem!UpdateExperience, Pg!UpdateExperience, Changeable
  <2>2. QED
    BY <1>2, <2>1, BothKeep
<1>3. ASSUME NEW id \in DOMAIN pg.experiences,
             Both(Mem!DeleteExperience(mem, id), Pg!DeleteExperience(pg, id))
      PROVE  StoragesInv'
  BY <1>0, <1>3, DeleteExperienceKept, BothKeep
<1>4. ASSUME NEW id, NEW user, ~Pg!HasRsvp(pg, id, user),
             Both(Mem!CreateRsvp(mem, clock, [experienceId |-> id, userId |-> user]),
                  Pg!CreateRsvp(pg, clock, [experienceId |-> id, userId |-> user]))
      PROVE  StoragesInv'
  <2> DEFINE row == [experienceId |-> id, userId |-> user]
  <2>1. Addable("rsvps", clock, row)
    BY <1>4, ColumnsAre DEF Addable, Pg!HasRsvp
  <2> HIDE DEF row
  <2>2. Kept(Mem!CreateRsvp(mem, clock, row), Pg!CreateRsvp(pg, clock, row))
    BY <1>0, <2>1, InsertKept DEF Mem!CreateRsvp, Pg!CreateRsvp
  <2>3. QED
    BY <1>4, <2>2, BothKeep DEF row
<1>5. ASSUME NEW id, NEW user,
             Both(Mem!DeleteRsvp(mem, id, user), Pg!DeleteRsvp(pg, id, user))
      PROVE  StoragesInv'
  <2> DEFINE found == {r \in DOMAIN pg.rsvps : /\ pg.rsvps[r].experienceId = id
                                               /\ pg.rsvps[r].userId = user}
  <2>1. mem.rsvps = pg.rsvps
    BY <1>0, Known
  <2>2. Mem!DeleteRsvp(mem, id, user) = Mem!Done(Mem!Drop(mem, "rsvps", {First(found)}), "ok")
    BY <2>1, SharedReads DEF Mem!DeleteRsvp, Mem!RsvpsOf, Mem!Where
  <2>3. Pg!DeleteRsvp(pg, id, user) = Pg!Delete(pg, "rsvps", found)
    BY DEF Pg!DeleteRsvp, Pg!Where
  <2>4. FitTable("rsvps", pg.rsvps, DOMAIN pg.teams, clock)
    BY <1>0, Known
  <2>5. DOMAIN pg.rsvps \subseteq Nat
    BY <2>4 DEF FitTable
  <2>6. \A r, s \in found : r = s
    BY <2>4 DEF FitTable, Once
  <2>7. DOMAIN pg.rsvps \ {First(found)} = DOMAIN pg.rsvps \ found
    <3>1. CASE found = {}
      BY <2>5, <3>1, StoragesAssumption DEF First
    <3>2. CASE found # {}
      <4>1. PICK r \in found : found = {r}
        BY <2>6, <3>2
      <4>2. First({r}) = r
        BY <2>5, <4>1 DEF First
      <4>3. QED
        BY <4>1, <4>2
    <3>3. QED
      BY <3>1, <3>2
  <2> HIDE DEF found
  <2>8. Kept(Mem!DeleteRsvp(mem, id, user), Pg!DeleteRsvp(pg, id, user))
    BY <1>0, <2>2, <2>3, <2>7, DeleteKept
  <2>9. QED
    BY <1>5, <2>8, BothKeep
<1>6. QED
  BY <1>1, <1>2, <1>3, <1>4, <1>5 DEF EventsCall

LEMMA ArticlesKeep == ASSUME StoragesInv, ArticlesCall PROVE StoragesInv'
<1>0. ~Rejected /\ {"articles", "classes"} \subseteq Names \ {"sessions", "teams"}
  BY DEF ArticlesCall, Both, Names
<1>1. ASSUME NEW row, Both(Mem!CreateArticle(mem, clock, row), Pg!CreateArticle(pg, clock, row))
      PROVE  StoragesInv'
  <2> DEFINE fresh == [isProcessed |-> FALSE, isDeleted |-> FALSE]
  <2>1. Mem!Over(row, fresh) = Pg!Over(row, fresh)
    BY SharedWrites
  <2>2. Addable("articles", clock, Pg!Over(row, fresh))
    BY ColumnsAre DEF Addable
  <2>3. /\ Mem!CreateArticle(mem, clock, row)
             = Mem!Insert(mem, "articles", clock, Pg!Over(row, fresh))
        /\ Pg!CreateArticle(pg, clock, row)
             = Pg!Insert(pg, "articles", clock, Pg!Over(row, fresh))
    BY <2>1 DEF Mem!CreateArticle, Pg!CreateArticle
  <2> HIDE DEF fresh
  <2>4. Kept(Mem!CreateArticle(mem, clock, row), Pg!CreateArticle(pg, clock, row))
    BY <1>0, <2>2, <2>3, InsertKept
  <2>5. QED
    BY <1>1, <2>4, BothKeep
<1>2. ASSUME NEW id, NEW data,
             Both(Mem!UpdateArticle(mem, id, data), Pg!UpdateArticle(pg, id, data))
      PROVE  StoragesInv'
  <2>1. Kept(Mem!UpdateArticle(mem, id, data), Pg!UpdateArticle(pg, id, data))
    BY <1>0, UpdateKept DEF Mem!UpdateArticle, Pg!UpdateArticle, Changeable
  <2>2. QED
    BY <1>2, <2>1, BothKeep
<1>3. ASSUME NEW id, Both(Mem!DeleteArticle(mem, id), Pg!DeleteArticle(pg, id))
      PROVE  StoragesInv'
  <2> DEFINE gone == [isDeleted |-> TRUE]
  <2>1. Mem!DeleteArticle(mem, id) = Mem!Done(Change(mem, "articles", {id}, gone), "ok")
    BY SharedWrites DEF Mem!DeleteArticle
  <2>2. Pg!DeleteArticle(pg, id) = Pg!Done(Change(pg, "articles", {id}, gone), "ok")
    BY SharedWrites DEF Pg!DeleteArticle
  <2> HIDE DEF gone
  <2>3. /\ Fit(Change(pg, "articles", {id}, gone), clock + 1)
        /\ Alike(Change(mem, "articles", {id}, gone), Change(pg, "articles", {id}, gone), clock + 1)
    BY <1>0, ChangeKept DEF Changeable
  <2>4. Kept(Mem!DeleteArticle(mem, id), Pg!DeleteArticle(pg, id))
    BY <2>1, <2>2, <2>3 DEF Kept, Mem!Done, Pg!Done
  <2>5. QED
    BY <1>3, <2>4, BothKeep
<1>4. ASSUME NEW row, Both(Mem!CreateArticleClassification(mem, clock, row),
                           Pg!CreateArticleClassification(pg, clock, row))
      PROVE  StoragesInv'
  <2>1. Addable("classes", clock, row)
    BY ColumnsAre DEF Addable
  <2>2. Kept(Mem!CreateArticleClassification(mem, clock, row),
             Pg!CreateArticleClassification(pg, clock, row))
    BY <1>0, <2>1, InsertKept
       DEF Mem!CreateArticleClassification, Pg!CreateArticleClassification
  <2>3. QED
    BY <1>4, <2>2, BothKeep
<1>5. ASSUME NEW id, Both(Mem!DeleteArticleClassification(mem, id),
                          Pg!DeleteArticleClassification(pg, id))
      PROVE  StoragesInv'
  <2>1. Kept(Mem!DeleteArticleClassification(mem, id), Pg!DeleteArticleClassification(pg, id))
    BY <1>0, DeleteKept DEF Mem!DeleteArticleClassification, Pg!DeleteArticleClassification
  <2>2. QED
    BY <1>5, <2>1, BothKeep
<1>6. QED
  BY <1>1, <1>2, <1>3, <1>4, <1>5 DEF ArticlesCall

LEMMA FirstIs ==
  ASSUME NEW ids \in SUBSET Nat, ids # {}
  PROVE  First(ids) \in ids /\ \A other \in ids : First(ids) <= other
<1> DEFINE R == OpToRel(<, Nat)
<1>1. IsWellFoundedOn(R, Nat)
  BY NatLessThanWellFounded
<1> HIDE DEF R
<1>2. PICK id \in ids : \A other \in ids : ~(<<other, id>> \in R)
  BY <1>1, WFMin
<1>3. \A other \in ids : ~(other < id)
  BY <1>2 DEF R, OpToRel
<1>4. \A other \in ids : id <= other
  BY <1>3
<1>5. QED
  BY <1>4 DEF First

\* The statistics of an index leave its team as it was.
LEMMA StatsFit ==
  ASSUME StoragesInv, ~Rejected, NEW ids, NEW new,
         NEW stats \in {[rebuildInProgress |-> TRUE], [totalDocuments |-> 2]},
         new = Overwritten(pg.indexes, ids, stats)
  PROVE  /\ Fit(Change(pg, "indexes", ids, stats), clock + 1)
         /\ DOMAIN new = DOMAIN pg.indexes
         /\ \A i \in DOMAIN new : new[i].teamId = pg.indexes[i].teamId
<1>1. "indexes" \in Names
  BY DEF Names
<1>2. FitTable("indexes", pg.indexes, DOMAIN pg.teams, clock)
  BY <1>1, Known
<1>3. \A i \in DOMAIN pg.indexes : pg.indexes[i] \in Columns["indexes"]
  BY <1>2, ColumnsAre DEF FitTable
<1>4. ASSUME NEW row \in Columns["indexes"]
      PROVE  Over(stats, row) \in Columns["indexes"] /\ Over(stats, row).teamId = row.teamId
  <2> DEFINE over == Over(stats, row)
             names == {"teamId", "totalDocuments", "rebuildInProgress", "totalQueries"}
  <2>1. /\ row.teamId \in TeamIds /\ row.totalDocuments \in Nat /\ row.totalQueries \in Nat
        /\ row.rebuildInProgress \in BOOLEAN /\ DOMAIN row = names
    BY <1>4, ColumnsAre
  <2>2. DOMAIN stats \subseteq {"rebuildInProgress", "totalDocuments"}
    OBVIOUS
  <2>3. over = [column \in names |-> over[column]]
    BY <2>1, <2>2 DEF Over
  <2>4. over.teamId = row.teamId /\ over.totalQueries = row.totalQueries
    BY <2>1, <2>2 DEF Over
  <2>5. over.totalDocuments \in Nat /\ over.rebuildInProgress \in BOOLEAN
    <3>1. CASE stats = [rebuildInProgress |-> TRUE]
      BY <2>1, <3>1 DEF Over
    <3>2. CASE stats = [totalDocuments |-> 2]
      BY <2>1, <3>2 DEF Over
    <3>3. QED
      BY <3>1, <3>2
  <2> HIDE DEF over
  <2>6. over \in [teamId : TeamIds, totalDocuments : Nat, rebuildInProgress : BOOLEAN,
                  totalQueries : Nat]
    BY <2>1, <2>3, <2>4, <2>5
  <2>7. QED
    BY <2>4, <2>6, ColumnsAre DEF over
<1>5. DOMAIN new = DOMAIN pg.indexes /\ IsTable(new)
  BY DEF Overwritten, IsTable
<1>6. \A i \in DOMAIN new : new[i] = pg.indexes[i] \/ new[i] = Over(stats, pg.indexes[i])
  BY DEF Overwritten
<1>7. \A i \in DOMAIN new : new[i] \in Columns["indexes"] /\ new[i].teamId = pg.indexes[i].teamId
  BY <1>3, <1>4, <1>5, <1>6
<1>8. DOMAIN new \subseteq 1..(clock + 1 - 1)
  BY <1>2, <1>5, Known DEF FitTable
<1>9. Once("indexes", new)
  BY <1>2, <1>5, <1>7 DEF FitTable, Once
<1>10. FitTable("indexes", new, DOMAIN pg.teams, clock + 1)
  BY <1>5, <1>7, <1>8, <1>9, Known DEF FitTable
<1>11. /\ Only(pg, Change(pg, "indexes", ids, stats), "indexes")
       /\ Change(pg, "indexes", ids, stats).indexes = new
  <2>1. pg = [table \in Names |-> pg[table]]
    BY Known
  <2>2. QED
    BY <1>1, <2>1, ChangeIs
<1>12. Fit(Change(pg, "indexes", ids, stats), clock + 1)
  BY <1>1, <1>10, <1>11, Known, FitKept
<1>13. QED
  BY <1>5, <1>7, <1>12

LEMMA StatsKept ==
  ASSUME StoragesInv, ~Rejected, NEW team,
         NEW stats \in {[rebuildInProgress |-> TRUE], [totalDocuments |-> 2]}
  PROVE  Kept(Mem!UpdateBM25IndexStats(mem, team, stats), Pg!UpdateBM25IndexStats(pg, team, stats))
<1> DEFINE m == Mem!UpdateBM25IndexStats(mem, team, stats)
           p == Pg!UpdateBM25IndexStats(pg, team, stats)
           found == {i \in DOMAIN pg.indexes : pg.indexes[i].teamId = team}
           new == Overwritten(pg.indexes, found, stats)
           changed == Change(pg, "indexes", found, stats)
<1>0. "indexes" \in Names \ {"sessions"}
  BY DEF Names
<1>1. mem.indexes = pg.indexes
  BY <1>0, Known
<1>2. /\ DOMAIN pg.indexes \subseteq Nat /\ IsTable(pg.indexes)
      /\ \A i, j \in DOMAIN pg.indexes : pg.indexes[i].teamId = pg.indexes[j].teamId => i = j
  <2>1. FitTable("indexes", pg.indexes, DOMAIN pg.teams, clock)
    BY <1>0, Known
  <2>2. DOMAIN pg.indexes \subseteq 1..(clock - 1)
    BY <2>1 DEF FitTable
  <2>3. QED
    BY <2>1, <2>2 DEF FitTable, Once
<1>3. Mem!IndexesOf(mem, team) = found
  BY <1>1 DEF Mem!IndexesOf, Mem!Where
<1>4. /\ Fit(changed, clock + 1) /\ DOMAIN new = DOMAIN pg.indexes
      /\ \A i \in DOMAIN new : new[i].teamId = pg.indexes[i].teamId
  BY StatsFit
<1>5. Only(pg, changed, "indexes") /\ changed.indexes = new
  <2>1. pg = [table \in Names |-> pg[table]]
    BY Known
  <2>2. QED
    BY <1>0, <2>1, ChangeIs
<1>6. p.db = changed /\ p.answer = FirstRow(changed, "indexes", found)
  <2>1. Pg!Change(pg, "indexes", found, stats) = changed
    BY SharedWrites
  <2>2. p = Pg!Done(changed, Pg!GetBM25IndexByTeam(changed, team))
    BY <2>1 DEF Pg!UpdateBM25IndexStats, Pg!Where
  <2>3. {i \in DOMAIN changed.indexes : changed.indexes[i].teamId = team} = found
    BY <1>4, <1>5
  <2>4. Pg!GetBM25IndexByTeam(changed, team) = FirstRow(changed, "indexes", found)
    BY <2>3, SharedReads DEF Pg!GetBM25IndexByTeam, Pg!Where
  <2>5. QED
    BY <2>2, <2>4 DEF Pg!Done
<1>7. CASE found = {}
  <2>1. m.db = mem /\ m.answer = Null
    BY <1>3, <1>7 DEF Mem!UpdateBM25IndexStats, Mem!Done
  <2>2. p.answer = Null
    BY <1>6, <1>7 DEF FirstRow
  <2>3. new = pg.indexes
    BY <1>2, <1>7 DEF Overwritten, IsTable
  <2>4. Only(mem, mem, "indexes")
    BY Known DEF Only
  <2> HIDE DEF changed, new
  <2>5. Alike(mem, changed, clock + 1)
    BY <1>0, <1>1, <1>5, <2>3, <2>4, Known, AlikeKept
  <2>6. QED
    BY <1>4, <1>6, <2>1, <2>2, <2>5 DEF Kept
<1>8. CASE found # {}
  <2>1. PICK i \in found : found = {i}
    BY <1>2, <1>8
  <2>2. i \in Nat /\ i \in DOMAIN pg.indexes /\ First(found) = i
    <3>1. found \in SUBSET Nat
      BY <1>2
    <3>2. First(found) \in found
      BY <1>8, <3>1, FirstIs
    <3>3. QED
      BY <1>2, <2>1, <3>2
  <2> DEFINE after == Change(mem, "indexes", found, stats)
  <2>3. Only(mem, after, "indexes") /\ after.indexes = new
    <3>1. mem = [table \in Names |-> mem[table]]
      BY Known
    <3>2. Only(mem, after, "indexes") /\ after.indexes = Overwritten(mem.indexes, found, stats)
      BY <1>0, <3>1, ChangeIs
    <3>3. QED
      BY <1>1, <3>2
  <2>4. m.db = after /\ m.answer = after.indexes[i]
    <3>1. m = Mem!Update(mem, "indexes", i, stats)
      BY <1>3, <1>8, <2>2, SharedReads DEF Mem!UpdateBM25IndexStats
    <3>2. Mem!Change(mem, "indexes", {i}, stats) = after
      BY <2>1, SharedWrites
    <3>3. m = Mem!Done(after, after["indexes"][i])
      BY <1>1, <2>2, <3>1, <3>2 DEF Mem!Update
    <3>4. QED
      BY <3>3 DEF Mem!Done
  <2> HIDE DEF changed, new, after, found
  <2>5. Alike(after, changed, clock + 1)
    BY <1>0, <1>5, <2>3, Known, AlikeKept
  <2>6. p.answer = new[i]
    BY <1>5, <1>6, <1>8, <2>2 DEF FirstRow
  <2>7. QED
    BY <1>4, <1>6, <2>3, <2>4, <2>5, <2>6 DEF Kept
<1>9. QED
  BY <1>7, <1>8

LEMMA SourcesKeep == ASSUME StoragesInv, SourcesCall PROVE StoragesInv'
<1>0. ~Rejected /\ {"indexes", "sources"} \subseteq Names \ {"sessions"}
  BY DEF SourcesCall, Both, Names
<1>1. ASSUME NEW team \in TeamIds, Pg!GetBM25IndexByTeam(pg, team) = Null,
             Both(Mem!CreateBM25Index(mem, clock, [teamId |-> team]),
                  Pg!CreateBM25Index(pg, clock, [teamId |-> team]))
      PROVE  StoragesInv'
  <2> DEFINE fresh == [totalDocuments |-> 0, rebuildInProgress |-> FALSE, totalQueries |-> 0]
             given == [teamId |-> team]
             row == Pg!Over(given, fresh)
             found == {i \in DOMAIN pg.indexes : pg.indexes[i].teamId = team}
  <2> DEFINE names == {"teamId", "totalDocuments", "rebuildInProgress", "totalQueries"}
  <2>1. /\ row = [column \in names |-> row[column]] /\ row.teamId = team
        /\ row.totalDocuments \in Nat /\ row.rebuildInProgress \in BOOLEAN
        /\ row.totalQueries \in Nat
    BY DEF Pg!Over
  <2>2. row \in Columns["indexes"] /\ row.teamId = team
    <3> HIDE DEF row
    <3>1. row \in [teamId : TeamIds, totalDocuments : Nat, rebuildInProgress : BOOLEAN,
                   totalQueries : Nat]
      BY <2>1
    <3>2. QED
      BY <2>1, <3>1, ColumnsAre
  <2>3. found = {}
    <3>1. FitTable("indexes", pg.indexes, DOMAIN pg.teams, clock)
      BY <1>0, Known
    <3>2. DOMAIN pg.indexes \subseteq 1..(clock - 1)
      BY <3>1 DEF FitTable
    <3>3. \A i \in DOMAIN pg.indexes : pg.indexes[i] \in Columns["indexes"]
      BY <3>1, ColumnsAre DEF FitTable
    <3>4. \A i \in DOMAIN pg.indexes : pg.indexes[i] # Null
      <4>1. "indexes" \in DOMAIN Columns
        BY ColumnsAre
      <4>2. \A table \in DOMAIN Columns : Null \notin Columns[table]
        BY StoragesAssumption
      <4>3. Null \notin Columns["indexes"]
        BY <4>1, <4>2
      <4> QED
        BY <3>3, <4>3
    <3>5. FirstRow(pg, "indexes", found) = Null
      BY <1>1, SharedReads DEF Pg!GetBM25IndexByTeam, Pg!Where
    <3>6. found # {} => First(found) \in found
      BY <3>2, FirstIs
    <3>7. QED
      BY <3>4, <3>5, <3>6 DEF FirstRow
  <2>4. Addable("indexes", clock, row)
    <3>1. \A other \in DOMAIN pg.indexes : pg.indexes[other].teamId # row.teamId
      BY <2>2, <2>3
    <3>2. QED
      BY <2>2, <3>1 DEF Addable
  <2>5. Mem!Over(given, fresh) = row
    BY SharedWrites
  <2> HIDE DEF row
  <2>6. /\ Mem!CreateBM25Index(mem, clock, given) = Mem!Insert(mem, "indexes", clock, row)
        /\ Pg!CreateBM25Index(pg, clock, given) = Pg!Insert(pg, "indexes", clock, row)
    BY <2>5 DEF Mem!CreateBM25Index, Pg!CreateBM25Index, row
  <2> HIDE DEF given, found
  <2>7. Kept(Mem!CreateBM25Index(mem, clock, given), Pg!CreateBM25Index(pg, clock, given))
    BY <1>0, <2>4, <2>6, InsertKept
  <2>8. QED
    BY <1>1, <2>7, BothKeep DEF given
<1>2. ASSUME NEW team, NEW stats \in {[rebuildInProgress |-> TRUE], [totalDocuments |-> 2]},
             Both(Mem!UpdateBM25IndexStats(mem, team, stats),
                  Pg!UpdateBM25IndexStats(pg, team, stats))
      PROVE  StoragesInv'
  BY <1>0, <1>2, StatsKept, BothKeep
<1>3. ASSUME NEW row, Both(Mem!CreateNewsSource(mem, clock, row),
                           Pg!CreateNewsSource(pg, clock, row))
      PROVE  StoragesInv'
  <2> DEFINE fresh == [totalArticles |-> 0, isActive |-> TRUE]
  <2>1. Mem!Over(row, fresh) = Pg!Over(row, fresh)
    BY SharedWrites
  <2>2. Addable("sources", clock, Pg!Over(row, fresh))
    BY ColumnsAre DEF Addable
  <2>3. /\ Mem!CreateNewsSource(mem, clock, row)
             = Mem!Insert(mem, "sources", clock, Pg!Over(row, fresh))
        /\ Pg!CreateNewsSource(pg, clock, row)
             = Pg!Insert(pg, "sources", clock, Pg!Over(row, fresh))
    BY <2>1 DEF Mem!CreateNewsSource, Pg!CreateNewsSource
  <2> HIDE DEF fresh
  <2>4. Kept(Mem!CreateNewsSource(mem, clock, row), Pg!CreateNewsSource(pg, clock, row))
    BY <1>0, <2>2, <2>3, InsertKept
  <2>5. QED
    BY <1>3, <2>4, BothKeep
<1>4. ASSUME NEW id, NEW data,
             Both(Mem!UpdateNewsSource(mem, id, data), Pg!UpdateNewsSource(pg, id, data))
      PROVE  StoragesInv'
  <2>1. Kept(Mem!UpdateNewsSource(mem, id, data), Pg!UpdateNewsSource(pg, id, data))
    BY <1>0, UpdateKept DEF Mem!UpdateNewsSource, Pg!UpdateNewsSource, Changeable
  <2>2. QED
    BY <1>4, <2>1, BothKeep
<1>5. QED
  BY <1>1, <1>2, <1>3, <1>4 DEF SourcesCall

LEMMA StoragesStart == ASSUME StoragesInit PROVE StoragesInv
<1>1. area \in DOMAIN Areas /\ mem = pg /\ pg = Areas[area] /\ clock = 10
  BY DEF StoragesInit
<1>2. Fit(pg, 10)
  BY <1>1, StoragesAssumption
<1>3. /\ pg = [name \in Names |-> pg[name]]
      /\ \A name \in Names : IsTable(pg[name])
  BY <1>2 DEF Fit, FitTable
<1>4. IsTable(pg.sessions)
  BY <1>3 DEF Names
<1>5. Alike(mem, pg, 10)
  BY <1>1, <1>3, <1>4 DEF Alike, IsTable
<1>6. QED
  BY <1>1, <1>2, <1>5, StoragesAssumption DEF StoragesInit, StoragesInv, Rejected

LEMMA StoragesKeep == ASSUME StoragesInv, [StoragesNext]_storages PROVE StoragesInv'
<1>1. CASE UNCHANGED storages
  BY <1>1 DEF storages, StoragesInv, Rejected
<1>2. CASE StoragesNext
  BY <1>2, PeopleKeep, FavoritesKeep, GamesKeep, EventsKeep, ArticlesKeep, SourcesKeep
     DEF StoragesNext
<1>3. QED
  BY <1>1, <1>2

-----------------------------------------------------------------------------
(***************************************************************************)
(* The greatest rows: there is a list of them, it has as many rows as its  *)
(* limit takes, and what was cut from parts of the rows is cut from all.   *)
(***************************************************************************)
LEMMA Numbered ==
  ASSUME NEW n \in Nat, NEW f, \A i, j \in 1..n : f[i] = f[j] => i = j,
         NEW T, \A y : y \in T <=> \E i \in 1..n : y = f[i]
  PROVE  IsFiniteSet(T) /\ Cardinality(T) = n
<1> DEFINE b == [i \in 1..n |-> f[i]]
<1>1. b \in Bijection(1..n, T)
  BY DEF Bijection, Injection, Surjection, IsInjective
<1>2. IsFiniteSet(1..n) /\ Cardinality(1..n) = n
  BY FS_Interval
<1> HIDE DEF b
<1>3. ExistsBijection(1..n, T)
  BY <1>1 DEF ExistsBijection
<1>4. QED
  BY <1>2, <1>3, FS_Bijection

\* All the rows can be listed, each in one place.
Sorted(s, ids, rows, column) ==
  /\ InOrder(s, ids, rows, column)
  /\ \A m, n \in 1..Cardinality(ids) : s[m] = s[n] => m = n
LEMMA SortedOnce ==
  ASSUME NEW ids, IsFiniteSet(ids), NEW rows, NEW column,
         \A id \in ids : rows[id][column] \in Nat
  PROVE  \E s \in [1..Cardinality(ids) -> ids] : Sorted(s, ids, rows, column)
<1>1. Cardinality(ids) \in Nat
  BY FS_CardinalityType
<1>2. PICK s \in [1..Cardinality(ids) -> ids] : InOrder(s, ids, rows, column)
  BY OrderExists
<1>3. s \in Surjection(1..Cardinality(ids), ids)
  BY <1>2 DEF Surjection, InOrder
<1>4. IsFiniteSet(1..Cardinality(ids)) /\ Cardinality(1..Cardinality(ids)) = Cardinality(ids)
  BY <1>1, FS_Interval
<1>5. s \in Injection(1..Cardinality(ids), ids)
  BY <1>3, <1>4, FS_SurjSameCardinalityImpliesInj
<1>6. QED
  BY <1>2, <1>5 DEF Sorted, Injection, IsInjective

\* So some of them, the greatest, can.
LEMMA GreatestExist ==
  ASSUME NEW db0, NEW table, NEW ids, IsFiniteSet(ids), NEW column, NEW limit \in Nat,
         \A id \in ids : db0[table][id][column] \in Nat
  PROVE  Greatest(db0, table, ids, column, limit) # {}
<1> DEFINE rows == db0[table]
           k == Cardinality(ids)
           l == Smaller(limit, k)
<1>0. \A id \in ids : rows[id][column] \in Nat
  OBVIOUS
<1> HIDE DEF rows, l
<1> HIDE DEF k
<1>1. PICK s \in [1..Cardinality(ids) -> ids] : Sorted(s, ids, rows, column)
  BY <1>0, SortedOnce
<1>2. k \in Nat /\ l \in Nat /\ l <= k
  BY FS_CardinalityType DEF Smaller, l, k
<1>a. /\ s \in [1..k -> ids] /\ InOrder(s, ids, rows, column)
      /\ \A m, n \in 1..k : s[m] = s[n] => m = n
  BY <1>1 DEF Sorted, k
<1> DEFINE list == [n \in 1..l |-> s[n]]
<1> HIDE DEF k, l, rows
<1>b. \A n \in 1..l : n \in 1..k
  BY <1>2
<1>3. /\ list \in [1..l -> ids] /\ DOMAIN list = 1..l /\ DOMAIN s = 1..k
      /\ \A n \in 1..l : n \in 1..k /\ list[n] = s[n]
  BY <1>a, <1>b DEF list
<1> HIDE DEF list
<1>4. \A m, n \in DOMAIN list : list[m] = list[n] => m = n
  BY <1>a, <1>3
<1>5. Descending(list, rows, column)
  BY <1>a, <1>3 DEF InOrder, Descending
<1>6. ASSUME NEW id \in ids, id \notin SeqSet(list), NEW n \in DOMAIN list
      PROVE  rows[id][column] <= rows[list[n]][column]
  <2>1. PICK m \in 1..k : s[m] = id
    BY <1>a, <1>3 DEF InOrder
  <2>2. m \notin 1..l
    BY <1>3, <1>6, <2>1 DEF SeqSet
  <2>3. n < m
    BY <1>2, <1>3, <2>2
  <2>4. QED
    BY <1>a, <1>3, <2>1, <2>3 DEF InOrder, Descending
<1>7. list \in Greatest(db0, table, ids, column, limit)
  BY <1>3, <1>4, <1>5, <1>6 DEF Greatest, l, k, rows
<1>8. QED
  BY <1>7

\* A list leaves rows out only when it has as many as its limit.
LEMMA CutHas ==
  ASSUME NEW db0, NEW table, NEW ids, IsFiniteSet(ids), NEW column, NEW limit \in Nat,
         NEW s \in Greatest(db0, table, ids, column, limit)
  PROVE  /\ SeqSet(s) \subseteq ids /\ IsFiniteSet(SeqSet(s))
         /\ Cardinality(SeqSet(s)) = Smaller(limit, Cardinality(ids))
         /\ DOMAIN s = 1..Smaller(limit, Cardinality(ids))
         /\ SeqSet(s) # ids => /\ Cardinality(SeqSet(s)) = limit
                               /\ limit < Cardinality(ids)
<1> DEFINE k == Cardinality(ids)
           l == Smaller(limit, k)
<1>1. k \in Nat /\ l \in Nat /\ l <= k /\ (l # limit => l = k)
  BY FS_CardinalityType DEF Smaller
<1>2. s \in [1..l -> ids] /\ \A m, n \in DOMAIN s : s[m] = s[n] => m = n
  BY DEF Greatest
<1> HIDE DEF l
<1>3. DOMAIN s = 1..l /\ SeqSet(s) \subseteq ids
  BY <1>2 DEF SeqSet
<1>4. \A y : y \in SeqSet(s) <=> \E i \in 1..l : y = s[i]
  BY <1>3 DEF SeqSet
<1>5. IsFiniteSet(SeqSet(s)) /\ Cardinality(SeqSet(s)) = l
  BY <1>1, <1>2, <1>3, <1>4, Numbered
<1>6. ASSUME SeqSet(s) # ids PROVE l = limit /\ limit < k
  <2>1. l # k
    BY <1>3, <1>5, <1>6, FS_Subset
  <2>2. QED
    BY <1>1, <2>1
<1>7. QED
  BY <1>3, <1>5, <1>6 DEF l

\* The greatest of the greatest of two parts are the greatest of all.
LEMMA TopOfTops ==
  ASSUME NEW db0, NEW table, NEW A, NEW B, IsFiniteSet(A), IsFiniteSet(B), NEW column,
         NEW limit \in Nat, \A id \in A \cup B : db0[table][id][column] \in Nat,
         NEW home \in Greatest(db0, table, A, column, limit),
         NEW away \in Greatest(db0, table, B, column, limit),
         NEW s \in Greatest(db0, table, SeqSet(home) \cup SeqSet(away), column, limit)
  PROVE  s \in Greatest(db0, table, A \cup B, column, limit)
<1> DEFINE rows == db0[table]
           ids == A \cup B
           merged == SeqSet(home) \cup SeqSet(away)
<1>1. /\ SeqSet(home) \subseteq A /\ SeqSet(away) \subseteq B
      /\ IsFiniteSet(SeqSet(home)) /\ IsFiniteSet(SeqSet(away))
      /\ SeqSet(home) # A => Cardinality(SeqSet(home)) = limit
      /\ SeqSet(away) # B => Cardinality(SeqSet(away)) = limit
  BY CutHas
<1>2. /\ IsFiniteSet(ids) /\ IsFiniteSet(merged) /\ merged \subseteq ids
      /\ Cardinality(ids) \in Nat /\ Cardinality(merged) \in Nat
      /\ Cardinality(merged) <= Cardinality(ids)
  BY <1>1, FS_Union, FS_Subset, FS_CardinalityType
<1>3. /\ SeqSet(s) \subseteq merged /\ IsFiniteSet(SeqSet(s))
      /\ Cardinality(SeqSet(s)) = Smaller(limit, Cardinality(merged))
  <2>1. s \in Greatest(db0, table, merged, column, limit)
    OBVIOUS
  <2> HIDE DEF merged
  <2>2. QED
    BY <1>2, <2>1, CutHas
<1>4. /\ s \in [1..Smaller(limit, Cardinality(merged)) -> merged]
      /\ \A m, n \in DOMAIN s : s[m] = s[n] => m = n
      /\ Descending(s, rows, column)
      /\ \A id \in merged \ SeqSet(s) : \A n \in DOMAIN s :
           rows[id][column] <= rows[s[n]][column]
  BY DEF Greatest
<1>5. \A n \in DOMAIN s : s[n] \in SeqSet(s)
  BY DEF SeqSet
<1>6. ASSUME NEW id \in ids \ merged
      PROVE  \E top \in {SeqSet(home), SeqSet(away)} :
               /\ IsFiniteSet(top) /\ Cardinality(top) = limit /\ top \subseteq merged
               /\ \A other \in top : rows[id][column] <= rows[other][column]
  <2>1. ASSUME NEW part, part \in {A, B}, NEW cut \in Greatest(db0, table, part, column, limit),
               id \in part, id \notin SeqSet(cut), NEW other \in SeqSet(cut)
        PROVE  rows[id][column] <= rows[other][column]
    BY <2>1 DEF Greatest, SeqSet
  <2>2. CASE id \in A
    <3>1. id \notin SeqSet(home) /\ Cardinality(SeqSet(home)) = limit
      BY <1>1, <1>6, <2>2
    <3>2. \A other \in SeqSet(home) : rows[id][column] <= rows[other][column]
      BY <2>1, <2>2, <3>1
    <3>3. QED
      BY <1>1, <3>1, <3>2
  <2>3. CASE id \in B
    <3>1. id \notin SeqSet(away) /\ Cardinality(SeqSet(away)) = limit
      BY <1>1, <1>6, <2>3
    <3>2. \A other \in SeqSet(away) : rows[id][column] <= rows[other][column]
      BY <2>1, <2>3, <3>1
    <3>3. QED
      BY <1>1, <3>1, <3>2
  <2>4. QED
    BY <1>6, <2>2, <2>3
<1> HIDE DEF ids, merged, rows
<1>7. /\ Smaller(limit, Cardinality(merged)) = Smaller(limit, Cardinality(ids))
      /\ ids # merged => Smaller(limit, Cardinality(merged)) = limit
  <2>1. CASE ids = merged
    BY <2>1
  <2>2. CASE ids # merged
    <3>1. PICK id \in ids \ merged : TRUE
      BY <1>2, <2>2
    <3>2. PICK top \in SUBSET merged : IsFiniteSet(top) /\ Cardinality(top) = limit
      BY <1>6, <3>1
    <3>3. limit <= Cardinality(merged)
      BY <1>2, <3>2, FS_Subset
    <3>4. QED
      BY <1>2, <3>3 DEF Smaller
  <2>3. QED
    BY <2>1, <2>2
<1>8. ASSUME NEW id \in ids \ SeqSet(s), NEW n \in DOMAIN s
      PROVE  rows[id][column] <= rows[s[n]][column]
  <2>1. CASE id \in merged
    BY <1>4, <1>8, <2>1
  <2>2. CASE id \notin merged
    <3>1. PICK top : /\ IsFiniteSet(top) /\ Cardinality(top) = limit /\ top \subseteq merged
                     /\ \A other \in top : rows[id][column] <= rows[other][column]
      BY <1>6, <1>8, <2>2
    <3>2. CASE s[n] \in top
      BY <3>1, <3>2
    <3>3. CASE s[n] \notin top
      <4>1. Cardinality(SeqSet(s)) = limit
        BY <1>3, <1>7, <1>8, <2>2
      <4>2. PICK other \in top : other \notin SeqSet(s)
        <5> SUFFICES ASSUME top \subseteq SeqSet(s) PROVE FALSE
          OBVIOUS
        <5>1. top = SeqSet(s)
          BY <1>3, <3>1, <4>1, FS_Subset
        <5>2. QED
          BY <1>5, <3>3, <5>1
      <4>3. rows[other][column] <= rows[s[n]][column]
        BY <1>4, <3>1, <4>2
      <4>4. rows[id][column] <= rows[other][column]
        BY <3>1, <4>2
      <4>5. /\ rows[id][column] \in Nat /\ rows[other][column] \in Nat
            /\ rows[s[n]][column] \in Nat
        <5>1. other \in ids /\ s[n] \in ids
          BY <1>2, <1>3, <1>5, <3>1, <4>2
        <5>2. QED
          BY <1>8, <5>1 DEF rows, ids
      <4>6. QED
        BY <4>3, <4>4, <4>5
    <3>4. QED
      BY <3>2, <3>3
  <2>3. QED
    BY <2>1, <2>2
<1>9. s \in [1..Smaller(limit, Cardinality(ids)) -> ids]
  BY <1>2, <1>4, <1>7
<1>10. s \in Greatest(db0, table, ids, column, limit)
  BY <1>4, <1>8, <1>9 DEF Greatest, rows
<1>11. QED
  BY <1>10 DEF ids

-----------------------------------------------------------------------------
(***************************************************************************)
(* Databases that are alike answer alike.                                  *)
(***************************************************************************)
LEMMA ReadAlike ==
  ASSUME NEW table, mem[table] = pg[table], NEW ids, NEW column, NEW limit, NEW id
  PROVE  /\ Mem!Greatest(mem, table, ids, column, limit) = Greatest(pg, table, ids, column, limit)
         /\ Pg!Greatest(pg, table, ids, column, limit) = Greatest(pg, table, ids, column, limit)
         /\ Mem!FirstRow(mem, table, ids) = FirstRow(pg, table, ids)
         /\ Pg!FirstRow(pg, table, ids) = FirstRow(pg, table, ids)
         /\ Mem!Find(mem, table, id) = Find(pg, table, id)
         /\ Pg!Find(pg, table, id) = Find(pg, table, id)
         /\ Find(mem, table, id) = Find(pg, table, id)
<1>1. Greatest(mem, table, ids, column, limit) = Greatest(pg, table, ids, column, limit)
  BY DEF Greatest
<1>2. /\ Mem!Greatest(mem, table, ids, column, limit) = Greatest(mem, table, ids, column, limit)
      /\ Pg!Greatest(pg, table, ids, column, limit) = Greatest(pg, table, ids, column, limit)
  BY SharedReads
<1>3. FirstRow(mem, table, ids) = FirstRow(pg, table, ids)
  BY DEF FirstRow
<1>4. /\ Mem!FirstRow(mem, table, ids) = FirstRow(mem, table, ids)
      /\ Pg!FirstRow(pg, table, ids) = FirstRow(pg, table, ids)
  BY SharedReads
<1>5. Find(mem, table, id) = Find(pg, table, id)
  BY DEF Find
<1>6. /\ Mem!Find(mem, table, id) = Find(mem, table, id)
      /\ Pg!Find(pg, table, id) = Find(pg, table, id)
  BY SharedWrites
<1>7. QED
  BY <1>1, <1>2, <1>3, <1>4, <1>5, <1>6

LEMMA PeopleAgree == ASSUME StoragesInv, ~Rejected PROVE SamePeople
<1>1. mem["users"] = pg["users"] /\ mem["profiles"] = pg["profiles"]
  BY Known DEF Names
<1>2. ASSUME NEW id PROVE Find(mem, "users", id) = Find(pg, "users", id)
  BY <1>1, ReadAlike
<1>3. ASSUME NEW name
      PROVE  Mem!GetUserByUsername(mem, name) = Pg!GetUserByUsername(pg, name)
  BY <1>1, ReadAlike DEF Mem!GetUserByUsername, Pg!GetUserByUsername, Mem!Where, Pg!Where
<1>4. ASSUME NEW uid PROVE Mem!GetUserProfile(mem, uid) = Pg!GetUserProfile(pg, uid)
  BY <1>1, ReadAlike DEF Mem!GetUserProfile, Pg!GetUserProfile
<1>5. QED
  BY <1>2, <1>3, <1>4 DEF SamePeople

\* A list without a limit that the rows could reach has them all, either way round.
LEMMA AllAreListed ==
  ASSUME StoragesInv, ~Rejected,
         NEW table, NEW column,
         <<table, column>> \in {<<"updates", "timestamp">>, <<"experiences", "startTime">>},
         NEW ids \in SUBSET DOMAIN pg[table]
  PROVE  /\ ListsRows(Greatest(pg, table, ids, column, All), ids)
         /\ ListsRows(LeastFirst(pg, table, ids, column), ids)
<1>1. FitTable(table, pg[table], DOMAIN pg.teams, clock)
  BY Known DEF Names
<1>2. ids \subseteq 1..(clock - 1)
  BY <1>1 DEF FitTable
<1>3. /\ clock \in Nat /\ clock >= 10 /\ clock <= 10 + MaxWrites /\ MaxWrites \in Nat
      /\ 10 + MaxWrites <= All
  BY StoragesAssumption DEF StoragesInv
<1>4. IsFiniteSet(1..(clock - 1)) /\ Cardinality(1..(clock - 1)) = clock - 1
  <2>1. clock - 1 \in Nat /\ ~(1 > clock - 1) /\ clock - 1 - 1 + 1 = clock - 1
    BY <1>3
  <2>2. QED
    BY <2>1, FS_Interval
<1>5. IsFiniteSet(ids) /\ Cardinality(ids) \in Nat /\ Cardinality(ids) <= clock - 1
  <2>1. IsFiniteSet(ids) /\ Cardinality(ids) <= clock - 1
    BY <1>2, <1>4, FS_Subset
  <2>2. QED
    BY <2>1, FS_CardinalityType
<1>6. ASSUME NEW id \in ids PROVE pg[table][id][column] \in Nat
  <2>1. table \in DOMAIN Columns
    BY ColumnsAre
  <2>2. pg[table][id] \in Columns[table]
    BY <1>1, <2>1 DEF FitTable
  <2>3. CASE table = "updates" /\ column = "timestamp"
    BY <2>2, <2>3, ColumnsAre
  <2>4. CASE table = "experiences" /\ column = "startTime"
    BY <2>2, <2>4, ColumnsAre
  <2>5. QED
    BY <2>3, <2>4
<1>7. All \in Nat /\ ~(All < Cardinality(ids))
  BY <1>3, <1>5 DEF All
<1> DEFINE lists == Greatest(pg, table, ids, column, All)
<1>8. lists # {}
  BY <1>5, <1>6, <1>7, GreatestExist
<1>9. ASSUME NEW list \in lists
      PROVE  SeqSet(list) = ids /\ SeqSet(Backwards(list)) = ids
  <2>1. SeqSet(list) = ids
    BY <1>5, <1>7, CutHas
  <2>2. list \in Seq(ids)
    BY <1>5, <1>7, GreatestAreFound
  <2>3. SeqSet(Backwards(list)) = SeqSet(list)
    <3> DEFINE n == Len(list)
    <3>1. n \in Nat /\ DOMAIN list = 1..n /\ Backwards(list) = [i \in 1..n |-> list[n + 1 - i]]
      BY <2>2 DEF Backwards
    <3> HIDE DEF n
    <3>2. \A i \in 1..n : n + 1 - i \in 1..n /\ n + 1 - (n + 1 - i) = i
      BY <3>1
    <3>3. \A i \in 1..n : Backwards(list)[i] = list[n + 1 - i]
      BY <3>1
    <3>4. DOMAIN Backwards(list) = 1..n
      BY <3>1
    <3>5. \A i \in 1..n : list[i] = Backwards(list)[n + 1 - i]
      BY <3>2, <3>3
    <3>6. \A y : y \in SeqSet(list) <=> y \in SeqSet(Backwards(list))
      <4>1. ASSUME NEW y \in SeqSet(list) PROVE y \in SeqSet(Backwards(list))
        <5>1. PICK i \in 1..n : y = list[i]
          BY <3>1 DEF SeqSet
        <5>2. n + 1 - i \in DOMAIN Backwards(list) /\ y = Backwards(list)[n + 1 - i]
          BY <3>2, <3>4, <3>5, <5>1
        <5>3. QED
          BY <5>2 DEF SeqSet
      <4>2. ASSUME NEW y \in SeqSet(Backwards(list)) PROVE y \in SeqSet(list)
        <5>1. PICK i \in 1..n : y = Backwards(list)[i]
          BY <3>4 DEF SeqSet
        <5>2. n + 1 - i \in DOMAIN list /\ y = list[n + 1 - i]
          BY <3>1, <3>2, <3>3, <5>1
        <5>3. QED
          BY <5>2 DEF SeqSet
      <4>3. QED
        BY <4>1, <4>2
    <3>7. QED
      BY <3>6
  <2>4. QED
    BY <2>1, <2>3
<1>10. LeastFirst(pg, table, ids, column) = {Backwards(list) : list \in lists}
  BY DEF LeastFirst
<1> HIDE DEF lists
<1>11. ListsRows(lists, ids)
  BY <1>8, <1>9 DEF ListsRows
<1>12. ListsRows({Backwards(list) : list \in lists}, ids)
  BY <1>8, <1>9 DEF ListsRows
<1>13. QED
  BY <1>10, <1>11, <1>12 DEF lists

LEMMA FavoritesAgree == ASSUME StoragesInv, ~Rejected PROVE SameFavorites
<1>1. /\ mem["userTeams"] = pg["userTeams"] /\ mem["profiles"] = pg["profiles"]
      /\ mem["teams"] = pg["teams"] /\ mem["updates"] = pg["updates"]
      /\ mem["summaries"] = pg["summaries"]
  BY Known DEF Names
<1>2. ASSUME NEW user PROVE Mem!GetUserTeams(mem, user) = Pg!GetUserTeams(pg, user)
  BY <1>1 DEF Mem!GetUserTeams, Pg!GetUserTeams, Mem!Where, Pg!Where
<1>3. ASSUME NEW user, NEW sport \in {"football", "basketball"}
      PROVE  SeqSet(Mem!GetUserFavoriteTeamBySport(mem, user, sport))
               = Pg!GetUserFavoriteTeamBySport(pg, user, sport)
  <2>1. \A league : Mem!SportOf(league) = Pg!SportOf(league)
    BY DEF Mem!SportOf, Pg!SportOf
  <2>2. /\ Mem!Find(mem, "profiles", user) = Find(pg, "profiles", user)
        /\ Pg!Find(pg, "profiles", user) = Find(pg, "profiles", user)
    BY <1>1, ReadAlike
  <2>3. Mem!ToLowerCase(sport) = sport
    BY DEF Mem!ToLowerCase
  <2> DEFINE profile == Find(pg, "profiles", user)
             Of(t) == t \in DOMAIN pg.teams /\ Pg!SportOf(pg.teams[t].league) = sport
             found == Mem!GetUserFavoriteTeamBySport(mem, user, sport)
             rows == Pg!GetUserFavoriteTeamBySport(pg, user, sport)
  <2>4. CASE profile = Null \/ profile.teams = Null
    <3>1. found = <<>>
      BY <2>2, <2>4 DEF Mem!GetUserFavoriteTeamBySport
    <3>2. rows = {}
      BY <2>2, <2>4 DEF Pg!GetUserFavoriteTeamBySport
    <3>3. SeqSet(<<>>) = {}
      BY DEF SeqSet
    <3>4. QED
      BY <3>1, <3>2, <3>3
  <2>5. CASE profile # Null /\ profile.teams # Null
    <3> DEFINE places == {n \in DOMAIN profile.teams : Of(profile.teams[n])}
    <3>1. found = [n \in places |-> [teamId |-> profile.teams[n], sport |-> sport]]
      BY <1>1, <2>1, <2>2, <2>3, <2>5 DEF Mem!GetUserFavoriteTeamBySport
    <3>2. rows = {[teamId |-> t, sport |-> Pg!SportOf(pg.teams[t].league)] :
                    t \in {t \in SeqSet(profile.teams) : Of(t)}}
      BY <2>2, <2>5 DEF Pg!GetUserFavoriteTeamBySport, SeqSet, Pg!SeqSet
    <3>3. rows = {[teamId |-> t, sport |-> sport] : t \in {t \in SeqSet(profile.teams) : Of(t)}}
      BY <3>2
    <3>4. DOMAIN found = places
          /\ \A n \in places : found[n] = [teamId |-> profile.teams[n], sport |-> sport]
      BY <3>1
    <3>5. SeqSet(found) = {[teamId |-> profile.teams[n], sport |-> sport] : n \in places}
      BY <3>4 DEF SeqSet
    <3>6. SeqSet(found) = rows
      <4> HIDE DEF found, rows, profile, Of
      <4>1. QED
        BY <3>3, <3>5 DEF SeqSet
    <3>7. QED
      BY <3>6
  <2>6. QED
    BY <2>4, <2>5
<1>4. ASSUME NEW league PROVE Mem!GetTeamsByLeague(mem, league) = Pg!GetTeamsByLeague(pg, league)
  BY <1>1 DEF Mem!GetTeamsByLeague, Pg!GetTeamsByLeague, Mem!Where, Pg!Where
<1>5. ASSUME NEW team
      PROVE  Mem!GetLatestSummaryByTeamId(mem, team) = Pg!GetLatestSummaryByTeamId(pg, team)
  BY <1>1, ReadAlike
     DEF Mem!GetLatestSummaryByTeamId, Pg!GetLatestSummaryByTeamId, Mem!Where, Pg!Where
<1>6. Mem!All = All
  BY DEF Mem!All, All
<1>7. ASSUME NEW ids \in SUBSET DOMAIN pg.updates
      PROVE  ListsRows(Mem!Greatest(mem, "updates", ids, "timestamp", Mem!All), ids)
  BY <1>1, <1>6, ReadAlike, AllAreListed
<1>8. ListsRows(Mem!GetAllUpdates(mem), Pg!GetAllUpdates(pg))
  BY <1>1, <1>7 DEF Mem!GetAllUpdates, Pg!GetAllUpdates
<1>9. ASSUME NEW team
      PROVE  ListsRows(Mem!GetUpdatesByTeamId(mem, team), Pg!GetUpdatesByTeamId(pg, team))
  <2> DEFINE ids == {id \in DOMAIN pg.updates : pg.updates[id].teamId = team}
  <2>1. Mem!GetUpdatesByTeamId(mem, team)
          = Mem!Greatest(mem, "updates", ids, "timestamp", Mem!All)
    BY <1>1 DEF Mem!GetUpdatesByTeamId, Mem!Where
  <2>2. Pg!GetUpdatesByTeamId(pg, team) = ids
    BY DEF Pg!GetUpdatesByTeamId, Pg!Where
  <2>3. ids \in SUBSET DOMAIN pg.updates
    OBVIOUS
  <2> HIDE DEF ids
  <2>4. QED
    BY <1>7, <2>1, <2>2, <2>3
<1>10. ASSUME NEW team, NEW category
       PROVE  ListsRows(Mem!GetUpdatesByTeamAndCategory(mem, team, category),
                        Pg!GetUpdatesByTeamAndCategory(pg, team, category))
  <2> DEFINE ids == {id \in DOMAIN pg.updates : /\ pg.updates[id].teamId = team
                                                /\ pg.updates[id].category = category}
  <2>1. Mem!GetUpdatesByTeamAndCategory(mem, team, category)
          = Mem!Greatest(mem, "updates", ids, "timestamp", Mem!All)
    BY <1>1 DEF Mem!GetUpdatesByTeamAndCategory, Mem!Where
  <2>2. Pg!GetUpdatesByTeamAndCategory(pg, team, category) = ids
    BY DEF Pg!GetUpdatesByTeamAndCategory, Pg!Where
  <2>3. ids \in SUBSET DOMAIN pg.updates
    OBVIOUS
  <2> HIDE DEF ids
  <2>4. QED
    BY <1>7, <2>1, <2>2, <2>3
<1>11. QED
  BY <1>2, <1>3, <1>4, <1>5, <1>8, <1>9, <1>10 DEF SameFavorites

LEMMA EventsAgree == ASSUME StoragesInv, ~Rejected PROVE SameEvents
<1>1. mem["experiences"] = pg["experiences"] /\ mem["rsvps"] = pg["rsvps"]
  BY Known DEF Names
<1>a. ASSUME NEW ids \in SUBSET DOMAIN pg.experiences
      PROVE  ListsRows(Mem!LeastFirst(mem, "experiences", ids, "startTime"), ids)
  <2>1. Mem!LeastFirst(mem, "experiences", ids, "startTime")
          = LeastFirst(mem, "experiences", ids, "startTime")
    BY SharedReads
  <2>2. LeastFirst(mem, "experiences", ids, "startTime")
          = LeastFirst(pg, "experiences", ids, "startTime")
    BY <1>1 DEF LeastFirst, Greatest
  <2>3. QED
    BY <2>1, <2>2, AllAreListed
<1>b. ListsRows(Mem!GetAllExperiences(mem), Pg!GetAllExperiences(pg))
  BY <1>1, <1>a DEF Mem!GetAllExperiences, Pg!GetAllExperiences
<1>2. ASSUME NEW team
      PROVE  ListsRows(Mem!GetExperiencesByTeamId(mem, team), Pg!GetExperiencesByTeamId(pg, team))
  <2> DEFINE ids == {id \in DOMAIN pg.experiences : pg.experiences[id].teamId = team}
  <2>1. Mem!GetExperiencesByTeamId(mem, team)
          = Mem!LeastFirst(mem, "experiences", ids, "startTime")
    BY <1>1 DEF Mem!GetExperiencesByTeamId, Mem!Where
  <2>2. Pg!GetExperiencesByTeamId(pg, team) = ids
    BY DEF Pg!GetExperiencesByTeamId, Pg!Where
  <2>3. ids \in SUBSET DOMAIN pg.experiences
    OBVIOUS
  <2> HIDE DEF ids
  <2>4. QED
    BY <1>a, <2>1, <2>2, <2>3
<1>3. ASSUME NEW id PROVE Mem!GetRsvpCount(mem, id) = Pg!GetRsvpCount(pg, id)
  <2>1. Mem!GetRsvpsByExperienceId(mem, id) = Pg!GetRsvpsByExperienceId(pg, id)
    BY <1>1 DEF Mem!GetRsvpsByExperienceId, Pg!GetRsvpsByExperienceId, Mem!Where, Pg!Where
  <2>2. \A ids : Mem!Cardinality(ids) = Pg!Cardinality(ids)
    BY Zenon DEF Mem!Cardinality, Pg!Cardinality
  <2>3. QED
    BY <2>1, <2>2 DEF Mem!GetRsvpCount, Pg!GetRsvpCount
<1>4. ASSUME NEW id, NEW user PROVE Mem!HasRsvp(mem, id, user) = Pg!HasRsvp(pg, id, user)
  BY <1>1 DEF Mem!HasRsvp, Pg!HasRsvp, Mem!RsvpsOf, Mem!Where
<1>5. ASSUME NEW user PROVE Mem!GetRsvpsByUserId(mem, user) = Pg!GetRsvpsByUserId(pg, user)
  BY <1>1 DEF Mem!GetRsvpsByUserId, Pg!GetRsvpsByUserId, Mem!Where, Pg!Where
<1>6. QED
  BY <1>1, <1>b, <1>2, <1>3, <1>4, <1>5 DEF SameEvents

LEMMA ArticlesAgree == ASSUME StoragesInv, ~Rejected PROVE SameArticles
<1>1. mem["articles"] = pg["articles"] /\ mem["classes"] = pg["classes"]
  BY Known DEF Names
<1>2. Mem!All = All /\ Pg!All = All
  BY DEF Mem!All, Pg!All, All
<1>3. ASSUME NEW team, NEW limit
      PROVE  Mem!GetArticlesByTeam(mem, team, limit) = Pg!GetArticlesByTeam(pg, team, limit)
  BY <1>1, ReadAlike
     DEF Mem!GetArticlesByTeam, Pg!GetArticlesByTeam, Mem!Living, Mem!Where, Pg!Where
<1>4. ASSUME NEW team, NEW category, NEW limit
      PROVE  Mem!GetArticlesByTeamAndCategory(mem, team, category, limit)
               = Pg!GetArticlesByTeamAndCategory(pg, team, category, limit)
  BY <1>1, ReadAlike
     DEF Mem!GetArticlesByTeamAndCategory, Pg!GetArticlesByTeamAndCategory, Mem!Living,
         Mem!Where, Pg!Where
<1>5. ASSUME NEW team, NEW cutoff
      PROVE  Mem!GetRecentArticles(mem, team, cutoff) = Pg!GetRecentArticles(pg, team, cutoff)
  BY <1>1, <1>2, ReadAlike
     DEF Mem!GetRecentArticles, Pg!GetRecentArticles, Mem!Living, Mem!Where, Pg!Where
<1>6. ASSUME NEW limit
      PROVE  Mem!GetUnprocessedArticles(mem, limit) = Pg!GetUnprocessedArticles(pg, limit)
  BY <1>1, ReadAlike
     DEF Mem!GetUnprocessedArticles, Pg!GetUnprocessedArticles, Mem!Living, Mem!Where, Pg!Where
<1>7. ASSUME NEW url
      PROVE  Mem!GetArticleBySourceUrl(mem, url) = Pg!GetArticleBySourceUrl(pg, url)
  BY <1>1, ReadAlike
     DEF Mem!GetArticleBySourceUrl, Pg!GetArticleBySourceUrl, Mem!Where, Pg!Where
<1>8. ASSUME NEW id
      PROVE  Mem!GetClassificationsByArticle(mem, id) = Pg!GetClassificationsByArticle(pg, id)
  BY <1>1, <1>2, ReadAlike
     DEF Mem!GetClassificationsByArticle, Pg!GetClassificationsByArticle, Mem!Where, Pg!Where
<1>9. QED
  BY <1>3, <1>4, <1>5, <1>6, <1>7, <1>8 DEF SameArticles

LEMMA SourcesAgree == ASSUME StoragesInv, ~Rejected PROVE SameSources
<1>1. mem["indexes"] = pg["indexes"] /\ mem["sources"] = pg["sources"]
  BY Known DEF Names
<1>2. ASSUME NEW team PROVE Mem!GetBM25IndexByTeam(mem, team) = Pg!GetBM25IndexByTeam(pg, team)
  BY <1>1, ReadAlike
     DEF Mem!GetBM25IndexByTeam, Pg!GetBM25IndexByTeam, Mem!IndexesOf, Mem!Where, Pg!Where
<1>3. ASSUME NEW name
      PROVE  Mem!GetNewsSourceByName(mem, name) = Pg!GetNewsSourceByName(pg, name)
  BY <1>1, ReadAlike
     DEF Mem!GetNewsSourceByName, Pg!GetNewsSourceByName, Mem!Where, Pg!Where
<1>4. Mem!GetActiveNewsSources(mem) = Pg!GetActiveNewsSources(pg)
  BY <1>1 DEF Mem!GetActiveNewsSources, Pg!GetActiveNewsSources, Mem!Where, Pg!Where
<1>5. QED
  BY <1>2, <1>3, <1>4 DEF SameSources

\* Games in the table: finitely many, of known teams.
LEMMA GamesAre ==
  ASSUME StoragesInv, ~Rejected
  PROVE  /\ mem["games"] = pg["games"] /\ mem.teams = pg.teams
         /\ IsFiniteSet(DOMAIN pg.games)
         /\ \A id \in DOMAIN pg.games :
              /\ pg.games[id].startTime \in Nat /\ pg.games[id].startTime <= All
              /\ pg.games[id] # Null
              /\ pg.games[id].homeTeamId \in DOMAIN pg.teams
              /\ pg.games[id].awayTeamId \in DOMAIN pg.teams
<1>1. mem["games"] = pg["games"] /\ mem.teams = pg.teams
  BY Known DEF Names
<1>2. FitTable("games", pg.games, DOMAIN pg.teams, clock)
  BY Known DEF Names
<1>3. Scheduled(pg.games, DOMAIN pg.teams)
  BY <1>2 DEF FitTable
<1>4. \A id \in DOMAIN pg.games : pg.games[id] \in Columns["games"]
  BY <1>2, ColumnsAre DEF FitTable
<1>5. \A id \in DOMAIN pg.games : pg.games[id] # Null
  <2>1. "games" \in DOMAIN Columns
    BY ColumnsAre
  <2>2. Null \notin Columns["games"]
    BY <2>1, StoragesAssumption
  <2>3. QED
    BY <1>4, <2>2
<1>6. \A id \in DOMAIN pg.games :
        pg.games[id].startTime \in Nat /\ pg.games[id].startTime <= All
  <2>1. \A id \in DOMAIN pg.games : pg.games[id].startTime \in 0..All
    BY <1>4, ColumnsAre
  <2>2. All \in Nat
    BY DEF All
  <2>3. QED
    BY <2>1, <2>2
<1>7. IsFiniteSet(DOMAIN pg.games)
  BY <1>3 DEF Scheduled
<1>8. \A id \in DOMAIN pg.games : /\ pg.games[id].homeTeamId \in DOMAIN pg.teams
                                  /\ pg.games[id].awayTeamId \in DOMAIN pg.teams
  BY <1>3 DEF Scheduled
<1>9. QED
  BY <1>1, <1>5, <1>6, <1>7, <1>8

\* The newest at home and the newest away are all that the newest of both need be of.
LEMMA GamesOfTeamAgree ==
  ASSUME StoragesInv, ~Rejected, NEW team, NEW limit \in Nat, NEW since, NEW until
  PROVE  Pg!GetGamesByTeamId(pg, team, limit, since, until)
           \in (SUBSET Mem!GetGamesByTeamId(mem, team, limit, since, until)) \ {{}}
<1> DEFINE window == {g \in DOMAIN pg.games : /\ pg.games[g].startTime >= since
                                              /\ pg.games[g].startTime <= until}
           atHome == {g \in window : pg.games[g].homeTeamId = team}
           isAway == {g \in window : pg.games[g].awayTeamId = team}
           Newest(ids) == Greatest(pg, "games", ids, "startTime", limit)
           merges == {Newest(SeqSet(home) \cup SeqSet(away)) :
                        home \in Newest(atHome), away \in Newest(isAway)}
           nested == UNION merges
<1>1. mem["games"] = pg["games"]
  BY GamesAre
<1>2. Mem!GetGamesByTeamId(mem, team, limit, since, until) = Newest(atHome \cup isAway)
  <2>1. Mem!GamesOf(mem, {team}, since, until) = atHome \cup isAway
    BY <1>1 DEF Mem!GamesOf, Mem!Where
  <2> HIDE DEF atHome, isAway
  <2>2. QED
    BY <1>1, <2>1, ReadAlike DEF Mem!GetGamesByTeamId
<1>3. Pg!GetGamesByTeamId(pg, team, limit, since, until) = nested
  <2> DEFINE found == Pg!Where(pg, "games", LAMBDA g : g.startTime >= since /\ g.startTime <= until)
             Of(side) == {g \in found : pg.games[g][side] = team}
             PgNewest(ids) == Pg!Greatest(pg, "games", ids, "startTime", limit)
  <2>1. Of("homeTeamId") = atHome /\ Of("awayTeamId") = isAway
    BY DEF Pg!Where
  <2>2. \A ids : PgNewest(ids) = Newest(ids)
    BY <1>1, ReadAlike
  <2>3. \A list : Pg!SeqSet(list) = SeqSet(list)
    BY DEF Pg!SeqSet, SeqSet
  <2>4. Pg!GetGamesByTeamId(pg, team, limit, since, until)
          = UNION {PgNewest(Pg!SeqSet(home) \cup Pg!SeqSet(away)) :
                     home \in PgNewest(Of("homeTeamId")), away \in PgNewest(Of("awayTeamId"))}
    BY DEF Pg!GetGamesByTeamId
  <2> HIDE DEF Of, atHome, isAway, Newest, PgNewest
  <2>5. \A home, away : PgNewest(Pg!SeqSet(home) \cup Pg!SeqSet(away))
                          = Newest(SeqSet(home) \cup SeqSet(away))
    BY <2>2, <2>3
  <2>6. PgNewest(Of("homeTeamId")) = Newest(atHome) /\ PgNewest(Of("awayTeamId")) = Newest(isAway)
    BY <2>1, <2>2
  <2>7. merges = {PgNewest(Pg!SeqSet(home) \cup Pg!SeqSet(away)) :
                    home \in Newest(atHome), away \in Newest(isAway)}
    <3> DEFINE pgMerges == {PgNewest(Pg!SeqSet(home) \cup Pg!SeqSet(away)) :
                              home \in Newest(atHome), away \in Newest(isAway)}
    <3>1. \A e : e \in merges <=> \E home \in Newest(atHome), away \in Newest(isAway) :
                                  e = Newest(SeqSet(home) \cup SeqSet(away))
      OBVIOUS
    <3>2. \A e : e \in pgMerges <=> \E home \in Newest(atHome), away \in Newest(isAway) :
                                    e = PgNewest(Pg!SeqSet(home) \cup Pg!SeqSet(away))
      OBVIOUS
    <3> HIDE DEF merges, pgMerges
    <3>3. \A e : e \in merges <=> e \in pgMerges
      <4>1. ASSUME NEW e \in merges PROVE e \in pgMerges
        <5>1. PICK home \in Newest(atHome), away \in Newest(isAway) :
                e = Newest(SeqSet(home) \cup SeqSet(away))
          BY <3>1
        <5>2. e = PgNewest(Pg!SeqSet(home) \cup Pg!SeqSet(away))
          BY <2>5, <5>1
        <5>3. QED
          BY <3>2, <5>2
      <4>2. ASSUME NEW e \in pgMerges PROVE e \in merges
        <5>1. PICK home \in Newest(atHome), away \in Newest(isAway) :
                e = PgNewest(Pg!SeqSet(home) \cup Pg!SeqSet(away))
          BY <3>2
        <5>2. e = Newest(SeqSet(home) \cup SeqSet(away))
          BY <2>5, <5>1
        <5>3. QED
          BY <3>1, <5>2
      <4>3. QED
        BY <4>1, <4>2
    <3>4. merges = pgMerges
      BY <3>3
    <3>5. QED
      BY <3>4 DEF pgMerges
  <2> HIDE DEF merges
  <2>8. QED
    BY <2>4, <2>6, <2>7
<1>4. /\ IsFiniteSet(atHome) /\ IsFiniteSet(isAway)
      /\ \A id \in atHome \cup isAway : pg["games"][id]["startTime"] \in Nat
  BY GamesAre, FS_Subset
<1> HIDE DEF window, atHome, isAway
<1>a. \A list : list \in nested <=>
        \E home \in Newest(atHome), away \in Newest(isAway) :
          list \in Newest(SeqSet(home) \cup SeqSet(away))
  <2> HIDE DEF Newest
  <2>1. \A e : e \in merges <=> \E home \in Newest(atHome), away \in Newest(isAway) :
                                e = Newest(SeqSet(home) \cup SeqSet(away))
    OBVIOUS
  <2> HIDE DEF merges
  <2>2. \A list : list \in nested <=> \E e \in merges : list \in e
    OBVIOUS
  <2>3. ASSUME NEW list, list \in nested
        PROVE  \E home \in Newest(atHome), away \in Newest(isAway) :
                 list \in Newest(SeqSet(home) \cup SeqSet(away))
    <3>1. PICK e \in merges : list \in e
      BY <2>2, <2>3
    <3>2. PICK home \in Newest(atHome), away \in Newest(isAway) :
            e = Newest(SeqSet(home) \cup SeqSet(away))
      BY <2>1, <3>1
    <3>3. QED
      BY <3>1, <3>2
  <2>4. ASSUME NEW list, NEW home \in Newest(atHome), NEW away \in Newest(isAway),
               list \in Newest(SeqSet(home) \cup SeqSet(away))
        PROVE  list \in nested
    <3>1. Newest(SeqSet(home) \cup SeqSet(away)) \in merges
      BY <2>1
    <3>2. QED
      BY <2>2, <2>4, <3>1
  <2> HIDE DEF nested
  <2>5. QED
    BY <2>3, <2>4
<1>5. ASSUME NEW home \in Newest(atHome), NEW away \in Newest(isAway)
      PROVE  /\ Newest(SeqSet(home) \cup SeqSet(away)) # {}
             /\ Newest(SeqSet(home) \cup SeqSet(away)) \subseteq Newest(atHome \cup isAway)
  <2> DEFINE merged == SeqSet(home) \cup SeqSet(away)
  <2>1. /\ SeqSet(home) \subseteq atHome /\ IsFiniteSet(SeqSet(home))
        /\ SeqSet(away) \subseteq isAway /\ IsFiniteSet(SeqSet(away))
    BY <1>4, CutHas
  <2>2. IsFiniteSet(merged) /\ \A id \in merged : pg["games"][id]["startTime"] \in Nat
    BY <1>4, <2>1, FS_Union
  <2>3. Newest(merged) # {}
    <3> HIDE DEF merged
    <3>1. QED
      BY <2>2, GreatestExist
  <2>4. Newest(merged) \subseteq Newest(atHome \cup isAway)
    BY <1>4, TopOfTops
  <2>5. QED
    BY <2>3, <2>4
<1>6. Newest(atHome) # {} /\ Newest(isAway) # {}
  BY <1>4, GreatestExist
<1> HIDE DEF nested, Newest
<1>7. nested # {}
  <2>1. PICK home \in Newest(atHome), away \in Newest(isAway) : TRUE
    BY <1>6
  <2>2. PICK list : list \in Newest(SeqSet(home) \cup SeqSet(away))
    BY <1>5
  <2>3. list \in nested
    BY <1>a, <2>2
  <2>4. QED
    BY <2>3
<1>8. nested \subseteq Newest(atHome \cup isAway)
  BY <1>a, <1>5
<1>9. QED
  BY <1>2, <1>3, <1>7, <1>8

LEMMA LatestScoreAgrees ==
  ASSUME StoragesInv, ~Rejected, NEW team
  PROVE  Mem!GetLatestTeamScore(mem, team) = Pg!GetLatestTeamScore(pg, team)
<1> DEFINE ids == {g \in DOMAIN pg.games : \/ pg.games[g].homeTeamId = team
                                           \/ pg.games[g].awayTeamId = team}
           newest == Greatest(pg, "games", ids, "startTime", 1)
<1>1. mem["games"] = pg["games"] /\ mem.games = pg.games /\ mem.teams = pg.teams
  BY GamesAre
<1>2. Mem!All = All
  BY DEF Mem!All, All
<1>3. Mem!GetGamesByTeamId(mem, team, 1, 0, Mem!All) = newest
  <2>1. Mem!GamesOf(mem, {team}, 0, Mem!All) = ids
    BY <1>1, <1>2, GamesAre DEF Mem!GamesOf, Mem!Where
  <2> HIDE DEF ids
  <2>2. QED
    BY <1>1, <2>1, ReadAlike DEF Mem!GetGamesByTeamId
<1>4. Pg!Greatest(pg, "games",
                  Pg!Where(pg, "games", LAMBDA g : g.homeTeamId = team \/ g.awayTeamId = team),
                  "startTime", 1) = newest
  BY <1>1, ReadAlike DEF Pg!Where
<1>5. ASSUME NEW last \in newest, last # <<>> PROVE last[1] \in DOMAIN pg.games
  <2>1. ids \subseteq DOMAIN pg.games
    OBVIOUS
  <2> HIDE DEF ids
  <2>2. IsFiniteSet(ids)
    BY <2>1, GamesAre, FS_Subset
  <2>3. last \in Seq(ids)
    BY <2>2, GreatestAreFound
  <2> HIDE DEF newest
  <2>4. last[1] \in ids
    BY <1>5, <2>3
  <2>5. QED
    BY <2>1, <2>4
<1> HIDE DEF newest, ids
<1>6. ASSUME NEW last \in newest
      PROVE  Mem!LatestScore(mem, team, last) = Pg!LatestScore(pg, team, last)
  <2>1. CASE last = <<>>
    BY <2>1 DEF Mem!LatestScore, Pg!LatestScore
  <2>2. CASE last # <<>>
    <3>1. /\ pg.games[last[1]].homeTeamId \in DOMAIN pg.teams
          /\ pg.games[last[1]].awayTeamId \in DOMAIN pg.teams
      BY <1>5, <2>2, GamesAre
    <3>2. QED
      BY <1>1, <2>2, <3>1 DEF Mem!LatestScore, Pg!LatestScore
  <2>3. QED
    BY <2>1, <2>2
<1>7. Mem!GetLatestTeamScore(mem, team) = {Mem!LatestScore(mem, team, last) : last \in newest}
  BY <1>3 DEF Mem!GetLatestTeamScore
<1>8. Pg!GetLatestTeamScore(pg, team) = {Pg!LatestScore(pg, team, last) : last \in newest}
  BY <1>4 DEF Pg!GetLatestTeamScore
<1>9. QED
  BY <1>6, <1>7, <1>8

LEMMA GamesAgree == ASSUME StoragesInv, ~Rejected PROVE SameGames
<1>1. mem["games"] = pg["games"]
  BY GamesAre
<1>2. ASSUME NEW id, NEW pts
      PROVE  Mem!HasScoreChanged(mem, id, pts, 0) = Pg!HasScoreChanged(pg, id, pts, 0)
  <2>1. Mem!Find(mem, "games", id) = Find(pg, "games", id)
    BY <1>1, ReadAlike
  <2>2. QED
    BY <2>1, GamesAre DEF Mem!HasScoreChanged, Pg!HasScoreChanged, Find
<1>3. ASSUME NEW limit, NEW since, NEW teams, teams # {}
      PROVE  Mem!GetGamesByTeamIds(mem, teams, limit, since, All)
               = Pg!GetGamesByTeamIds(pg, teams, limit, since, All)
  <2> DEFINE ids == {g \in DOMAIN pg.games :
                       /\ pg.games[g].homeTeamId \in teams \/ pg.games[g].awayTeamId \in teams
                       /\ pg.games[g].startTime >= since /\ pg.games[g].startTime <= All}
  <2>1. Mem!GamesOf(mem, teams, since, All) = ids
    BY <1>1 DEF Mem!GamesOf, Mem!Where
  <2>2. Pg!Where(pg, "games", LAMBDA g : /\ g.homeTeamId \in teams \/ g.awayTeamId \in teams
                                         /\ g.startTime >= since /\ g.startTime <= All) = ids
    BY DEF Pg!Where
  <2> HIDE DEF ids
  <2>3. Mem!GetGamesByTeamIds(mem, teams, limit, since, All)
          = Greatest(pg, "games", ids, "startTime", limit)
    BY <1>1, <1>3, <2>1, ReadAlike DEF Mem!GetGamesByTeamIds
  <2>4. Pg!GetGamesByTeamIds(pg, teams, limit, since, All)
          = Greatest(pg, "games", ids, "startTime", limit)
    BY <1>1, <1>3, <2>2, ReadAlike DEF Pg!GetGamesByTeamIds
  <2>5. QED
    BY <2>3, <2>4
<1>4. ASSUME NEW limit \in 1..3, NEW since, NEW team
      PROVE  Pg!GetGamesByTeamId(pg, team, limit, since, All)
               \in (SUBSET Mem!GetGamesByTeamId(mem, team, limit, since, All)) \ {{}}
  <2>1. limit \in Nat
    OBVIOUS
  <2>2. QED
    BY <2>1, GamesOfTeamAgree
<1>5. \A limit \in 1..3, since \in 0..2 :
        /\ \A team \in TeamIds :
             Pg!GetGamesByTeamId(pg, team, limit, since, All)
               \in (SUBSET Mem!GetGamesByTeamId(mem, team, limit, since, All)) \ {{}}
        /\ \A teams \in (SUBSET TeamIds) \ {{}} :
             Mem!GetGamesByTeamIds(mem, teams, limit, since, All)
               = Pg!GetGamesByTeamIds(pg, teams, limit, since, All)
  <2> TAKE limit \in 1..3, since \in 0..2
  <2>1. ASSUME NEW team \in TeamIds
        PROVE  Pg!GetGamesByTeamId(pg, team, limit, since, All)
                 \in (SUBSET Mem!GetGamesByTeamId(mem, team, limit, since, All)) \ {{}}
    BY <1>4
  <2>2. ASSUME NEW teams \in (SUBSET TeamIds) \ {{}}
        PROVE  Mem!GetGamesByTeamIds(mem, teams, limit, since, All)
                 = Pg!GetGamesByTeamIds(pg, teams, limit, since, All)
    <3>1. teams # {}
      OBVIOUS
    <3>2. QED
      BY <1>3, <3>1
  <2>3. QED
    BY <2>1, <2>2
<1>6. \A team \in TeamIds : Mem!GetLatestTeamScore(mem, team) = Pg!GetLatestTeamScore(pg, team)
  BY LatestScoreAgrees
<1>7. QED
  BY <1>2, <1>5, <1>6 DEF SameGames

\* Every query is answered by PostgreSQL as MemStorage may answer it, in whatever order
\* where it asks for none, from the start, and every write that it accepts gets the same
\* answer (storage.ts and pgStorage.ts).
THEOREM TestsSpeakForPostgres == StoragesSpec => [](SameAnswers /\ (Rejected \/ SameReads))
<1>1. ASSUME StoragesInv PROVE SameAnswers /\ (Rejected \/ SameReads)
  <2>1. ASSUME ~Rejected PROVE SameReads
    BY <1>1, <2>1, PeopleAgree, FavoritesAgree, GamesAgree, EventsAgree, ArticlesAgree,
       SourcesAgree DEF SameReads
  <2>2. QED
    BY <1>1, <2>1 DEF SameAnswers, StoragesInv
<1>2. QED
  BY <1>1, StoragesStart, StoragesKeep, PTL DEF StoragesSpec

-----------------------------------------------------------------------------
\* A row that has the columns of data and, beside them, those of another row.
Laid(row, data, old) ==
  /\ \A column \in DOMAIN data : column \in DOMAIN row /\ row[column] = data[column]
  /\ \A column \in DOMAIN old \ DOMAIN data :
       column \in DOMAIN row /\ row[column] = old[column]

\* What has become of a table: nothing, or one row of it was put in.
Same(table, then) == DOMAIN then = DOMAIN table /\ \A id \in DOMAIN table : then[id] = table[id]
With(table, then, id, row) ==
  /\ DOMAIN then = DOMAIN table \cup {id} /\ then[id] = row
  /\ \A other \in DOMAIN table \ {id} : then[other] = table[other]

Blank(row) == /\ {"teams", "done"} \subseteq DOMAIN row
              /\ row.teams = Null /\ row.done = FALSE

\* What the profiles are after an edit, and what it was answered.
Edited(w, who, data, found) ==
  \/ /\ Same(db.profiles, w.db.profiles)
     /\ w.error # Null \/ (found /\ w.answer = Null /\ who \notin DOMAIN db.profiles)
  \/ \E row, old : /\ With(db.profiles, w.db.profiles, who, row) /\ Laid(row, data, old)
                   /\ w.answer = row
                   /\ \/ who \in DOMAIN db.profiles /\ old = db.profiles[who]
                      \/ ~found /\ Blank(old) /\ (store = "pg" => who \notin DOMAIN db.profiles)

\* What an update of a profile does on MemStorage.
LEMMA MemUpdates ==
  ASSUME DOMAIN db = Names, NEW who, NEW data
  PROVE  Edited(M!UpdateUserProfile(db, who, data), who, data, TRUE)
<1> DEFINE w == M!UpdateUserProfile(db, who, data)
<1>1. CASE who \in DOMAIN db.profiles
  <2> DEFINE row == M!Over(data, db.profiles[who])
  <2>1. Laid(row, data, db.profiles[who])
    BY DEF Laid, M!Over
  <2> HIDE DEF row
  <2>2. /\ w.db.profiles = [id \in DOMAIN db.profiles |-> IF id \in {who} THEN M!Over(data, db.profiles[id])
                                                          ELSE db.profiles[id]]
        /\ w.answer = w.db.profiles[who]
    BY <1>1 DEF M!UpdateUserProfile, M!Update, M!Change, M!Done, Names
  <2> HIDE DEF w
  <2>3. With(db.profiles, w.db.profiles, who, row) /\ w.answer = row
    BY <1>1, <2>2 DEF With, row
  <2>4. QED
    BY <1>1, <2>1, <2>3 DEF Edited, w
<1>2. CASE who \notin DOMAIN db.profiles
  <2>1. w.db = db /\ w.answer = Null
    BY <1>2 DEF M!UpdateUserProfile, M!Update, M!Done, Names
  <2>2. QED
    BY <1>2, <2>1 DEF Edited, Same
<1>3. QED
  BY <1>1, <1>2

\* What an update of a profile does on PostgreSQL.
LEMMA PgUpdates ==
  ASSUME DOMAIN db = Names, NEW who, NEW data
  PROVE  Edited(P!UpdateUserProfile(db, who, data), who, data, TRUE)
<1> DEFINE w == P!UpdateUserProfile(db, who, data)
           row == P!Over(data, db.profiles[who])
<1>1. Laid(row, data, db.profiles[who])
  BY DEF Laid, P!Over
<1> HIDE DEF row
<1>2. /\ w.db.profiles = [id \in DOMAIN db.profiles |-> IF id \in {who} THEN P!Over(data, db.profiles[id])
                                                        ELSE db.profiles[id]]
      /\ w.answer = IF who \in DOMAIN db.profiles THEN row ELSE Null
  BY DEF P!UpdateUserProfile, P!Update, P!Change, P!Done, Names, row
<1> HIDE DEF w
<1>3. CASE who \in DOMAIN db.profiles
  <2>1. With(db.profiles, w.db.profiles, who, row) /\ w.answer = row
    BY <1>2, <1>3 DEF With, row
  <2>2. QED
    BY <1>1, <1>3, <2>1 DEF Edited, w
<1>4. CASE who \notin DOMAIN db.profiles
  <2>1. Same(db.profiles, w.db.profiles) /\ w.answer = Null
    BY <1>2, <1>4 DEF Same
  <2>2. QED
    BY <1>4, <2>1 DEF Edited, w
<1>5. QED
  BY <1>3, <1>4

\* What a creation of a profile does on MemStorage, which replaces one that is there.
LEMMA MemCreates ==
  ASSUME DOMAIN db = Names, store = "mem", NEW who, NEW data
  PROVE  Edited(M!CreateUserProfile(db, who, data), who, data, FALSE)
<1> DEFINE w == M!CreateUserProfile(db, who, data)
           old == [name |-> Null, sports |-> Null, teams |-> Null, done |-> FALSE]
           row == M!Over(data, old)
<1>1. Laid(row, data, old)
  BY DEF Laid, M!Over
<1>2. Blank(old)
  BY DEF Blank
<1>3. /\ w.db.profiles = [i \in DOMAIN db.profiles \cup {who} |-> IF i = who THEN row ELSE db.profiles[i]]
      /\ w.answer = row
  BY DEF M!CreateUserProfile, M!Insert, M!Put, M!Done, Names
<1> HIDE DEF w, row, old
<1>4. With(db.profiles, w.db.profiles, who, row) /\ w.answer = row
  BY <1>3 DEF With
<1>5. QED
  BY <1>1, <1>2, <1>4 DEF Edited, w

\* What a creation of a profile does on PostgreSQL, which rejects a second one.
LEMMA PgCreates ==
  ASSUME DOMAIN db = Names, NEW who, NEW data
  PROVE  Edited(P!CreateUserProfile(db, who, data), who, data, FALSE)
<1> DEFINE w == P!CreateUserProfile(db, who, data)
           old == [name |-> Null, sports |-> Null, teams |-> Null, done |-> FALSE]
           row == P!Over(data, old)
<1>1. Laid(row, data, old)
  BY DEF Laid, P!Over
<1>2. Blank(old)
  BY DEF Blank
<1> HIDE DEF row, old
<1>3. CASE P!Repeats(db, "profiles", who, row) \/ P!Dangles(db, "profiles", row)
  <2>1. w.db = db /\ w.error \in {P!Conflict, P!Reference}
    BY <1>3 DEF P!CreateUserProfile, P!Insert, P!Throw, row, old
  <2>2. w.error # Null
    BY <2>1, ApiAssumption DEF ApiAssumption
  <2>3. QED
    BY <2>1, <2>2 DEF Edited, Same
<1>4. CASE ~P!Repeats(db, "profiles", who, row) /\ ~P!Dangles(db, "profiles", row)
  <2>1. who \notin DOMAIN db.profiles
    BY <1>4 DEF P!Repeats
  <2>2. w = P!Done(P!Put(db, "profiles", who, row), row)
    BY <1>4 DEF P!CreateUserProfile, P!Insert, row, old
  <2>3. /\ w.db.profiles = [i \in DOMAIN db.profiles \cup {who} |-> IF i = who THEN row ELSE db.profiles[i]]
        /\ w.answer = row
    BY <2>2 DEF P!Put, P!Done, Names
  <2> HIDE DEF w
  <2>4. With(db.profiles, w.db.profiles, who, row) /\ w.answer = row
    BY <2>3 DEF With
  <2>5. QED
    BY <1>1, <1>2, <2>1, <2>4 DEF Edited, w
<1>5. QED
  BY <1>3, <1>4

-----------------------------------------------------------------------------
(***************************************************************************)
(* Api: what the writes of the handlers do to the tables.                  *)
(***************************************************************************)
Writing == {"upsert", "onboarded", "patch", "register", "createUser", "createTeam", "createGame",
            "rsvp", "unrsvp", "createExperience", "patchExperience", "deleteExperience", "generate"}

\* No row of another's answers is written: only those that were there are left.
Fewer(table, then) == DOMAIN then \subseteq DOMAIN table /\ \A id \in DOMAIN then : then[id] = table[id]

\* The tables of interest after a write.
ProfilesAfter(c, w) ==
  IF c.ask.op \in Edits THEN Edited(w, c.ask.who, c.ask.data, c.ask.op = "upsert" => c.found)
  ELSE w.db.profiles = db.profiles
RsvpsAfter(c, w) ==
  IF c.ask.op = "rsvp"
  THEN \/ w.db.rsvps = db.rsvps
       \/ With(db.rsvps, w.db.rsvps, serial, [experienceId |-> c.ask.id, userId |-> c.ask.who])
  ELSE Fewer(db.rsvps, w.db.rsvps)
GamesAfter(c, w) ==
  \/ Same(db.games, w.db.games)
  \/ c.ask.op = "createGame" /\ With(db.games, w.db.games, c.ask.game, c.ask.row)

\* What a write of one table does to the tables.
WritesOnly(w, table) == DOMAIN w.db = Names /\ \A other \in Names \ {table} : w.db[other] = db[other]

\* The writes of MemStorage touch one table.
LEMMA MemWrites ==
  ASSUME DOMAIN db = Names, NEW table \in Names, NEW id, NEW row, NEW data
  PROVE  /\ WritesOnly(M!Insert(db, table, id, row), table)
         /\ With(db[table], M!Insert(db, table, id, row).db[table], id, row)
         /\ WritesOnly(M!Update(db, table, id, data), table)
BY DEF M!Insert, M!Update, M!Done, M!Put, M!Change, WritesOnly, With

\* The writes of PostgreSQL touch one table.
LEMMA PgWrites ==
  ASSUME DOMAIN db = Names, NEW table \in Names, NEW id, NEW row, NEW data, NEW ids
  PROVE  /\ WritesOnly(P!Insert(db, table, id, row), table)
         /\ \/ P!Insert(db, table, id, row).db = db
            \/ With(db[table], P!Insert(db, table, id, row).db[table], id, row)
         /\ WritesOnly(P!Update(db, table, id, data), table)
         /\ WritesOnly(P!Delete(db, table, ids), table)
         /\ Fewer(db[table], P!Delete(db, table, ids).db[table])
BY DEF P!Insert, P!Update, P!Delete, P!Done, P!Throw, P!Put, P!Drop, P!Change, WritesOnly, With, Fewer

\* The edits of profiles.
LEMMA EditWrites ==
  ASSUME DOMAIN db = Names, store \in {"mem", "pg"}, NEW c, c.ask.op \in Edits
  PROVE  /\ Edited(Written(c), c.ask.who, c.ask.data, c.ask.op = "upsert" => c.found)
         /\ WritesOnly(Written(c), "profiles")
<1>1. /\ WritesOnly(M!UpdateUserProfile(db, c.ask.who, c.ask.data), "profiles")
      /\ WritesOnly(P!UpdateUserProfile(db, c.ask.who, c.ask.data), "profiles")
  BY MemWrites, PgWrites DEF M!UpdateUserProfile, P!UpdateUserProfile, Names
<1>2. /\ WritesOnly(M!CreateUserProfile(db, c.ask.who, c.ask.data), "profiles")
      /\ WritesOnly(P!CreateUserProfile(db, c.ask.who, c.ask.data), "profiles")
  BY MemWrites, PgWrites DEF M!CreateUserProfile, P!CreateUserProfile, Names
<1>3. CASE c.ask.op \in {"patch", "onboarded"}
  <2>1. Written(c) = IF store = "mem" THEN M!UpdateUserProfile(db, c.ask.who, c.ask.data)
                     ELSE P!UpdateUserProfile(db, c.ask.who, c.ask.data)
    BY <1>3 DEF Written
  <2>2. (c.ask.op = "upsert" => c.found) = TRUE
    BY <1>3
  <2>3. QED
    BY <1>1, <2>1, <2>2, MemUpdates, PgUpdates
<1>4. CASE c.ask.op = "upsert" /\ c.found
  <2>1. Written(c) = IF store = "mem" THEN M!UpdateUserProfile(db, c.ask.who, c.ask.data)
                     ELSE P!UpdateUserProfile(db, c.ask.who, c.ask.data)
    BY <1>4 DEF Written
  <2>2. (c.ask.op = "upsert" => c.found) = TRUE
    BY <1>4
  <2>3. QED
    BY <1>1, <2>1, <2>2, MemUpdates, PgUpdates
<1>5. CASE c.ask.op = "upsert" /\ ~c.found
  <2>1. Written(c) = IF store = "mem" THEN M!CreateUserProfile(db, c.ask.who, c.ask.data)
                     ELSE P!CreateUserProfile(db, c.ask.who, c.ask.data)
    BY <1>5 DEF Written
  <2>2. (c.ask.op = "upsert" => c.found) = FALSE
    BY <1>5
  <2>3. QED
    BY <1>2, <2>1, <2>2, MemCreates, PgCreates
<1>6. QED
  BY <1>3, <1>4, <1>5 DEF Edits

\* The other inserts and updates, none of which is of profiles.
Others == Writing \ (Edits \cup {"rsvp", "unrsvp", "createGame", "deleteExperience"})
\* The other writes leave the profiles, the RSVPs and the games alone.
LEMMA OtherWrites ==
  ASSUME DOMAIN db = Names, store \in {"mem", "pg"}, NEW c, c.ask.op \in Others
  PROVE  \E table \in Names \ {"profiles", "rsvps", "games"} : WritesOnly(Written(c), table)
<1> DEFINE a == c.ask
<1>1. CASE a.op \in {"register", "createUser"}
  <2>1. Written(c) = IF store = "mem" THEN M!CreateUser(db, serial, [username |-> a.name])
                     ELSE P!CreateUser(db, serial, [username |-> a.name])
    BY <1>1 DEF Written
  <2>2. WritesOnly(Written(c), "users")
    BY <2>1, MemWrites, PgWrites DEF M!CreateUser, P!CreateUser, Names
  <2>3. QED
    BY <2>2 DEF Names
<1>2. CASE a.op = "createTeam"
  <2>1. Written(c) = IF store = "mem" THEN M!CreateTeam(db, a.team, a.row)
                     ELSE P!CreateTeam(db, a.team, a.row)
    BY <1>2 DEF Written, Developed
  <2>2. WritesOnly(Written(c), "teams")
    BY <2>1, MemWrites, PgWrites DEF M!CreateTeam, P!CreateTeam, Names
  <2>3. QED
    BY <2>2 DEF Names
<1>3. CASE a.op = "createExperience"
  <2> DEFINE row == [teamId |-> a.team, title |-> "party"]
  <2>1. Written(c) = IF store = "mem" THEN M!CreateExperience(db, serial, row)
                     ELSE P!CreateExperience(db, serial, row)
    BY <1>3 DEF Written
  <2>2. WritesOnly(Written(c), "experiences")
    BY <2>1, MemWrites, PgWrites DEF M!CreateExperience, P!CreateExperience, Names
  <2>3. QED
    BY <2>2 DEF Names
<1>4. CASE a.op = "patchExperience"
  <2> DEFINE data == [title |-> "tailgate"]
  <2>1. Written(c) = IF store = "mem" THEN M!UpdateExperience(db, a.id, data)
                     ELSE P!UpdateExperience(db, a.id, data)
    BY <1>4 DEF Written
  <2>2. WritesOnly(Written(c), "experiences")
    BY <2>1, MemWrites, PgWrites DEF M!UpdateExperience, P!UpdateExperience, Names
  <2>3. QED
    BY <2>2 DEF Names
<1>5. CASE a.op = "generate"
  <2> DEFINE row == [teamId |-> a.team, generatedAt |-> serial]
  <2>1. Written(c) = IF store = "mem" THEN M!CreateSummary(db, serial, row)
                     ELSE P!CreateSummary(db, serial, row)
    BY <1>5 DEF Written
  <2>2. WritesOnly(Written(c), "summaries")
    BY <2>1, MemWrites, PgWrites DEF M!CreateSummary, P!CreateSummary, Names
  <2>3. QED
    BY <2>2 DEF Names
<1>6. QED
  BY <1>1, <1>2, <1>3, <1>4, <1>5 DEF Others, Writing, Edits

\* A game is created, or replaced in memory.
LEMMA GameWrites ==
  ASSUME DOMAIN db = Names, store \in {"mem", "pg"}, NEW c, c.ask.op = "createGame"
  PROVE  /\ WritesOnly(Written(c), "games")
         /\ \/ Written(c).db = db
            \/ With(db.games, Written(c).db.games, c.ask.game, c.ask.row)
<1>1. Written(c) = IF store = "mem" THEN M!CreateGame(db, c.ask.game, c.ask.row)
                   ELSE P!CreateGame(db, c.ask.game, c.ask.row)
  BY DEF Written, Developed
<1>2. QED
  BY <1>1, MemWrites, PgWrites DEF M!CreateGame, P!CreateGame, Names

\* An answer to an invitation.
LEMMA RsvpWrites ==
  ASSUME DOMAIN db = Names, store \in {"mem", "pg"}, NEW c, c.ask.op = "rsvp"
  PROVE  /\ WritesOnly(Written(c), "rsvps")
         /\ \/ Written(c).db = db
            \/ With(db.rsvps, Written(c).db.rsvps, serial,
                    [experienceId |-> c.ask.id, userId |-> c.ask.who])
<1> DEFINE row == [experienceId |-> c.ask.id, userId |-> c.ask.who]
<1>1. Written(c) = IF store = "mem" THEN M!CreateRsvp(db, serial, row) ELSE P!CreateRsvp(db, serial, row)
  BY DEF Written
<1> HIDE DEF row
<1>2. QED
  <2>1. /\ WritesOnly(Written(c), "rsvps")
        /\ Written(c).db = db \/ With(db.rsvps, Written(c).db.rsvps, serial, row)
    BY <1>1, MemWrites, PgWrites DEF M!CreateRsvp, P!CreateRsvp, Names
  <2>2. QED
    BY <2>1 DEF row

\* The rows of a user for an experience.
Rsvps(tables, id, who) ==
  {n \in DOMAIN tables.rsvps : tables.rsvps[n].experienceId = id /\ tables.rsvps[n].userId = who}

\* In memory, where the first row is deleted, a user has answered once at most.
OneRsvp(tables) ==
  /\ DOMAIN tables.rsvps \subseteq Nat
  /\ store = "mem" =>
       \A n, m \in DOMAIN tables.rsvps :
         /\ tables.rsvps[n].experienceId = tables.rsvps[m].experienceId
         /\ tables.rsvps[n].userId = tables.rsvps[m].userId
         => n = m

\* An answer is withdrawn: none is left.
LEMMA UnrsvpWrites ==
  ASSUME DOMAIN db = Names, store \in {"mem", "pg"}, OneRsvp(db), NEW c, c.ask.op = "unrsvp"
  PROVE  /\ WritesOnly(Written(c), "rsvps")
         /\ Fewer(db.rsvps, Written(c).db.rsvps)
         /\ Written(c).error = Null => Rsvps(Written(c).db, c.ask.id, c.ask.who) = {}
<1> DEFINE id == c.ask.id
           who == c.ask.who
           w == Written(c)
<1>1. w = IF store = "mem" THEN M!DeleteRsvp(db, id, who) ELSE P!DeleteRsvp(db, id, who)
  BY DEF Written
<1>2. CASE store = "mem"
  <2> DEFINE gone == {M!First(M!RsvpsOf(db, id, who))}
  <2>1. M!RsvpsOf(db, id, who) = Rsvps(db, id, who)
    BY DEF M!RsvpsOf, M!Where, Rsvps
  <2>2. w = M!Done(M!Drop(db, "rsvps", gone), "ok")
    BY <1>1, <1>2 DEF M!DeleteRsvp, M!RsvpsOf
  <2>3. \A n \in Rsvps(db, id, who) : gone = {n}
    <3> TAKE n \in Rsvps(db, id, who)
    <3>1. Rsvps(db, id, who) = {n} /\ n \in Nat
      BY <1>2 DEF Rsvps, OneRsvp
    <3>2. M!First({n}) = n
      BY <3>1 DEF M!First
    <3>3. QED
      BY <2>1, <3>1, <3>2
  <2> HIDE DEF gone
  <2>4. w.db = [db EXCEPT !["rsvps"] = [k \in DOMAIN @ \ gone |-> @[k]]]
    BY <2>2 DEF M!Done, M!Drop
  <2> HIDE DEF w
  <2>5. w.db.rsvps = [k \in DOMAIN db.rsvps \ gone |-> db.rsvps[k]]
    BY <2>4 DEF Names
  <2>6. WritesOnly(w, "rsvps")
    BY <2>4 DEF WritesOnly
  <2>7. Fewer(db.rsvps, w.db.rsvps)
    BY <2>5 DEF Fewer
  <2>8. Rsvps(w.db, id, who) = {}
    BY <2>3, <2>5 DEF Rsvps
  <2>9. QED
    BY <2>6, <2>7, <2>8 DEF w
<1>3. CASE store = "pg"
  <2> DEFINE gone == Rsvps(db, id, who)
  <2>1. w = P!Delete(db, "rsvps", gone)
    BY <1>1, <1>3 DEF P!DeleteRsvp, P!Where, Rsvps
  <2>2. WritesOnly(w, "rsvps") /\ Fewer(db.rsvps, w.db.rsvps)
    BY <2>1, PgWrites DEF Names
  <2>3. CASE P!ReferredTo(db, "rsvps", gone \cap DOMAIN db["rsvps"])
    <3>1. w.error = P!Reference
      BY <2>1, <2>3 DEF P!Delete, P!Throw
    <3>2. w.error # Null
      BY <3>1, ApiAssumption DEF ApiAssumption
    <3>3. QED
      BY <2>2, <3>2
  <2>4. CASE ~P!ReferredTo(db, "rsvps", gone \cap DOMAIN db["rsvps"])
    <3>1. w.db = [db EXCEPT !["rsvps"] = [k \in DOMAIN @ \ gone |-> @[k]]]
      BY <2>1, <2>4 DEF P!Delete, P!Done, P!Drop
    <3>2. w.db.rsvps = [k \in DOMAIN db.rsvps \ gone |-> db.rsvps[k]]
      BY <3>1 DEF Names
    <3> HIDE DEF w
    <3>3. Rsvps(w.db, id, who) = {}
      BY <3>2 DEF Rsvps
    <3>4. QED
      BY <2>2, <3>3 DEF w
  <2>5. QED
    BY <2>3, <2>4
<1>4. QED
  BY <1>2, <1>3

\* An experience is deleted, in memory with the answers to it.
LEMMA DeletionWrites ==
  ASSUME DOMAIN db = Names, store \in {"mem", "pg"}, NEW c, c.ask.op = "deleteExperience"
  PROVE  /\ DOMAIN Written(c).db = Names
         /\ Written(c).db.profiles = db.profiles
         /\ Written(c).db.games = db.games
         /\ Fewer(db.rsvps, Written(c).db.rsvps)
<1> DEFINE w == Written(c)
<1>1. w = IF store = "mem" THEN M!DeleteExperience(db, c.ask.id) ELSE P!DeleteExperience(db, c.ask.id)
  BY DEF Written
<1>2. CASE store = "mem"
  <2> DEFINE ids == M!GetRsvpsByExperienceId(db, c.ask.id)
             first == M!Drop(db, "experiences", {c.ask.id})
  <2>1. w.db = M!Drop(first, "rsvps", ids)
    BY <1>1, <1>2 DEF M!DeleteExperience, M!Done
  <2>2. DOMAIN first = Names /\ \A t \in Names \ {"experiences"} : first[t] = db[t]
    BY DEF M!Drop
  <2> HIDE DEF w, first, ids
  <2>3. /\ DOMAIN w.db = Names
        /\ \A t \in Names \ {"experiences", "rsvps"} : w.db[t] = db[t]
        /\ w.db["rsvps"] = [k \in DOMAIN db["rsvps"] \ ids |-> db["rsvps"][k]]
    BY <2>1, <2>2 DEF M!Drop, Names
  <2>4. QED
    BY <2>3 DEF w, Fewer, Names
<1>3. CASE store = "pg"
  <2>1. WritesOnly(w, "experiences")
    BY <1>1, <1>3, PgWrites DEF P!DeleteExperience, Names
  <2>2. QED
    BY <2>1 DEF WritesOnly, Fewer, Names
<1>4. QED
  BY <1>2, <1>3

\* What any write leaves of the three tables.
LEMMA WriteEffects ==
  ASSUME DOMAIN db = Names, store \in {"mem", "pg"}, OneRsvp(db), NEW c, c.ask.op \in Writing
  PROVE  /\ DOMAIN Written(c).db = Names
         /\ ProfilesAfter(c, Written(c))
         /\ RsvpsAfter(c, Written(c))
         /\ c.ask.op = "unrsvp" /\ Written(c).error = Null
              => Rsvps(Written(c).db, c.ask.id, c.ask.who) = {}
         /\ GamesAfter(c, Written(c))
<1> DEFINE op == c.ask.op
           w == Written(c)
<1>1. CASE op \in Edits
  <2>1. Edited(w, c.ask.who, c.ask.data, op = "upsert" => c.found) /\ WritesOnly(w, "profiles")
    BY <1>1, EditWrites
  <2> HIDE DEF w
  <2>2. DOMAIN w.db = Names /\ w.db.rsvps = db.rsvps /\ w.db.games = db.games
    BY <2>1 DEF WritesOnly, Names
  <2>3. op \notin {"rsvp", "unrsvp", "createGame"}
    BY <1>1 DEF Edits
  <2>4. ProfilesAfter(c, w)
    BY <1>1, <2>1 DEF ProfilesAfter
  <2>5. RsvpsAfter(c, w) /\ GamesAfter(c, w)
    BY <2>2, <2>3 DEF RsvpsAfter, GamesAfter, Fewer, Same
  <2>6. QED
    BY <2>2, <2>3, <2>4, <2>5 DEF w
<1>2. CASE op \in Others
  <2>1. PICK table \in Names \ {"profiles", "rsvps", "games"} : WritesOnly(w, table)
    BY <1>2, OtherWrites
  <2> HIDE DEF w
  <2>2. DOMAIN w.db = Names /\ w.db.rsvps = db.rsvps /\ w.db.games = db.games /\ w.db.profiles = db.profiles
    BY <2>1 DEF WritesOnly, Names
  <2>3. op \notin {"rsvp", "unrsvp", "createGame"} \cup Edits
    BY <1>2 DEF Others
  <2>4. ProfilesAfter(c, w) /\ RsvpsAfter(c, w) /\ GamesAfter(c, w)
    BY <2>2, <2>3 DEF ProfilesAfter, RsvpsAfter, GamesAfter, Fewer, Same
  <2>5. QED
    BY <2>2, <2>3, <2>4 DEF w
<1>3. CASE op = "createGame"
  <2>1. WritesOnly(w, "games") /\ (w.db = db \/ With(db.games, w.db.games, c.ask.game, c.ask.row))
    BY <1>3, GameWrites
  <2> HIDE DEF w
  <2>2. DOMAIN w.db = Names /\ w.db.rsvps = db.rsvps /\ w.db.profiles = db.profiles
    BY <2>1 DEF WritesOnly, Names
  <2>3. ProfilesAfter(c, w) /\ RsvpsAfter(c, w) /\ GamesAfter(c, w)
    BY <1>3, <2>1, <2>2 DEF ProfilesAfter, RsvpsAfter, GamesAfter, Fewer, Same, Edits
  <2>4. QED
    BY <1>3, <2>2, <2>3 DEF w
<1>4. CASE op = "rsvp"
  <2>1. /\ WritesOnly(w, "rsvps")
        /\ \/ w.db = db
           \/ With(db.rsvps, w.db.rsvps, serial, [experienceId |-> c.ask.id, userId |-> c.ask.who])
    BY <1>4, RsvpWrites
  <2> HIDE DEF w
  <2>2. DOMAIN w.db = Names /\ w.db.profiles = db.profiles /\ w.db.games = db.games
    BY <2>1 DEF WritesOnly, Names
  <2>3. ProfilesAfter(c, w) /\ RsvpsAfter(c, w) /\ GamesAfter(c, w)
    BY <1>4, <2>1, <2>2 DEF ProfilesAfter, RsvpsAfter, GamesAfter, Same, Edits
  <2>4. QED
    BY <1>4, <2>2, <2>3 DEF w
<1>5. CASE op = "unrsvp"
  <2>1. /\ WritesOnly(w, "rsvps") /\ Fewer(db.rsvps, w.db.rsvps)
        /\ w.error = Null => Rsvps(w.db, c.ask.id, c.ask.who) = {}
    BY <1>5, UnrsvpWrites
  <2> HIDE DEF w
  <2>2. DOMAIN w.db = Names /\ w.db.profiles = db.profiles /\ w.db.games = db.games
    BY <2>1 DEF WritesOnly, Names
  <2>3. ProfilesAfter(c, w) /\ RsvpsAfter(c, w) /\ GamesAfter(c, w)
    BY <1>5, <2>1, <2>2 DEF ProfilesAfter, RsvpsAfter, GamesAfter, Same, Edits
  <2>4. QED
    BY <2>1, <2>2, <2>3 DEF w
<1>6. CASE op = "deleteExperience"
  <2>1. /\ DOMAIN w.db = Names /\ w.db.profiles = db.profiles /\ w.db.games = db.games
        /\ Fewer(db.rsvps, w.db.rsvps)
    BY <1>6, DeletionWrites
  <2> HIDE DEF w
  <2>2. ProfilesAfter(c, w) /\ RsvpsAfter(c, w) /\ GamesAfter(c, w)
    BY <1>6, <2>1 DEF ProfilesAfter, RsvpsAfter, GamesAfter, Same, Edits
  <2>3. QED
    BY <1>6, <2>1, <2>2 DEF w
<1>7. QED
  BY <1>1, <1>2, <1>3, <1>4, <1>5, <1>6 DEF Others

-----------------------------------------------------------------------------
(***************************************************************************)
(* Api: what is true between the steps.                                    *)
(***************************************************************************)
ProfileOk(row) ==
  /\ {"teams", "done"} \subseteq DOMAIN row
  /\ row.teams = Null \/ IsFiniteSet(row.teams)

\* The tables.
TablesOk(tables) ==
  /\ DOMAIN tables = Names
  /\ OneRsvp(tables)
  /\ \A uid \in DOMAIN tables.profiles : ProfileOk(tables.profiles[uid])
  /\ IsFiniteSet(DOMAIN tables.games)
  /\ \A g \in DOMAIN tables.games : tables.games[g].startTime \in Nat

\* A request is where its handler may be.
CallShaped(c) ==
  DOMAIN c = {"pc", "ask", "teams", "sport", "ids", "rows", "found", "status", "body",
              "contested", "favorites", "overview"}
Routed(c) ==
  /\ c.pc # "idle" => WellAsked(c.ask)
  /\ \/ c.pc \in {"idle", "auth", "over"}
     \/ c.pc = "context" /\ c.ask.op \in InContext
     \/ c.pc = "league" /\ c.ask.op \in Lists \cup {"teamScores", "games"}
     \/ c.pc = "games" /\ c.ask.op \in Scores \cup {"games"}
     \/ c.pc = "list" /\ c.ask.op \in Listing
     \/ c.pc = "look" /\ c.ask.op \in {"read", "upsert", "register", "createUser", "login", "rsvp"} \cup Found
     \/ c.pc = "hash" /\ c.ask.op \in {"register", "createUser"}
     \/ c.pc = "verify" /\ c.ask.op = "login"
     \/ c.pc = "check" /\ c.ask.op = "health"
     \/ c.pc = "write" /\ c.ask.op \in Writing

\* What a handler has looked up is still so when it writes: in memory all of it, on
\* PostgreSQL that there was a profile.
LooksFit(c, tables) ==
  c.pc = "write"
    => /\ c.ask.op = "upsert" /\ c.found => c.ask.who \in DOMAIN tables.profiles
       /\ store = "mem" =>
            /\ c.ask.op = "upsert" => (c.ask.who \in DOMAIN tables.profiles => c.found)
            /\ c.ask.op = "rsvp" => Rsvps(tables, c.ask.id, c.ask.who) = {}

\* An edit that was acknowledged, and what nobody touched of it.
EditFits(c, tables) ==
  (c.pc = "over" /\ c.ask.op \in Edits /\ c.status = 200)
    => \A column \in DOMAIN c.ask.data :
         <<"profile", c.ask.who, column>> \notin c.contested
           => /\ c.ask.who \in DOMAIN tables.profiles
              /\ column \in DOMAIN tables.profiles[c.ask.who]
              /\ tables.profiles[c.ask.who][column] = c.ask.data[column]

RsvpFits(c, tables) ==
  (c.pc = "over" /\ c.ask.op = "unrsvp" /\ c.status = 200)
    => (<<"rsvp", c.ask.who, c.ask.id>> \notin c.contested
          => Rsvps(tables, c.ask.id, c.ask.who) = {})

\* Whoever had favorites all the time is shown games of theirs.
ScoresFit(c) ==
  /\ (c.pc \in {"league", "games"} /\ c.ask.op \in Scores /\ ~c.overview)
       => /\ c.teams # {} /\ IsFiniteSet(c.teams)
          /\ c.teams \subseteq c.favorites /\ c.ids \subseteq c.teams
  /\ (c.pc = "over" /\ c.ask.op \in Scores /\ c.status = 200 /\ ~c.overview)
       => \A i \in DOMAIN c.body :
            {c.body[i].homeTeamId, c.body[i].awayTeamId} \cap c.favorites # {}
Meanwhile(c, tables) ==
  (InFlight(c) /\ c.ask.op \in Scores)
    => /\ FavoritesOf(tables, c.ask.by) \subseteq c.favorites
       /\ ~c.overview => FavoritesOf(tables, c.ask.by) # {}

\* A profile that was answered was there.
BodyFits(c, tables) ==
  (c.pc = "over" /\ c.ask.op \in {"read"} \cup Edits /\ c.status = 200)
    => c.ask.who \in DOMAIN tables.profiles /\ c.body = tables.profiles[c.ask.who]

CallFits(c, tables) ==
  /\ CallShaped(c) /\ Routed(c)
  /\ LooksFit(c, tables) /\ EditFits(c, tables) /\ RsvpFits(c, tables) /\ ScoresFit(c)

\* What a request in flight may change is contested for all that met it.
Meets ==
  \A r, q \in Requests :
    (q # r /\ InFlight(call[q]) /\ call[r].pc # "idle")
      => Touches(call[q].ask) \subseteq call[r].contested

ApiInv ==
  /\ store \in {"mem", "pg"} /\ serial \in Nat /\ DOMAIN call = Requests
  /\ TablesOk(db)
  /\ \A r \in Requests : CallFits(call[r], db) /\ Meanwhile(call[r], db)
  /\ Meets

\* What a step of a handler does to the tables.
ProfilesMove(c, tables) ==
  \/ Same(db.profiles, tables.profiles)
  \/ /\ c.ask.op \in Edits
     /\ \E row, old :
          /\ With(db.profiles, tables.profiles, c.ask.who, row)
          /\ Laid(row, c.ask.data, old)
          /\ \/ c.ask.who \in DOMAIN db.profiles /\ old = db.profiles[c.ask.who]
             \/ c.ask.who \notin DOMAIN db.profiles /\ Blank(old)
RsvpsMove(c, tables) ==
  \/ Fewer(db.rsvps, tables.rsvps)
  \/ /\ c.ask.op = "rsvp"
     /\ store = "mem" => Rsvps(db, c.ask.id, c.ask.who) = {}
     /\ With(db.rsvps, tables.rsvps, serial, [experienceId |-> c.ask.id, userId |-> c.ask.who])
GamesMove(c, tables) ==
  \/ Same(db.games, tables.games)
  \/ c.ask.op = "createGame" /\ With(db.games, tables.games, c.ask.game, c.ask.row)

\* A step of the handler of r leaves the tables so, and its call so.
Moves(r, tables, next) ==
  /\ InFlight(call[r]) /\ Turn(r) /\ next.pc # "idle"
  /\ next.ask = call[r].ask /\ next.contested = call[r].contested
  /\ next.favorites = call[r].favorites /\ next.overview = call[r].overview
  /\ DOMAIN tables = Names
  /\ ProfilesMove(call[r], tables) /\ RsvpsMove(call[r], tables) /\ GamesMove(call[r], tables)
  /\ CallFits(next, tables) /\ BodyFits(next, tables)

\* A step leaves the tables as they should be.
LEMMA TablesKept ==
  ASSUME ApiInv, NEW r \in Requests, NEW tables, NEW next, Moves(r, tables, next)
  PROVE  TablesOk(tables)
<1> DEFINE c == call[r]
           ask == c.ask
<1>0. /\ TablesOk(db) /\ Routed(c) /\ InFlight(c) /\ DOMAIN tables = Names
      /\ ProfilesMove(c, tables) /\ RsvpsMove(c, tables) /\ GamesMove(c, tables)
      /\ serial \in Nat
  BY DEF ApiInv, Moves, CallFits
<1>a. WellAsked(ask)
  BY <1>0 DEF Routed, InFlight
<1> HIDE DEF c, ask
<1> DEFINE who == ask.who
<1>1. \A uid \in DOMAIN tables.profiles : ProfileOk(tables.profiles[uid])
  <2>1. CASE Same(db.profiles, tables.profiles)
    BY <1>0, <2>1 DEF Same, TablesOk
  <2>2. CASE ask.op \in Edits /\ \E row, old :
               /\ With(db.profiles, tables.profiles, who, row)
               /\ Laid(row, ask.data, old)
               /\ \/ who \in DOMAIN db.profiles /\ old = db.profiles[who]
                  \/ who \notin DOMAIN db.profiles /\ Blank(old)
    <3>1. PICK row, old : /\ With(db.profiles, tables.profiles, who, row)
                          /\ Laid(row, ask.data, old)
                          /\ \/ who \in DOMAIN db.profiles /\ old = db.profiles[who]
                             \/ who \notin DOMAIN db.profiles /\ Blank(old)
      BY <2>2
    <3>2. ProfileOk(old)
      BY <1>0, <3>1 DEF TablesOk, ProfileOk, Blank
    <3>3. "teams" \in DOMAIN ask.data => IsFiniteSet(ask.data.teams)
      BY <1>a, <2>2 DEF WellAsked
    <3>4. ProfileOk(row)
      BY <3>1, <3>2, <3>3 DEF Laid, ProfileOk
    <3>5. QED
      BY <1>0, <3>1, <3>4 DEF With, TablesOk
  <2>3. QED
    BY <1>0, <2>1, <2>2 DEF ProfilesMove, ask
<1>2. OneRsvp(tables)
  <2>0. OneRsvp(db)
    BY <1>0 DEF TablesOk
  <2>1. CASE Fewer(db.rsvps, tables.rsvps)
    BY <2>0, <2>1 DEF Fewer, OneRsvp
  <2>2. CASE /\ store = "mem" => Rsvps(db, ask.id, who) = {}
             /\ With(db.rsvps, tables.rsvps, serial, [experienceId |-> ask.id, userId |-> who])
    <3> DEFINE new == [experienceId |-> ask.id, userId |-> who]
    <3>1. new.experienceId = ask.id /\ new.userId = who
      OBVIOUS
    <3> HIDE DEF new
    <3>2. DOMAIN tables.rsvps \subseteq Nat
      BY <1>0, <2>0, <2>2 DEF With, OneRsvp
    <3>3. ASSUME store = "mem", NEW n \in DOMAIN tables.rsvps, NEW m \in DOMAIN tables.rsvps,
                 tables.rsvps[n].experienceId = tables.rsvps[m].experienceId,
                 tables.rsvps[n].userId = tables.rsvps[m].userId
          PROVE  n = m
      <4>1. CASE n # serial /\ m # serial
        BY <2>0, <2>2, <3>3, <4>1 DEF With, OneRsvp
      <4>2. CASE n = serial /\ m # serial
        BY <2>2, <3>1, <3>3, <4>2 DEF With, Rsvps, new
      <4>3. CASE n # serial /\ m = serial
        BY <2>2, <3>1, <3>3, <4>3 DEF With, Rsvps, new
      <4>4. QED
        BY <4>1, <4>2, <4>3
    <3>4. QED
      BY <3>2, <3>3 DEF OneRsvp
  <2>3. QED
    BY <1>0, <2>1, <2>2 DEF RsvpsMove, ask
<1>3. /\ IsFiniteSet(DOMAIN tables.games)
      /\ \A g \in DOMAIN tables.games : tables.games[g].startTime \in Nat
  <2>0. /\ IsFiniteSet(DOMAIN db.games)
        /\ \A g \in DOMAIN db.games : db.games[g].startTime \in Nat
    BY <1>0 DEF TablesOk
  <2>1. CASE Same(db.games, tables.games)
    BY <2>0, <2>1 DEF Same
  <2>2. CASE ask.op = "createGame" /\ With(db.games, tables.games, ask.game, ask.row)
    <3>1. ask.row.startTime \in Nat
      BY <1>a, <2>2 DEF WellAsked
    <3>2. IsFiniteSet(DOMAIN tables.games)
      BY <2>0, <2>2, FS_AddElement DEF With
    <3>3. QED
      BY <2>0, <2>2, <3>1, <3>2 DEF With
  <2>3. QED
    BY <1>0, <2>1, <2>2 DEF GamesMove, ask
<1>4. QED
  BY <1>0, <1>1, <1>2, <1>3 DEF TablesOk

\* The calls of the others fit what it leaves.
LEMMA OthersFit ==
  ASSUME ApiInv, NEW r \in Requests, NEW tables, NEW next, Moves(r, tables, next),
         NEW q \in Requests \ {r}
  PROVE  CallFits(call[q], tables)
<1> DEFINE c == call[r]
           o == call[q]
<1>0. /\ CallFits(o, db) /\ InFlight(c) /\ Turn(r)
      /\ ProfilesMove(c, tables) /\ RsvpsMove(c, tables)
  BY DEF ApiInv, Moves
<1>1. o.pc # "idle" => Touches(c.ask) \subseteq o.contested
  BY <1>0 DEF ApiInv, Meets
<1>2. store = "mem" => o.pc # "write"
  BY <1>0 DEF Turn, Storing
<1> HIDE DEF c, o
<1>4. LooksFit(o, tables)
  <2>1. DOMAIN db.profiles \subseteq DOMAIN tables.profiles
    BY <1>0 DEF ProfilesMove, Same, With
  <2>2. QED
    BY <1>0, <1>2, <2>1 DEF CallFits, LooksFit
<1>5. EditFits(o, tables)
  <2> SUFFICES ASSUME o.pc = "over", o.ask.op \in Edits, o.status = 200, NEW column \in DOMAIN o.ask.data,
                      <<"profile", o.ask.who, column>> \notin o.contested
               PROVE  /\ o.ask.who \in DOMAIN tables.profiles
                      /\ column \in DOMAIN tables.profiles[o.ask.who]
                      /\ tables.profiles[o.ask.who][column] = o.ask.data[column]
    BY DEF EditFits
  <2>1. /\ o.ask.who \in DOMAIN db.profiles
        /\ column \in DOMAIN db.profiles[o.ask.who]
        /\ db.profiles[o.ask.who][column] = o.ask.data[column]
    BY <1>0 DEF CallFits, EditFits
  <2>2. CASE Same(db.profiles, tables.profiles)
    BY <2>1, <2>2 DEF Same
  <2>3. CASE c.ask.op \in Edits /\ \E row, old :
               /\ With(db.profiles, tables.profiles, c.ask.who, row)
               /\ Laid(row, c.ask.data, old)
               /\ \/ c.ask.who \in DOMAIN db.profiles /\ old = db.profiles[c.ask.who]
                  \/ c.ask.who \notin DOMAIN db.profiles /\ Blank(old)
    <3>1. PICK row, old : /\ With(db.profiles, tables.profiles, c.ask.who, row)
                          /\ Laid(row, c.ask.data, old)
                          /\ \/ c.ask.who \in DOMAIN db.profiles /\ old = db.profiles[c.ask.who]
                             \/ c.ask.who \notin DOMAIN db.profiles /\ Blank(old)
      BY <2>3
    <3>2. CASE c.ask.who # o.ask.who
      BY <2>1, <3>1, <3>2 DEF With
    <3>3. CASE c.ask.who = o.ask.who
      <4>1. column \notin DOMAIN c.ask.data
        <5>1. {<<"profile", c.ask.who, k>> : k \in DOMAIN c.ask.data} \subseteq o.contested
          BY <1>1, <2>3 DEF Touches
        <5>2. QED
          BY <3>3, <5>1
      <4>2. old = db.profiles[o.ask.who]
        BY <2>1, <3>1, <3>3
      <4>3. column \in DOMAIN row /\ row[column] = old[column]
        BY <2>1, <3>1, <4>1, <4>2 DEF Laid
      <4>4. QED
        BY <2>1, <3>1, <3>3, <4>2, <4>3 DEF With
    <3>4. QED
      BY <3>2, <3>3
  <2>4. QED
    BY <1>0, <2>2, <2>3 DEF ProfilesMove
<1>6. RsvpFits(o, tables)
  <2> DEFINE id == o.ask.id
             who == o.ask.who
  <2> SUFFICES ASSUME o.pc = "over", o.ask.op = "unrsvp", o.status = 200,
                      <<"rsvp", who, id>> \notin o.contested
               PROVE  Rsvps(tables, id, who) = {}
    BY DEF RsvpFits
  <2>1. Rsvps(db, id, who) = {}
    BY <1>0 DEF CallFits, RsvpFits
  <2> HIDE DEF id, who
  <2>2. CASE Fewer(db.rsvps, tables.rsvps)
    BY <2>1, <2>2 DEF Fewer, Rsvps
  <2>3. CASE /\ c.ask.op = "rsvp"
             /\ With(db.rsvps, tables.rsvps, serial, [experienceId |-> c.ask.id, userId |-> c.ask.who])
    <3>1. <<"rsvp", c.ask.who, c.ask.id>> \in o.contested
      BY <1>1, <2>3 DEF Touches, Edits
    <3>2. ~(c.ask.who = who /\ c.ask.id = id)
      BY <3>1
    <3> DEFINE new == [experienceId |-> c.ask.id, userId |-> c.ask.who]
    <3>3. new.experienceId = c.ask.id /\ new.userId = c.ask.who
      OBVIOUS
    <3>4. With(db.rsvps, tables.rsvps, serial, new)
      BY <2>3
    <3> HIDE DEF new
    <3>5. QED
      BY <2>1, <3>2, <3>3, <3>4 DEF With, Rsvps
  <2>4. QED
    BY <1>0, <2>2, <2>3 DEF RsvpsMove
<1>7. ScoresFit(o)
  BY <1>0 DEF CallFits
<1>8. QED
  BY <1>0, <1>4, <1>5, <1>6, <1>7 DEF CallFits, o

\* What a step notes of a request for scores does not disturb the rest of it.
LEMMA NotedFits ==
  ASSUME NEW c, NEW tables, CallFits(c, tables)
  PROVE  CallFits(Noted(c, tables), tables) /\ Meanwhile(Noted(c, tables), tables)
<1> DEFINE n == Noted(c, tables)
           now == FavoritesOf(tables, c.ask.by)
<1>0. CallShaped(c)
  BY DEF CallFits
<1>1. CASE ~InFlight(c) \/ c.ask.op \notin Scores
  <2>1. n = c
    BY <1>1 DEF Noted
  <2>2. QED
    BY <1>1, <2>1 DEF Meanwhile
<1>2. CASE InFlight(c) /\ c.ask.op \in Scores
  <2> HIDE DEF now
  <2>1. n = [c EXCEPT !.favorites = @ \cup now, !.overview = @ \/ now = {}]
    BY <1>2 DEF Noted, now
  <2>2. /\ CallShaped(n) /\ n.pc = c.pc /\ n.ask = c.ask /\ n.teams = c.teams /\ n.ids = c.ids
        /\ n.found = c.found /\ n.status = c.status /\ n.body = c.body /\ n.contested = c.contested
        /\ n.favorites = c.favorites \cup now /\ n.overview = (c.overview \/ now = {})
    BY <1>0, <2>1 DEF CallShaped
  <2> HIDE DEF n
  <2>3. CallFits(c, tables) /\ c.pc # "over"
    BY <1>2 DEF InFlight
  <2>4. Routed(n) /\ LooksFit(n, tables)
    BY <2>2, <2>3 DEF CallFits, Routed, LooksFit
  <2>5. EditFits(n, tables) /\ RsvpFits(n, tables)
    BY <2>2, <2>3 DEF EditFits, RsvpFits
  <2>6. ScoresFit(n)
    BY <2>2, <2>3 DEF CallFits, ScoresFit
  <2>7. Meanwhile(n, tables)
    BY <2>2 DEF Meanwhile, now
  <2>8. QED
    BY <2>2, <2>4, <2>5, <2>6, <2>7 DEF CallFits, n
<1>3. QED
  BY <1>1, <1>2

\* Noting the favorites changes nothing else of a call.
LEMMA NotedIsAsked ==
  ASSUME NEW c, NEW tables, CallShaped(c)
  PROVE  LET n == Noted(c, tables)
         IN /\ CallShaped(n) /\ n.pc = c.pc /\ n.ask = c.ask /\ n.contested = c.contested
            /\ n.status = c.status /\ n.body = c.body
BY DEF Noted, CallShaped

\* Every step of a handler keeps the invariant.
LEMMA MovesKeep ==
  ASSUME ApiInv, NEW r \in Requests, NEW tables, NEW next, Moves(r, tables, next),
         Goes(r, tables, next), serial' \in Nat
  PROVE  ApiInv'
<1> DEFINE Then(q) == IF q = r THEN next ELSE call[q]
<1>1. /\ db' = tables /\ store' = store
      /\ DOMAIN call' = Requests
      /\ \A q \in Requests : call'[q] = Noted(Then(q), tables)
  BY DEF Goes
<1>2. \A q \in Requests : CallFits(Then(q), tables)
  BY OthersFit DEF Moves
<1>3. \A q \in Requests : CallFits(call'[q], tables) /\ Meanwhile(call'[q], tables)
  BY <1>1, <1>2, NotedFits
<1>4. \A q \in Requests : (CallFits(call[q], db) /\ Meanwhile(call[q], db))'
  <2> TAKE q \in Requests
  <2>1. CallFits(call'[q], tables) /\ Meanwhile(call'[q], tables)
    BY <1>3
  <2>2. (CallShaped(call[q]) /\ Routed(call[q]))'
    BY <2>1 DEF CallFits, CallShaped, Routed
  <2>3. LooksFit(call[q], db)'
    BY <1>1, <2>1 DEF CallFits, LooksFit, Rsvps
  <2>4. (EditFits(call[q], db) /\ RsvpFits(call[q], db))'
    BY <1>1, <2>1 DEF CallFits, EditFits, RsvpFits, Rsvps
  <2>5. ScoresFit(call[q])'
    BY <1>1, <2>1 DEF CallFits, ScoresFit
  <2>6. Meanwhile(call[q], db)'
    BY <1>1, <2>1 DEF Meanwhile, InFlight
  <2>7. QED
    BY <2>2, <2>3, <2>4, <2>5, <2>6 DEF CallFits
<1>5. TablesOk(db)'
  BY <1>1, TablesKept DEF TablesOk, OneRsvp
<1>6. Meets'
  <2> SUFFICES ASSUME NEW p \in Requests, NEW q \in Requests, q # p, InFlight(call'[q]),
                      call'[p].pc # "idle"
               PROVE  Touches(call'[q].ask) \subseteq call'[p].contested
    BY DEF Meets, InFlight
  <2>1. \A s \in Requests : /\ call'[s].pc = Then(s).pc /\ call'[s].ask = Then(s).ask
                            /\ call'[s].contested = Then(s).contested
    BY <1>1, <1>2, NotedIsAsked DEF CallFits
  <2>2. \A s \in Requests : /\ Then(s).ask = call[s].ask /\ Then(s).contested = call[s].contested
                            /\ InFlight(Then(s)) => InFlight(call[s])
                            /\ Then(s).pc # "idle" => call[s].pc # "idle"
    BY DEF Moves, InFlight
  <2>3. InFlight(call[q]) /\ call[p].pc # "idle"
    BY <2>1, <2>2 DEF InFlight
  <2>4. Touches(call[q].ask) \subseteq call[p].contested
    BY <2>3 DEF ApiInv, Meets
  <2>5. QED
    BY <2>1, <2>2, <2>4
<1>7. QED
  BY <1>1, <1>4, <1>5, <1>6 DEF ApiInv

-----------------------------------------------------------------------------
(***************************************************************************)
(* Api: every step of a handler moves so.                                  *)
(***************************************************************************)

\* A request goes on as what it was.
Onward(c, next) ==
  /\ CallShaped(next) /\ next.pc # "idle"
  /\ next.ask = c.ask /\ next.contested = c.contested
  /\ next.favorites = c.favorites /\ next.overview = c.overview

\* A step that writes nothing.
LEMMA ReadMoves ==
  ASSUME ApiInv, NEW r \in Requests, NEW next, InFlight(call[r]), Turn(r),
         Onward(call[r], next), CallFits(next, db), BodyFits(next, db)
  PROVE  Moves(r, db, next)
<1>1. DOMAIN db = Names
  BY DEF ApiInv, TablesOk
<1>2. ProfilesMove(call[r], db) /\ RsvpsMove(call[r], db) /\ GamesMove(call[r], db)
  BY DEF ProfilesMove, RsvpsMove, GamesMove, Same, Fewer
<1>3. QED
  BY <1>1, <1>2 DEF Moves, Onward

\* An answer, and what it must fit when it says that all went well.
LEMMA AnswerIsOnward ==
  ASSUME NEW c, CallShaped(c), NEW status, NEW body
  PROVE  /\ Onward(c, Answer(c, status, body))
         /\ Answer(c, status, body).pc = "over"
         /\ Answer(c, status, body).status = status
         /\ Answer(c, status, body).body = body
BY DEF CallShaped, Answer, Onward

\* A refusal moves nothing.
LEMMA Refuses ==
  ASSUME ApiInv, NEW r \in Requests, InFlight(call[r]), Turn(r), NEW status, NEW body,
         status # 200 \/ call[r].ask.op \notin Edits \cup Scores \cup {"read", "unrsvp"}
  PROVE  Moves(r, db, Answer(call[r], status, body))
<1> DEFINE c == call[r]
           next == Answer(c, status, body)
<1>1. CallShaped(c) /\ Routed(c) /\ c.pc # "idle"
  BY DEF ApiInv, CallFits, InFlight
<1>2. /\ Onward(c, next) /\ next.pc = "over" /\ next.status = status
  BY <1>1, AnswerIsOnward
<1> HIDE DEF next
<1>3. Routed(next)
  BY <1>1, <1>2 DEF Routed, Onward
<1>4. /\ LooksFit(next, db) /\ EditFits(next, db) /\ RsvpFits(next, db) /\ ScoresFit(next)
      /\ BodyFits(next, db)
  BY <1>2 DEF LooksFit, EditFits, RsvpFits, ScoresFit, BodyFits, Onward
<1>5. QED
  BY <1>2, <1>3, <1>4, ReadMoves DEF CallFits, Onward, next

\* A request that goes on to where nothing is known of it yet.
LEMMA Passes ==
  ASSUME ApiInv, NEW r \in Requests, InFlight(call[r]), Turn(r), NEW next,
         Onward(call[r], next), Routed(next), next.pc # "over",
         next.pc \in {"league", "games"} => next.ask.op \notin Scores,
         next.pc = "write" => next.ask.op \notin {"upsert", "rsvp"}
  PROVE  Moves(r, db, next)
<1>1. /\ LooksFit(next, db) /\ EditFits(next, db) /\ RsvpFits(next, db) /\ ScoresFit(next)
      /\ BodyFits(next, db)
  BY DEF LooksFit, EditFits, RsvpFits, ScoresFit, BodyFits
<1>2. QED
  BY <1>1, ReadMoves DEF CallFits, Onward

\* The step of a handler moves the tables and the call of its request.
Moved(r) ==
  /\ serial' \in Nat
  /\ \E tables, next : Moves(r, tables, next) /\ Goes(r, tables, next)

\* The limiters and csurf.
LEMMA RefusalMoves ==
  ASSUME ApiInv, NEW r \in Requests, LimitReached(r) \/ TokenRefused(r)
  PROVE  Moved(r)
<1>1. InFlight(call[r]) /\ Turn(r) /\ serial' \in Nat
  BY DEF LimitReached, TokenRefused, InFlight, ApiInv
<1>2. PICK status \in {429, 403} : Goes(r, db, Answer(call[r], status, Null))
  BY DEF LimitReached, TokenRefused
<1>3. Moves(r, db, Answer(call[r], status, Null))
  BY <1>1, <1>2, Refuses
<1>4. QED
  BY <1>1, <1>2, <1>3 DEF Moved

\* authenticateFirebase.
LEMMA AuthMoves ==
  ASSUME ApiInv, NEW r \in Requests, Authenticates(r)
  PROVE  Moved(r)
<1> DEFINE c == call[r]
           next == [c EXCEPT !.pc = Enters(c.ask.op),
                             !.ids = IF c.ask.op \in News THEN c.ask.teams ELSE @]
<1>1. c.pc = "auth" /\ InFlight(c) /\ Turn(r) /\ serial' \in Nat /\ CallShaped(c) /\ Routed(c)
  BY DEF Authenticates, InFlight, ApiInv, CallFits
<1>2. PICK then \in {Answer(c, 401, Null), Answer(c, 403, Null), next} : Goes(r, db, then)
  BY DEF Authenticates
<1>3. CASE then \in {Answer(c, 401, Null), Answer(c, 403, Null)}
  <2>1. Moves(r, db, then)
    BY <1>1, <1>3, Refuses
  <2>2. QED
    BY <1>1, <1>2, <2>1 DEF Moved
<1>4. CASE then = next
  <2>1. Onward(c, next) \/ Enters(c.ask.op) = "idle"
    BY <1>1 DEF Onward, CallShaped
  <2>2. next.pc = Enters(c.ask.op) /\ next.ask = c.ask
    BY <1>1 DEF CallShaped
  <2> HIDE DEF next, c
  <2>3. c.ask.op \in Operations /\ WellAsked(c.ask)
    BY <1>1 DEF Routed, WellAsked
  <2>4. /\ Enters(c.ask.op) \in {"context", "look", "list", "league", "check", "write"}
        /\ Enters(c.ask.op) = "context" => c.ask.op \in InContext
        /\ Enters(c.ask.op) = "look" => c.ask.op \in {"read", "upsert", "register", "createUser", "login", "rsvp"} \cup Found
        /\ Enters(c.ask.op) = "list" => c.ask.op \in Listing
        /\ Enters(c.ask.op) = "league" => c.ask.op = "games"
        /\ Enters(c.ask.op) = "check" => c.ask.op = "health"
        /\ Enters(c.ask.op) = "write" => c.ask.op \in Writing \ {"upsert", "rsvp"}
    BY <2>3 DEF Enters, InContext, Scores, Lists, Found, Listing, News, Operations, Own, Creating, Open,
         WithToken, Writing
  <2>5. Routed(next)
    BY <2>2, <2>3, <2>4 DEF Routed
  <2>6. "games" \notin Scores
    BY DEF Scores, Lists
  <2>7. Moves(r, db, next)
    <3>1. Onward(c, next)
      BY <2>1, <2>4
    <3>2. /\ next.pc # "over"
          /\ next.pc \in {"league", "games"} => next.ask.op \notin Scores
          /\ next.pc = "write" => next.ask.op \notin {"upsert", "rsvp"}
      BY <2>2, <2>4, <2>6
    <3>3. QED
      BY <1>1, <2>5, <3>1, <3>2, Passes DEF c
  <2>8. QED
    BY <1>1, <1>2, <1>4, <2>7 DEF Moved
<1>5. QED
  BY <1>2, <1>3, <1>4

\* Favorites are finitely many, and those of now are among those noted.
LEMMA FavoritesNow ==
  ASSUME ApiInv, NEW r \in Requests, InFlight(call[r]), call[r].ask.op \in Scores
  PROVE  LET now == FavoritesOf(db, call[r].ask.by)
         IN /\ IsFiniteSet(now) /\ now \subseteq call[r].favorites
            /\ ~call[r].overview => now # {}
<1> DEFINE now == FavoritesOf(db, call[r].ask.by)
<1>1. now \subseteq call[r].favorites /\ (~call[r].overview => now # {})
  BY DEF ApiInv, Meanwhile
<1>2. \A uid \in DOMAIN db.profiles : db.profiles[uid].teams = Null \/ IsFiniteSet(db.profiles[uid].teams)
  BY DEF ApiInv, TablesOk, ProfileOk
<1>3. IsFiniteSet(now)
  BY <1>2, FS_EmptySet DEF FavoritesOf, P!GetUserProfile, P!Find
<1>4. QED
  BY <1>1, <1>3

\* What the checks of loadUserContext leave of the teams that were asked for.
LEMMA ContextMoves ==
  ASSUME ApiInv, NEW r \in Requests, LoadsUserContext(r)
  PROVE  Moved(r)
<1> DEFINE c == call[r]
           profile == P!GetUserProfile(db, c.ask.by)
           favorites == FavoritesOf(db, c.ask.by)
           sport == IF c.ask.sport # Null THEN c.ask.sport
                    ELSE IF profile.sports \in {Null, <<>>} THEN Null ELSE profile.sports[1]
           teams == Authorized(c.ask.teams, favorites)
           written == [c EXCEPT !.pc = "write"]
           own == [c EXCEPT !.teams = favorites, !.sport = c.ask.sport, !.ids = favorites,
                            !.pc = IF c.ask.sport # Null THEN "league" ELSE "games"]
           asked == [c EXCEPT !.teams = teams, !.sport = sport, !.ids = teams,
                              !.pc = IF c.ask.op \in Lists /\ (teams = {} \/ sport # Null)
                                     THEN "league" ELSE "games"]
           refused == {Answer(c, 404, Null), Answer(c, 403, Null)}
<1>1. c.pc = "context" /\ InFlight(c) /\ Turn(r) /\ serial' \in Nat /\ CallShaped(c) /\ Routed(c)
  BY DEF LoadsUserContext, At, InFlight, ApiInv, CallFits
<1>2. c.ask.op \in InContext /\ WellAsked(c.ask)
  BY <1>1 DEF Routed
<1>3. PICK then : /\ Goes(r, db, then)
                  /\ \/ then \in refused
                     \/ c.ask.op = "generate" /\ then = written
                     \/ c.ask.op = "teamScores" /\ then = own
                     \/ c.ask.op \in Scores \ {"teamScores"} /\ teams # Null /\ then = asked
  <2> DEFINE then ==
        IF profile = Null THEN Answer(c, 404, Null)
        ELSE IF c.ask.op = "generate"
          THEN IF c.ask.team \in favorites THEN written ELSE Answer(c, 403, Null)
        ELSE IF c.ask.op = "teamScores"
          THEN IF favorites = {} THEN Answer(c, 404, Null) ELSE own
        ELSE IF teams = Null THEN Answer(c, 403, Null) ELSE asked
  <2>1. Goes(r, db, then)
    BY DEF LoadsUserContext
  <2> HIDE DEF written, own, asked, teams, sport, favorites, profile
  <2>2. c.ask.op \notin {"generate", "teamScores"} => c.ask.op \in Scores \ {"teamScores"}
    BY <1>2 DEF InContext
  <2>3. \/ then \in refused
        \/ c.ask.op = "generate" /\ then = written
        \/ c.ask.op = "teamScores" /\ then = own
        \/ c.ask.op \in Scores \ {"teamScores"} /\ teams # Null /\ then = asked
    BY <2>2
  <2> HIDE DEF then
  <2>4. QED
    BY <2>1, <2>3
<1>4. CASE then \in refused
  <2>1. Moves(r, db, then)
    BY <1>1, <1>4, Refuses
  <2>2. QED
    BY <1>1, <1>3, <2>1 DEF Moved
<1>5. CASE c.ask.op = "generate" /\ then = written
  <2>1. Onward(c, written) /\ written.pc = "write" /\ written.ask = c.ask
    BY <1>1 DEF Onward, CallShaped
  <2> HIDE DEF written, c
  <2>2. Routed(written)
    BY <1>1, <1>5, <2>1 DEF Routed, Writing
  <2>3. Moves(r, db, written)
    BY <1>1, <1>5, <2>1, <2>2, Passes DEF c
  <2>4. QED
    BY <1>1, <1>3, <1>5, <2>3 DEF Moved
<1>6. ASSUME c.ask.op \in Scores, NEW next, Onward(c, next), next.pc \in {"league", "games"},
             next.pc = "league" => c.ask.op \in Lists \cup {"teamScores"},
             next.ids = next.teams, next.teams = favorites \/ (next.teams = teams /\ teams # Null)
      PROVE  Moves(r, db, next)
  <2> HIDE DEF favorites, c
  <2>1. /\ IsFiniteSet(favorites) /\ favorites \subseteq c.favorites
        /\ ~c.overview => favorites # {}
    BY <1>1, <1>6, FavoritesNow DEF favorites, c
  <2>2. IsFiniteSet(c.ask.teams)
    BY <1>2, <1>6 DEF WellAsked
  <2>3. teams # Null => /\ teams \in {c.ask.teams, favorites} /\ teams \subseteq favorites
                        /\ favorites # {} => teams # {}
    BY DEF Authorized
  <2> HIDE DEF teams
  <2>4. ~c.overview => /\ next.teams # {} /\ IsFiniteSet(next.teams)
                       /\ next.teams \subseteq c.favorites /\ next.ids \subseteq next.teams
    BY <1>6, <2>1, <2>2, <2>3
  <2>5. ScoresFit(next)
    BY <1>6, <2>4 DEF ScoresFit, Onward
  <2>6. Routed(next)
    BY <1>1, <1>6 DEF Routed, Onward
  <2>7. LooksFit(next, db) /\ EditFits(next, db) /\ RsvpFits(next, db) /\ BodyFits(next, db)
    BY <1>6 DEF LooksFit, EditFits, RsvpFits, BodyFits
  <2>8. QED
    BY <1>1, <1>6, <2>5, <2>6, <2>7, ReadMoves DEF CallFits, Onward, c
<1>7. CASE c.ask.op = "teamScores" /\ then = own
  <2>1. /\ Onward(c, own) /\ own.pc \in {"league", "games"} /\ own.ids = own.teams /\ own.teams = favorites
    BY <1>1 DEF Onward, CallShaped
  <2>2. c.ask.op \in Scores
    BY <1>7 DEF Scores
  <2>3. Moves(r, db, own)
    BY <1>6, <1>7, <2>1, <2>2
  <2>4. QED
    BY <1>1, <1>3, <1>7, <2>3 DEF Moved
<1>8. CASE c.ask.op \in Scores \ {"teamScores"} /\ teams # Null /\ then = asked
  <2>1. /\ Onward(c, asked) /\ asked.pc \in {"league", "games"} /\ asked.ids = asked.teams
        /\ asked.teams = teams /\ (asked.pc = "league" => c.ask.op \in Lists)
    BY <1>1 DEF Onward, CallShaped
  <2>2. Moves(r, db, asked)
    BY <1>6, <1>8, <2>1
  <2>3. QED
    BY <1>1, <1>3, <1>8, <2>2 DEF Moved
<1>9. QED
  BY <1>3, <1>4, <1>5, <1>7, <1>8

\* The teams are cut to those of the league.
LEMMA LeagueMoves ==
  ASSUME ApiInv, NEW r \in Requests, LeagueListed(r)
  PROVE  Moved(r)
<1> DEFINE c == call[r]
           league == IF c.sport = Null THEN DOMAIN db.teams ELSE P!GetTeamsByLeague(db, c.sport)
           ids == IF c.teams = {} THEN league ELSE c.teams \cap league
           next == [c EXCEPT !.ids = ids, !.pc = "games"]
<1>1. /\ c.pc = "league" /\ InFlight(c) /\ Turn(r) /\ serial' \in Nat
      /\ CallShaped(c) /\ Routed(c) /\ ScoresFit(c)
  BY DEF LeagueListed, At, InFlight, ApiInv, CallFits
<1>2. Goes(r, db, IF c.ask.op = "teamScores" /\ ids = {} THEN Answer(c, 404, Null) ELSE next)
  BY DEF LeagueListed
<1>3. CASE c.ask.op = "teamScores" /\ ids = {}
  <2>1. Moves(r, db, Answer(c, 404, Null))
    BY <1>1, Refuses
  <2>2. QED
    BY <1>1, <1>2, <1>3, <2>1 DEF Moved
<1>4. CASE ~(c.ask.op = "teamScores" /\ ids = {})
  <2>1. /\ Onward(c, next) /\ next.pc = "games" /\ next.ids = ids /\ next.teams = c.teams
    BY <1>1 DEF Onward, CallShaped
  <2>2. c.teams # {} => ids \subseteq c.teams
    OBVIOUS
  <2> HIDE DEF next, c, ids
  <2>3. Routed(next)
    BY <1>1, <2>1 DEF Routed, Onward, Scores
  <2>4. ScoresFit(next)
    BY <1>1, <2>1, <2>2 DEF ScoresFit, Onward
  <2>5. LooksFit(next, db) /\ EditFits(next, db) /\ RsvpFits(next, db) /\ BodyFits(next, db)
    BY <2>1 DEF LooksFit, EditFits, RsvpFits, BodyFits
  <2>6. Moves(r, db, next)
    BY <1>1, <2>1, <2>3, <2>4, <2>5, ReadMoves DEF CallFits, Onward, c
  <2>7. QED
    BY <1>1, <1>2, <1>4, <2>6 DEF Moved, next
<1>5. QED
  BY <1>3, <1>4

\* The steps that answer none of the requests of interest.
LEMMA OtherMoves ==
  ASSUME ApiInv, NEW r \in Requests,
         RowsListed(r) \/ HealthChecked(r) \/ PasswordHashed(r) \/ PasswordVerified(r)
  PROVE  Moved(r)
<1> DEFINE c == call[r]
<1>1. /\ c.pc \in {"list", "check", "hash", "verify"} /\ InFlight(c) /\ Turn(r) /\ serial' \in Nat
      /\ CallShaped(c) /\ Routed(c)
  <2>1. c.pc \in {"list", "check", "hash", "verify"} /\ Turn(r) /\ serial' = serial
    <3>1. RowsListed(r) => c.pc = "list" /\ Turn(r) /\ serial' = serial
      BY Zenon DEF RowsListed, At
    <3>2. HealthChecked(r) => c.pc = "check" /\ Turn(r) /\ serial' = serial
      BY Zenon DEF HealthChecked, At
    <3>3. PasswordHashed(r) \/ PasswordVerified(r) => c.pc \in {"hash", "verify"} /\ Turn(r) /\ serial' = serial
      BY Zenon DEF PasswordHashed, PasswordVerified
    <3>4. QED
      BY <3>1, <3>2, <3>3
  <2>2. QED
    BY <2>1 DEF InFlight, ApiInv, CallFits
<1>2. c.ask.op \notin Edits \cup Scores \cup {"read", "unrsvp"}
  BY <1>1 DEF Routed, Edits, Scores, Lists, Listing, News
<1>3. ASSUME NEW status, NEW body, Goes(r, db, Answer(c, status, body))
      PROVE  Moved(r)
  <2>1. Moves(r, db, Answer(c, status, body))
    BY <1>1, <1>2, Refuses
  <2>2. QED
    BY <1>1, <1>3, <2>1 DEF Moved
<1>4. CASE RowsListed(r)
  <2>1. CASE \E body : Goes(r, db, Answer(c, 200, body))
    BY <1>3, <2>1
  <2>2. CASE c.pc = "list" /\ \E team, rows : Goes(r, db, [c EXCEPT !.ids = @ \ {team}, !.rows = rows])
    <3>1. PICK team, rows : Goes(r, db, [c EXCEPT !.ids = @ \ {team}, !.rows = rows])
      BY <2>2
    <3> DEFINE next == [c EXCEPT !.ids = @ \ {team}, !.rows = rows]
    <3>2. Onward(c, next) /\ next.pc = "list"
      BY <1>1, <2>2 DEF Onward, CallShaped
    <3> HIDE DEF next, c
    <3>3. Routed(next)
      BY <1>1, <2>2, <3>2 DEF Routed, Onward
    <3>4. Moves(r, db, next)
      BY <1>1, <3>2, <3>3, Passes DEF c
    <3>5. QED
      BY <1>1, <3>1, <3>4 DEF Moved, next
  <2>3. QED
    <3>1. /\ At(r, "list")
          /\ \/ /\ c.ids = {} /\ Goes(r, db, Answer(c, 200, AllRows(c)))
             \/ \E team \in c.ids :
                  LET rows == c.rows \cup OfTeam(c, team)
                  IN Goes(r, db, IF c.ids = {team} THEN Answer(c, 200, rows)
                                 ELSE [c EXCEPT !.ids = @ \ {team}, !.rows = rows])
          /\ UNCHANGED <<serial, fails>>
      BY <1>4 DEF RowsListed
    <3>2. CASE Goes(r, db, Answer(c, 200, AllRows(c)))
      BY <2>1, <3>2
    <3>3. CASE \E team \in c.ids :
                 LET rows == c.rows \cup OfTeam(c, team)
                 IN Goes(r, db, IF c.ids = {team} THEN Answer(c, 200, rows)
                                ELSE [c EXCEPT !.ids = @ \ {team}, !.rows = rows])
      <4>1. PICK team \in c.ids :
                   LET rows == c.rows \cup OfTeam(c, team)
                   IN Goes(r, db, IF c.ids = {team} THEN Answer(c, 200, rows)
                                  ELSE [c EXCEPT !.ids = @ \ {team}, !.rows = rows])
        BY <3>3
      <4> DEFINE rows == c.rows \cup OfTeam(c, team)
      <4>2. c.pc = "list"
        BY <3>1 DEF At
      <4>3. CASE c.ids = {team}
        <5>1. Goes(r, db, Answer(c, 200, rows))
          BY <4>1, <4>3
        <5>2. QED
          BY <2>1, <5>1
      <4>4. CASE c.ids # {team}
        <5>1. Goes(r, db, [c EXCEPT !.ids = @ \ {team}, !.rows = rows])
          BY <4>1, <4>4
        <5> HIDE DEF rows
        <5>2. QED
          BY <2>2, <4>2, <5>1
      <4>5. QED
        BY <4>3, <4>4
    <3>4. QED
      BY <3>1, <3>2, <3>3
<1>5. CASE HealthChecked(r)
  <2>1. PICK status : Goes(r, db, Answer(c, 200, status))
    BY <1>5 DEF HealthChecked
  <2>2. QED
    BY <1>3, <2>1
<1>6. CASE PasswordHashed(r)
  <2> DEFINE next == [c EXCEPT !.pc = "write"]
  <2>1. c.pc = "hash" /\ Goes(r, db, next)
    BY <1>6 DEF PasswordHashed
  <2>2. Onward(c, next) /\ next.pc = "write"
    BY <1>1 DEF Onward, CallShaped
  <2> HIDE DEF next, c
  <2>3. c.ask.op \in {"register", "createUser"} /\ c.pc # "idle"
    BY <1>1, <2>1 DEF Routed, InFlight
  <2>4. Routed(next)
    BY <1>1, <2>2, <2>3 DEF Routed, Onward, Writing
  <2>5. Moves(r, db, next)
    BY <1>1, <2>2, <2>3, <2>4, Passes DEF c, Onward
  <2>6. QED
    BY <1>1, <2>1, <2>5 DEF Moved
<1>7. CASE PasswordVerified(r)
  <2>1. PICK status : Goes(r, db, Answer(c, status, Null))
    BY <1>7 DEF PasswordVerified
  <2>2. QED
    BY <1>3, <2>1
<1>8. QED
  BY <1>4, <1>5, <1>6, <1>7

\* What a handler reads before it writes.
LEMMA LookMoves ==
  ASSUME ApiInv, NEW r \in Requests, Looks(r)
  PROVE  Moved(r)
<1> DEFINE c == call[r]
           profile == P!GetUserProfile(db, c.ask.who)
           found == c.ask.who \in DOMAIN db.profiles
           Looked(row) ==
             CASE c.ask.op = "read" -> IF profile = Null THEN Answer(c, 404, Null) ELSE Answer(c, 200, profile)
             [] c.ask.op = "upsert" -> [c EXCEPT !.pc = "write", !.found = found]
             [] c.ask.op \in {"register", "createUser"} ->
                  IF P!GetUserByUsername(db, c.ask.name) # Null THEN Answer(c, 409, Null)
                  ELSE [c EXCEPT !.pc = "hash"]
             [] c.ask.op = "login" -> LocalStrategy(c)
             [] c.ask.op \in Found -> row
             [] c.ask.op = "rsvp" ->
                  IF HasRsvp(c.ask) THEN Answer(c, 409, Null) ELSE [c EXCEPT !.pc = "write"]
<1>1. /\ c.pc = "look" /\ InFlight(c) /\ Turn(r) /\ serial' \in Nat
      /\ CallShaped(c) /\ Routed(c) /\ store \in {"mem", "pg"}
  BY DEF Looks, At, InFlight, ApiInv, CallFits
<1>2. PICK row \in IF c.ask.op \in Found THEN FoundRow(c) ELSE {Null} : Goes(r, db, Looked(row))
  BY DEF Looks
<1> DEFINE Case == Looked(row)
<1>3. ASSUME NEW next, Case = next, Moves(r, db, next)
      PROVE  Moved(r)
  BY <1>1, <1>2, <1>3 DEF Moved
<1>4. c.ask.op \in {"read", "upsert", "register", "createUser", "login", "rsvp"} \cup Found
  BY <1>1 DEF Routed
<1>5. \A status, body : (status # 200 \/ c.ask.op \notin Edits \cup Scores \cup {"read", "unrsvp"})
                          => Moves(r, db, Answer(c, status, body))
  BY <1>1, Refuses
<1>6. CASE c.ask.op = "read"
  <2>1. CASE profile = Null
    <3>1. Case = Answer(c, 404, Null)
      BY <1>6, <2>1 DEF Found
    <3> HIDE DEF Case
    <3>2. QED
      BY <1>3, <1>5, <3>1
  <2>2. CASE profile # Null
    <3> DEFINE next == Answer(c, 200, profile)
    <3>1. Case = next
      BY <1>6, <2>2 DEF Found
    <3>2. c.ask.who \in DOMAIN db.profiles /\ profile = db.profiles[c.ask.who]
      BY <2>2 DEF P!GetUserProfile, P!Find
    <3>3. /\ Onward(c, next) /\ next.pc = "over" /\ next.body = profile
      BY <1>1, AnswerIsOnward
    <3> HIDE DEF next, profile, c
    <3>4. Routed(next)
      BY <1>1, <3>3 DEF Routed, Onward
    <3>5. /\ LooksFit(next, db) /\ EditFits(next, db) /\ RsvpFits(next, db) /\ ScoresFit(next)
          /\ BodyFits(next, db)
      BY <1>6, <3>2, <3>3 DEF LooksFit, EditFits, RsvpFits, ScoresFit, BodyFits, Onward, Edits, Scores, Lists
    <3>6. Moves(r, db, next)
      BY <1>1, <3>3, <3>4, <3>5, ReadMoves DEF CallFits, Onward, c
    <3> HIDE DEF Case
    <3>7. QED
      BY <1>3, <3>1, <3>6
  <2>3. QED
    BY <2>1, <2>2
<1>7. CASE c.ask.op \in {"upsert", "rsvp"}
  <2>1. CASE c.ask.op = "rsvp" /\ HasRsvp(c.ask)
    <3>1. Case = Answer(c, 409, Null)
      BY <2>1 DEF Found
    <3> HIDE DEF Case
    <3>2. QED
      BY <1>3, <1>5, <3>1
  <2>2. CASE ~(c.ask.op = "rsvp" /\ HasRsvp(c.ask))
    <3> DEFINE next == IF c.ask.op = "upsert" THEN [c EXCEPT !.pc = "write", !.found = found]
                       ELSE [c EXCEPT !.pc = "write"]
    <3>1. Case = next
      BY <1>7, <2>2 DEF Found
    <3>2. /\ Onward(c, next) /\ next.pc = "write" /\ (c.ask.op = "upsert" => next.found = found)
      BY <1>1 DEF Onward, CallShaped
    <3>3. c.ask.op = "rsvp" => Rsvps(db, c.ask.id, c.ask.who) = {}
      BY <1>1, <2>2 DEF HasRsvp, M!HasRsvp, M!RsvpsOf, M!Where, P!HasRsvp, Rsvps
    <3> HIDE DEF next, c
    <3>4. Routed(next)
      BY <1>1, <1>7, <3>2 DEF Routed, Onward, Writing
    <3>5. LooksFit(next, db)
      BY <3>2, <3>3 DEF LooksFit, Onward
    <3>6. /\ EditFits(next, db) /\ RsvpFits(next, db) /\ ScoresFit(next) /\ BodyFits(next, db)
      BY <3>2 DEF EditFits, RsvpFits, ScoresFit, BodyFits
    <3>7. Moves(r, db, next)
      BY <1>1, <3>2, <3>4, <3>5, <3>6, ReadMoves DEF CallFits, Onward, c
    <3> HIDE DEF Case
    <3>8. QED
      BY <1>3, <3>1, <3>7
  <2>3. QED
    BY <2>1, <2>2
<1>8. CASE c.ask.op \in {"register", "createUser", "login"}
  <2> DEFINE then == [c EXCEPT !.pc = IF c.ask.op = "login" THEN "verify" ELSE "hash"]
  <2>1. Case \in {Answer(c, 409, Null), Answer(c, 401, Null), then}
    <3>1. c.ask.op = "login" => LocalStrategy(c) \in {Answer(c, 401, Null), then}
      BY DEF LocalStrategy
    <3>2. c.ask.op # "login" => then = [c EXCEPT !.pc = "hash"]
      OBVIOUS
    <3> HIDE DEF then
    <3>3. QED
      BY <1>8, <3>1, <3>2 DEF Found
  <2>2. Onward(c, then) /\ then.pc = IF c.ask.op = "login" THEN "verify" ELSE "hash"
    BY <1>1 DEF Onward, CallShaped
  <2>3. Routed(then)
    <3> HIDE DEF then, c
    <3>1. QED
      BY <1>1, <1>8, <2>2 DEF Routed, Onward
  <2>4. Moves(r, db, then)
    <3> HIDE DEF then
    <3>1. QED
      BY <1>1, <2>2, <2>3, Passes
  <2> HIDE DEF Case, then
  <2>5. QED
    BY <1>3, <1>5, <2>1, <2>4
<1>9. CASE c.ask.op \in Found
  <2>1. \E status, body : Case = Answer(c, status, body)
    <3>1. Case = row /\ row \in FoundRow(c)
      BY <1>9 DEF Found
    <3>2. \A other \in FoundRow(c) : \E status, body : other = Answer(c, status, body)
      BY DEF FoundRow
    <3> HIDE DEF Case
    <3>3. QED
      BY <3>1, <3>2
  <2>2. c.ask.op \notin Edits \cup Scores \cup {"read", "unrsvp"}
    BY <1>9 DEF Found, Edits, Scores, Lists
  <2> HIDE DEF Case
  <2>3. QED
    BY <1>3, <1>5, <2>1, <2>2
<1>10. QED
  BY <1>4, <1>6, <1>7, <1>8, <1>9

\* The games of some teams.
OfTeams(game, ids) == {game.homeTeamId, game.awayTeamId} \cap ids # {}
GamesOfTeams(ids) == {g \in DOMAIN db.games : OfTeams(db.games[g], ids)}

\* MemStorage and PostgreSQL cut the same order.
LEMMA SameGreatest ==
  ASSUME NEW db0, NEW table, NEW ids, NEW column, NEW limit
  PROVE  /\ M!Greatest(db0, table, ids, column, limit) = Greatest(db0, table, ids, column, limit)
         /\ P!Greatest(db0, table, ids, column, limit) = Greatest(db0, table, ids, column, limit)
<1>1. /\ M!Cardinality(ids) = Cardinality(ids)
      /\ P!Cardinality(ids) = Cardinality(ids)
  BY Zenon DEF Cardinality, M!Cardinality, P!Cardinality
<1>2. M!Greatest(db0, table, ids, column, limit) = Greatest(db0, table, ids, column, limit)
  BY <1>1 DEF Greatest, M!Greatest, Smaller, M!Smaller, Descending, M!Descending, SeqSet, M!SeqSet
<1>3. P!Greatest(db0, table, ids, column, limit) = Greatest(db0, table, ids, column, limit)
  BY <1>1 DEF Greatest, P!Greatest, Smaller, P!Smaller, Descending, P!Descending, SeqSet, P!SeqSet
<1>4. QED
  BY <1>2, <1>3

\* What is listed for teams are games of theirs; for none of many teams, nothing,
\* as the limit is for each.
LEMMA ListedAreOwn ==
  ASSUME ApiInv, NEW c, IsFiniteSet(c.ids), c.teams # {}, c.ask.limit \in Nat, NEW since
  PROVE  Listed(c, since) \subseteq Seq(GamesOfTeams(c.ids))
<1> DEFINE number == Cardinality(c.ids)
           limit == c.ask.limit * number
           ids == c.ids
<1>1. number \in Nat /\ limit \in Nat
  BY FS_CardinalityType
<1>2. Listed(c, since) = GamesByTeamIds(ids, limit, since)
  BY DEF Listed
<1>3. /\ store \in {"mem", "pg"} /\ IsFiniteSet(DOMAIN db.games)
      /\ \A g \in DOMAIN db.games : db.games[g].startTime \in Nat
  BY DEF ApiInv, TablesOk
<1>a. \A found \in SUBSET DOMAIN db.games :
         Greatest(db, "games", found, "startTime", limit) \subseteq Seq(found)
  <2> HIDE DEF limit
  <2> TAKE found \in SUBSET DOMAIN db.games
  <2>1. IsFiniteSet(found)
    BY <1>3, FS_Subset
  <2>2. QED
    BY <1>1, <2>1, GreatestAreFound
<1>4. CASE ids = {}
  <2>1. limit = 0
    BY <1>1, <1>4, FS_EmptySet
  <2> HIDE DEF limit, ids
  <2> DEFINE found == {g \in DOMAIN db.games : db.games[g].startTime >= since /\ db.games[g].startTime <= All}
  <2>2. Greatest(db, "games", found, "startTime", limit) \subseteq {<<>>}
    <3>1. Cardinality(found) \in Nat
      <4>1. IsFiniteSet(found)
        BY <1>3, FS_Subset
      <4>2. QED
        BY <4>1, FS_CardinalityType
    <3> HIDE DEF found
    <3>2. Smaller(0, Cardinality(found)) = 0
      BY <3>1 DEF Smaller
    <3>3. 1..Smaller(0, Cardinality(found)) = {}
      BY <3>2
    <3>4. ASSUME NEW list \in Greatest(db, "games", found, "startTime", limit)
          PROVE  list = <<>>
      <4>1. list \in [1..Smaller(0, Cardinality(found)) -> found]
        BY <2>1 DEF Greatest
      <4>2. list \in Seq(found) /\ Len(list) = 0
        BY <3>2, <4>1
      <4>3. QED
        BY <4>2
    <3>5. QED
      BY <3>4
  <2>3. GamesByTeamIds(ids, limit, since) \subseteq {<<>>}
    BY <1>4, <2>2, SameGreatest
       DEF GamesByTeamIds, M!GetGamesByTeamIds, P!GetGamesByTeamIds, M!Where, All
  <2>4. <<>> \in Seq(GamesOfTeams(ids))
    OBVIOUS
  <2>5. QED
    BY <1>2, <2>3, <2>4 DEF ids, limit
<1>5. CASE ids # {}
  <2> DEFINE found == {g \in DOMAIN db.games :
                         /\ db.games[g].homeTeamId \in ids \/ db.games[g].awayTeamId \in ids
                         /\ db.games[g].startTime >= since /\ db.games[g].startTime <= All}
  <2>1. found \in SUBSET DOMAIN db.games /\ found \subseteq GamesOfTeams(ids)
    BY DEF GamesOfTeams, OfTeams
  <2> HIDE DEF limit, ids
  <2>2. GamesByTeamIds(ids, limit, since) = Greatest(db, "games", found, "startTime", limit)
    BY <1>5, SameGreatest
       DEF GamesByTeamIds, M!GetGamesByTeamIds, P!GetGamesByTeamIds, M!GamesOf, M!Where, P!Where, All
  <2> HIDE DEF found
  <2>3. GamesByTeamIds(ids, limit, since) \subseteq Seq(found)
    BY <1>a, <2>1, <2>2
  <2>4. GamesByTeamIds(ids, limit, since) \subseteq Seq(GamesOfTeams(ids))
    BY <2>1, <2>3
  <2>5. QED
    BY <1>2, <2>4 DEF limit, ids
<1>6. QED
  BY <1>4, <1>5

\* A page of a list, and a list from its end, hold what the list holds.
LEMMA PagesAreListed ==
  ASSUME NEW S, NEW list \in Seq(S), NEW number \in Nat \ {0}, NEW size \in Nat
  PROVE  \A i \in DOMAIN Page(list, number, size) : Page(list, number, size)[i] \in S
<1> DEFINE first == (number - 1) * size
           last == Smaller(number * size, Len(list))
<1>1. first \in Nat /\ number * size \in Nat
  BY SMT
<1>2. last \in Nat /\ last <= Len(list)
  BY <1>1 DEF Smaller
<1>3. Page(list, number, size) = SubSeq(list, first + 1, last)
  BY DEF Page
<1> HIDE DEF first, last
<1>4. ASSUME NEW i \in DOMAIN SubSeq(list, first + 1, last)
      PROVE  SubSeq(list, first + 1, last)[i] \in S
  BY <1>1, <1>2, <1>4
<1>5. QED
  BY <1>3, <1>4

\* What a schedule turns round is what was listed.
LEMMA BackwardsIsListed ==
  ASSUME NEW S, NEW list \in Seq(S)
  PROVE  Backwards(list) \in Seq(S)
BY DEF Backwards

\* A list of games of the teams answers a request for scores rightly.
LEMMA AnswersScores ==
  ASSUME ApiInv, NEW r \in Requests, InFlight(call[r]), Turn(r), NEW body,
         call[r].ask.op \notin Edits \cup {"read", "unrsvp"},
         call[r].ask.op \in Scores /\ ~call[r].overview
           => \A i \in DOMAIN body : OfTeams(body[i], call[r].favorites)
  PROVE  Moves(r, db, Answer(call[r], 200, body))
<1> DEFINE c == call[r]
           next == Answer(c, 200, body)
<1>1. CallShaped(c) /\ Routed(c) /\ c.pc # "idle"
  BY DEF ApiInv, CallFits, InFlight
<1>2. /\ Onward(c, next) /\ next.pc = "over" /\ next.body = body
  BY <1>1, AnswerIsOnward
<1> HIDE DEF next, c
<1>3. Routed(next)
  BY <1>1, <1>2 DEF Routed, Onward
<1>4. ScoresFit(next)
  BY <1>2 DEF ScoresFit, Onward, OfTeams, c
<1>5. LooksFit(next, db) /\ EditFits(next, db) /\ RsvpFits(next, db) /\ BodyFits(next, db)
  BY <1>2 DEF LooksFit, EditFits, RsvpFits, BodyFits, Onward, c
<1>6. QED
  BY <1>2, <1>3, <1>4, <1>5, ReadMoves DEF CallFits, Onward, next, c

\* The lists of games.
LEMMA GamesMoves ==
  ASSUME ApiInv, NEW r \in Requests, GamesListed(r)
  PROVE  Moved(r)
<1> DEFINE c == call[r]
           lists == CASE c.ask.op = "scores" -> {Page(list, c.ask.page, 1) : list \in Listed(c, 0)}
                      [] c.ask.op = "schedule" -> Schedule(c)
                      [] c.ask.op = "games" -> GamesByTeamIds(c.ids, 10 * Cardinality(c.ids), 0)
                      [] c.ask.op = "teamScores" -> {Page(list, 1, c.ask.limit) : list \in Listed(c, 0)}
<1>1. /\ c.pc = "games" /\ c.ask.op # "boxScore" /\ InFlight(c) /\ Turn(r) /\ serial' \in Nat
      /\ CallShaped(c) /\ Routed(c) /\ ScoresFit(c)
  BY DEF GamesListed, At, InFlight, ApiInv, CallFits
<1>2. PICK games \in lists : Goes(r, db, Answer(c, 200, Rows(games)))
  BY DEF GamesListed
<1>3. ASSUME c.ask.op \in Scores, ~c.overview, NEW i \in DOMAIN games
      PROVE  games[i] \in GamesOfTeams(c.favorites)
  <2>1. /\ c.teams # {} /\ IsFiniteSet(c.teams)
        /\ c.teams \subseteq c.favorites /\ c.ids \subseteq c.teams
    BY <1>1, <1>3 DEF ScoresFit
  <2>2. IsFiniteSet(c.ids) /\ c.ids \subseteq c.favorites
    BY <2>1, FS_Subset
  <2>3. WellAsked(c.ask)
    BY <1>1 DEF Routed
  <2>4. c.ask.op \in Lists \cup {"teamScores"}
    BY <1>1, <1>3 DEF Scores
  <2>5. c.ask.limit \in Nat /\ c.ask.page \in Nat \ {0}
    BY <2>3, <2>4 DEF WellAsked
  <2>6. \A since : Listed(c, since) \subseteq Seq(GamesOfTeams(c.ids))
    BY <2>1, <2>2, <2>5, ListedAreOwn
  <2>7. GamesOfTeams(c.ids) \subseteq GamesOfTeams(c.favorites)
    BY <2>2 DEF GamesOfTeams, OfTeams
  <2>8. \A page0 \in Nat \ {0}, size \in Nat, list \in Seq(GamesOfTeams(c.ids)) :
           \A j \in DOMAIN Page(list, page0, size) : Page(list, page0, size)[j] \in GamesOfTeams(c.ids)
    BY PagesAreListed
  <2>9. CASE c.ask.op = "scores"
    <3>1. PICK list \in Listed(c, 0) : games = Page(list, c.ask.page, 1)
      BY <2>9
    <3> HIDE DEF lists, c
    <3>2. QED
      BY <1>3, <2>5, <2>6, <2>7, <2>8, <3>1
  <2>10. CASE c.ask.op = "schedule"
    <3>1. PICK list \in Listed(c, Now) : games = Page(Backwards(list), c.ask.page, 1)
      BY <2>10 DEF Schedule
    <3>2. Backwards(list) \in Seq(GamesOfTeams(c.ids))
      BY <2>6, <3>1, BackwardsIsListed
    <3> HIDE DEF lists, c
    <3>3. QED
      BY <1>3, <2>5, <2>7, <2>8, <3>1, <3>2
  <2>11. CASE c.ask.op = "teamScores"
    <3>1. PICK list \in Listed(c, 0) : games = Page(list, 1, c.ask.limit)
      BY <2>11
    <3> HIDE DEF lists, c
    <3>2. QED
      BY <1>3, <2>5, <2>6, <2>7, <2>8, <3>1
  <2>12. QED
    BY <2>4, <2>9, <2>10, <2>11 DEF Lists
<1>4. c.ask.op \notin Edits \cup {"read", "unrsvp"}
  BY <1>1 DEF Routed, Edits, Scores, Lists
<1> HIDE DEF lists
<1>5. ASSUME c.ask.op \in Scores, ~c.overview
      PROVE  \A i \in DOMAIN Rows(games) : OfTeams(Rows(games)[i], c.favorites)
  BY <1>3, <1>5 DEF Rows, GamesOfTeams
<1>6. Moves(r, db, Answer(c, 200, Rows(games)))
  BY <1>1, <1>4, <1>5, AnswersScores
<1>7. QED
  BY <1>1, <1>2, <1>6 DEF Moved

\* One game.
LEMMA GameMoves ==
  ASSUME ApiInv, NEW r \in Requests, GameFound(r)
  PROVE  Moved(r)
<1> DEFINE c == call[r]
           game == Find(db, "games", c.ask.game)
           body == <<game>>
           hidden == c.teams # {} /\ {game.homeTeamId, game.awayTeamId} \cap c.teams = {}
<1>1. /\ c.pc = "games" /\ c.ask.op = "boxScore" /\ InFlight(c) /\ Turn(r) /\ serial' \in Nat
      /\ CallShaped(c) /\ Routed(c) /\ ScoresFit(c)
  BY DEF GameFound, At, InFlight, ApiInv, CallFits
<1>2. Goes(r, db, IF game = Null THEN Answer(c, 500, Null)
                  ELSE IF hidden THEN Answer(c, 401, Null) ELSE Answer(c, 200, body))
  BY DEF GameFound
<1>3. CASE game = Null \/ hidden
  <2>1. PICK status \in {500, 401} : Goes(r, db, Answer(c, status, Null))
    <3> HIDE DEF game, hidden, body, c
    <3>1. QED
      BY <1>2, <1>3
  <2>2. Moves(r, db, Answer(c, status, Null))
    BY <1>1, Refuses
  <2>3. QED
    BY <1>1, <2>1, <2>2 DEF Moved
<1>4. CASE game # Null /\ ~hidden
  <2>1. Goes(r, db, Answer(c, 200, body))
    BY <1>2, <1>4
  <2>2. c.ask.game \in DOMAIN db.games /\ game = db.games[c.ask.game]
    BY <1>4 DEF Find
  <2>3. ASSUME c.ask.op \in Scores, ~c.overview
        PROVE  OfTeams(game, c.favorites)
    <3>1. c.teams # {} /\ c.teams \subseteq c.favorites
      BY <1>1, <2>3 DEF ScoresFit
    <3>2. QED
      BY <1>4, <3>1 DEF OfTeams
  <2>4. c.ask.op \notin Edits \cup {"read", "unrsvp"}
    BY <1>1 DEF Edits
  <2>5. Moves(r, db, Answer(c, 200, body))
    BY <1>1, <2>3, <2>4, AnswersScores
  <2>6. QED
    BY <1>1, <2>1, <2>5 DEF Moved
<1>5. QED
  BY <1>3, <1>4

\* What a handler writes moves the tables as its request may.
LEMMA TablesMove ==
  ASSUME ApiInv, NEW r \in Requests, call[r].pc = "write"
  PROVE  LET tables == Written(call[r]).db
         IN /\ DOMAIN tables = Names
            /\ ProfilesMove(call[r], tables) /\ RsvpsMove(call[r], tables) /\ GamesMove(call[r], tables)
<1> DEFINE c == call[r]
           w == Written(c)
<1>1. /\ store \in {"mem", "pg"} /\ DOMAIN db = Names /\ OneRsvp(db) /\ Routed(c) /\ LooksFit(c, db)
  BY DEF ApiInv, TablesOk, CallFits
<1>2. c.ask.op \in Writing
  BY <1>1 DEF Routed
<1>3. /\ DOMAIN w.db = Names /\ ProfilesAfter(c, w) /\ RsvpsAfter(c, w) /\ GamesAfter(c, w)
  BY <1>1, <1>2, WriteEffects
<1>4. c.pc = "write"
  OBVIOUS
<1> HIDE DEF w, c
<1>5. ProfilesMove(c, w.db)
  <2>1. CASE c.ask.op \notin Edits
    BY <1>3, <2>1 DEF ProfilesAfter, ProfilesMove, Same
  <2>2. CASE c.ask.op \in Edits
    <3> DEFINE who == c.ask.who
               found == c.ask.op = "upsert" => c.found
    <3>1. Edited(w, who, c.ask.data, found)
      BY <1>3, <2>2 DEF ProfilesAfter
    <3>2. ~found /\ store = "mem" => who \notin DOMAIN db.profiles
      BY <1>1, <1>4 DEF LooksFit
    <3>3. CASE Same(db.profiles, w.db.profiles)
      BY <3>3 DEF ProfilesMove
    <3>4. CASE ~Same(db.profiles, w.db.profiles)
      <4>1. PICK row, old : /\ With(db.profiles, w.db.profiles, who, row) /\ Laid(row, c.ask.data, old)
                            /\ \/ who \in DOMAIN db.profiles /\ old = db.profiles[who]
                               \/ ~found /\ Blank(old) /\ (store = "pg" => who \notin DOMAIN db.profiles)
        BY <3>1, <3>4 DEF Edited
      <4>2. \/ who \in DOMAIN db.profiles /\ old = db.profiles[who]
            \/ who \notin DOMAIN db.profiles /\ Blank(old)
        BY <1>1, <3>2, <4>1
      <4>3. QED
        BY <2>2, <4>1, <4>2 DEF ProfilesMove
    <3>5. QED
      BY <3>3, <3>4
  <2>3. QED
    BY <2>1, <2>2
<1>6. RsvpsMove(c, w.db)
  <2>1. store = "mem" /\ c.ask.op = "rsvp" => Rsvps(db, c.ask.id, c.ask.who) = {}
    BY <1>1, <1>4 DEF LooksFit
  <2>2. QED
    BY <1>3, <2>1 DEF RsvpsAfter, RsvpsMove, Fewer
<1>7. GamesMove(c, w.db)
  BY <1>3 DEF GamesAfter, GamesMove
<1>8. QED
  BY <1>3, <1>5, <1>6, <1>7 DEF w, c

\* An edit that is acknowledged is in the table, and the profile there is answered.
LEMMA EditIsMade ==
  ASSUME ApiInv, NEW r \in Requests, call[r].pc = "write", call[r].ask.op \in Edits,
         Written(call[r]).error = Null,
         ~(Written(call[r]).answer = Null /\ call[r].ask.op \in {"patch", "onboarded", "patchExperience"})
  PROVE  LET a == call[r].ask
             w == Written(call[r])
         IN /\ a.who \in DOMAIN w.db.profiles
            /\ w.answer = w.db.profiles[a.who]
            /\ \A column \in DOMAIN a.data : /\ column \in DOMAIN w.answer
                                             /\ w.answer[column] = a.data[column]
<1> DEFINE c == call[r]
           w == Written(c)
           who == c.ask.who
           found == c.ask.op = "upsert" => c.found
<1>1. /\ store \in {"mem", "pg"} /\ DOMAIN db = Names /\ OneRsvp(db) /\ Routed(c) /\ LooksFit(c, db)
  BY DEF ApiInv, TablesOk, CallFits
<1>2. Edited(w, who, c.ask.data, found)
  BY <1>1, EditWrites
<1>3. w.error = Null /\ ~(w.answer = Null /\ c.ask.op \in {"patch", "onboarded"})
  OBVIOUS
<1>4. c.pc = "write" /\ c.ask.op \in Edits
  OBVIOUS
<1> HIDE DEF w, c
<1>5. c.ask.op = "upsert" /\ c.found => who \in DOMAIN db.profiles
  BY <1>1, <1>4 DEF LooksFit
<1>6. ~(found /\ w.answer = Null /\ who \notin DOMAIN db.profiles)
  BY <1>3, <1>4, <1>5 DEF Edits
<1>7. PICK row, old : /\ With(db.profiles, w.db.profiles, who, row) /\ Laid(row, c.ask.data, old)
                      /\ w.answer = row
  BY <1>2, <1>3, <1>6 DEF Edited
<1>8. QED
  BY <1>7 DEF With, Laid, w, c

\* A write that is answered.
LEMMA WriteMoves ==
  ASSUME ApiInv, NEW r \in Requests, Writes(r)
  PROVE  Moved(r)
<1> DEFINE c == call[r]
           w == Written(c)
           unknown == w.answer = Null /\ c.ask.op \in {"patch", "onboarded", "patchExperience"}
           next == IF w.error # Null THEN Answer(c, StatusOf(c.ask.op, w.error), Null)
                   ELSE IF unknown THEN Answer(c, 404, Null) ELSE Answer(c, 200, w.answer)
<1>1. /\ c.pc = "write" /\ InFlight(c) /\ Turn(r)
      /\ CallShaped(c) /\ Routed(c)
  BY DEF Writes, At, InFlight, ApiInv, CallFits
<1>2. serial' \in Nat
  BY DEF Writes, ApiInv
<1>3. Goes(r, w.db, next)
  BY DEF Writes
<1>4. /\ DOMAIN w.db = Names
      /\ ProfilesMove(c, w.db) /\ RsvpsMove(c, w.db) /\ GamesMove(c, w.db)
  BY <1>1, TablesMove
<1>5. /\ Onward(c, next) /\ next.pc = "over"
      /\ next.status = 200 => w.error = Null /\ ~unknown /\ next.body = w.answer
  <2>1. \A status, body : /\ Onward(c, Answer(c, status, body))
                          /\ Answer(c, status, body).pc = "over"
                          /\ Answer(c, status, body).status = status
                          /\ Answer(c, status, body).body = body
    BY <1>1, AnswerIsOnward
  <2>2. \A op, error : StatusOf(op, error) # 200
    BY DEF StatusOf
  <2> HIDE DEF w, c, unknown
  <2>3. QED
    BY <2>1, <2>2
<1>6. (c.ask.op \in Edits /\ w.error = Null /\ ~unknown) =>
        /\ c.ask.who \in DOMAIN w.db.profiles
        /\ w.answer = w.db.profiles[c.ask.who]
        /\ \A column \in DOMAIN c.ask.data : /\ column \in DOMAIN w.answer
                                             /\ w.answer[column] = c.ask.data[column]
  BY <1>1, EditIsMade
<1>7. c.ask.op = "unrsvp" /\ w.error = Null => Rsvps(w.db, c.ask.id, c.ask.who) = {}
  <2>1. c.ask.op = "unrsvp" => c.ask.op \in Writing
    BY DEF Writing
  <2>2. store \in {"mem", "pg"} /\ DOMAIN db = Names /\ OneRsvp(db)
    BY DEF ApiInv, TablesOk
  <2>3. QED
    BY <2>1, <2>2, WriteEffects
<1>8. c.ask.op \in Writing /\ "read" \notin Writing /\ Scores \cap Writing = {}
  BY <1>1 DEF Routed, Writing, Scores, Lists
<1> HIDE DEF w, c, unknown, next
<1>9. Routed(next)
  BY <1>1, <1>5 DEF Routed, Onward
<1>10. LooksFit(next, w.db) /\ EditFits(next, w.db) /\ RsvpFits(next, w.db)
  BY <1>5, <1>6, <1>7 DEF LooksFit, EditFits, RsvpFits, Onward
<1>11. ScoresFit(next) /\ BodyFits(next, w.db)
  BY <1>5, <1>6, <1>8 DEF ScoresFit, BodyFits, Onward
<1>12. Moves(r, w.db, next)
  BY <1>1, <1>4, <1>5, <1>9, <1>10, <1>11 DEF Moves, CallFits, Onward, c
<1>13. QED
  BY <1>2, <1>3, <1>12 DEF Moved

\* A storage call that fails, done or not.
LEMMA FailureMoves ==
  ASSUME ApiInv, NEW r \in Requests, StorageFails(r)
  PROVE  Moved(r)
<1> DEFINE c == call[r]
           next == Answer(c, IF c.ask.op = "teamScores" /\ c.pc = "games" THEN 503 ELSE 500, Null)
<1>1. /\ c.pc \in Storing /\ store = "pg" /\ CallShaped(c) /\ Routed(c)
      /\ serial' = IF c.ask.op \in Creating THEN serial + 1 ELSE serial
  BY DEF StorageFails, ApiInv, CallFits
<1>2. serial' \in Nat
  BY <1>1 DEF ApiInv
<1>3. InFlight(c) /\ Turn(r)
  BY <1>1 DEF InFlight, Storing, Turn
<1>4. PICK tables \in {db} \cup (IF c.pc = "write" THEN {Written(c).db} ELSE {}) : Goes(r, tables, next)
  BY DEF StorageFails
<1>5. next.status \in {500, 503}
  BY <1>1, AnswerIsOnward
<1>6. CASE tables = db
  <2>1. Moves(r, db, next)
    BY <1>3, Refuses
  <2>2. QED
    BY <1>2, <1>4, <1>6, <2>1 DEF Moved
<1>7. CASE tables # db
  <2>1. c.pc = "write" /\ tables = Written(c).db
    BY <1>4, <1>7
  <2>2. /\ DOMAIN tables = Names
        /\ ProfilesMove(c, tables) /\ RsvpsMove(c, tables) /\ GamesMove(c, tables)
    BY <2>1, TablesMove
  <2>3. Onward(c, next) /\ next.pc = "over" /\ next.status # 200
    BY <1>1, <1>5, AnswerIsOnward
  <2> HIDE DEF next, c
  <2>4. Routed(next)
    BY <1>1, <2>1, <2>3 DEF Routed, Onward
  <2>5. /\ LooksFit(next, tables) /\ EditFits(next, tables) /\ RsvpFits(next, tables)
        /\ ScoresFit(next) /\ BodyFits(next, tables)
    BY <2>3 DEF LooksFit, EditFits, RsvpFits, ScoresFit, BodyFits
  <2>6. Moves(r, tables, next)
    BY <1>3, <2>2, <2>3, <2>4, <2>5 DEF Moves, CallFits, Onward, c
  <2>7. QED
    BY <1>2, <1>4, <2>6 DEF Moved
<1>8. QED
  BY <1>6, <1>7

\* Every step of a handler is such a move,
LEMMA ServesMoves == ASSUME ApiInv, NEW r \in Requests, Serves(r) PROVE Moved(r)
BY RefusalMoves, AuthMoves, ContextMoves, LeagueMoves, GamesMoves, GameMoves, OtherMoves, LookMoves,
   WriteMoves, FailureMoves DEF Serves

\* and keeps the invariant.
LEMMA ServesKeeps == ASSUME ApiInv, NEW r \in Requests, Serves(r) PROVE ApiInv'
<1>1. Moved(r)
  BY ServesMoves
<1>2. PICK tables, next : Moves(r, tables, next) /\ Goes(r, tables, next)
  BY <1>1 DEF Moved
<1>3. serial' \in Nat
  BY <1>1 DEF Moved
<1>4. QED
  BY <1>2, <1>3, MovesKeep

\* A request that arrives is contested by all in flight, and contests all that
\* are there.
LEMMA ArrivesKeeps ==
  ASSUME ApiInv, NEW r \in Requests, NEW ask, Arrives(r, ask),
         WellAsked(ask)
  PROVE  ApiInv'
<1> DEFINE others == {q \in Requests \ {r} : InFlight(call[q])}
           new == [NoCall EXCEPT !.pc = "auth", !.ask = ask,
                                 !.contested = UNION {Touches(call[q].ask) : q \in others}]
           Met(q) == [call[q] EXCEPT !.contested = @ \cup Touches(ask)]
<1>1. /\ call[r].pc = "idle" /\ db' = db /\ store' = store /\ serial' = serial
      /\ call' = [q \in Requests |-> IF q = r THEN Noted(new, db)
                                     ELSE IF call[q].pc = "idle" THEN call[q] ELSE Met(q)]
  BY DEF Arrives
<1>2. /\ CallShaped(new) /\ new.pc = "auth" /\ new.ask = ask
      /\ new.contested = UNION {Touches(call[q].ask) : q \in others}
  BY DEF NoCall, CallShaped
<1>3. ASSUME NEW q \in Requests
      PROVE  /\ CallShaped(call[q]) /\ CallShaped(Met(q))
             /\ Met(q).contested = call[q].contested \cup Touches(ask)
             /\ \A f \in DOMAIN call[q] \ {"contested"} : Met(q)[f] = call[q][f]
  BY DEF ApiInv, CallFits, CallShaped
<1> HIDE DEF new, Met, others
<1>4. CallFits(new, db)
  <2>1. Routed(new)
    BY <1>2 DEF Routed
  <2>2. LooksFit(new, db) /\ EditFits(new, db) /\ RsvpFits(new, db) /\ ScoresFit(new)
    BY <1>2 DEF LooksFit, EditFits, RsvpFits, ScoresFit
  <2>3. QED
    BY <1>2, <2>1, <2>2 DEF CallFits
<1>5. ASSUME NEW q \in Requests
      PROVE  CallFits(Met(q), db) /\ Meanwhile(Met(q), db)
  <2> DEFINE c == call[q]
             m == Met(q)
  <2>1. CallFits(c, db) /\ Meanwhile(c, db)
    BY DEF ApiInv
  <2>2. /\ CallShaped(m) /\ m.pc = c.pc /\ m.ask = c.ask /\ m.teams = c.teams /\ m.ids = c.ids
        /\ m.found = c.found /\ m.status = c.status /\ m.body = c.body
        /\ m.favorites = c.favorites /\ m.overview = c.overview
        /\ c.contested \subseteq m.contested
    BY <1>3 DEF CallShaped
  <2> HIDE DEF c, m
  <2>3. Routed(m) /\ LooksFit(m, db)
    BY <2>1, <2>2 DEF CallFits, Routed, LooksFit
  <2>4. EditFits(m, db) /\ RsvpFits(m, db)
    BY <2>1, <2>2 DEF CallFits, EditFits, RsvpFits
  <2>5. ScoresFit(m) /\ Meanwhile(m, db)
    BY <2>1, <2>2 DEF CallFits, ScoresFit, Meanwhile, InFlight
  <2>6. QED
    BY <2>2, <2>3, <2>4, <2>5 DEF CallFits, c, m
<1>6. CallFits(Noted(new, db), db) /\ Meanwhile(Noted(new, db), db)
  BY <1>4, NotedFits
<1>7. \A q \in Requests : (CallFits(call[q], db) /\ Meanwhile(call[q], db))'
  <2> TAKE q \in Requests
  <2>1. CallFits(call'[q], db) /\ Meanwhile(call'[q], db)
    BY <1>1, <1>5, <1>6 DEF ApiInv
  <2>2. (CallShaped(call[q]) /\ Routed(call[q]))'
    BY <2>1 DEF CallFits, CallShaped, Routed
  <2>3. LooksFit(call[q], db)'
    BY <1>1, <2>1 DEF CallFits, LooksFit, Rsvps
  <2>4. (EditFits(call[q], db) /\ RsvpFits(call[q], db))'
    BY <1>1, <2>1 DEF CallFits, EditFits, RsvpFits, Rsvps
  <2>5. ScoresFit(call[q])'
    BY <1>1, <2>1 DEF CallFits, ScoresFit
  <2>6. Meanwhile(call[q], db)'
    BY <1>1, <2>1 DEF Meanwhile, InFlight
  <2>7. QED
    BY <2>2, <2>3, <2>4, <2>5, <2>6 DEF CallFits
<1>8. Meets'
  <2> SUFFICES ASSUME NEW p \in Requests, NEW q \in Requests, q # p, InFlight(call'[q]),
                      call'[p].pc # "idle"
               PROVE  Touches(call'[q].ask) \subseteq call'[p].contested
    BY DEF Meets, InFlight
  <2>1. LET n == Noted(new, db)
        IN n.ask = ask /\ n.contested = UNION {Touches(call[s].ask) : s \in others}
    BY <1>2, NotedIsAsked
  <2>2. \A s \in Requests \ {r} : /\ call'[s].pc = call[s].pc /\ call'[s].ask = call[s].ask
                                  /\ call[s].contested \subseteq call'[s].contested
                                  /\ call[s].pc # "idle" => Touches(ask) \subseteq call'[s].contested
    BY <1>1, <1>3 DEF CallShaped
  <2>3. CASE p = r
    <3>1. q \in others
      BY <2>2, <2>3 DEF others, InFlight
    <3>2. call'[q].ask = call[q].ask
      BY <2>2, <2>3
    <3>3. QED
      BY <1>1, <2>1, <2>3, <3>1, <3>2
  <2>4. CASE q = r
    <3>1. call'[q].ask = ask
      BY <1>1, <2>1, <2>4
    <3>2. QED
      BY <2>2, <2>4, <3>1
  <2>5. CASE p # r /\ q # r
    <3>1. InFlight(call[q]) /\ call[p].pc # "idle"
      BY <2>2, <2>5 DEF InFlight
    <3>2. Touches(call[q].ask) \subseteq call[p].contested
      BY <3>1 DEF ApiInv, Meets
    <3>3. QED
      BY <2>2, <2>5, <3>2
  <2>6. QED
    BY <2>3, <2>4, <2>5
<1>9. TablesOk(db)' /\ store' \in {"mem", "pg"} /\ serial' \in Nat /\ DOMAIN call' = Requests
  <2>1. TablesOk(db)'
    BY <1>1 DEF ApiInv, TablesOk, OneRsvp
  <2>2. QED
    BY <1>1, <2>1 DEF ApiInv
<1>10. QED
  BY <1>7, <1>8, <1>9 DEF ApiInv

\* A request that is received, or forgotten, leaves nothing behind.
LEMMA ReceivedKeeps ==
  ASSUME ApiInv, NEW r \in Requests, call' = [call EXCEPT ![r] = NoCall],
         UNCHANGED <<store, db, serial>>
  PROVE  ApiInv'
<1>1. CallFits(NoCall, db) /\ Meanwhile(NoCall, db)
  <2>1. NoCall.pc = "idle" /\ CallShaped(NoCall)
    BY DEF NoCall, CallShaped
  <2>2. Routed(NoCall) /\ Meanwhile(NoCall, db)
    BY <2>1 DEF Routed, Meanwhile, InFlight
  <2>3. LooksFit(NoCall, db) /\ EditFits(NoCall, db) /\ RsvpFits(NoCall, db) /\ ScoresFit(NoCall)
    BY <2>1 DEF LooksFit, EditFits, RsvpFits, ScoresFit
  <2>4. QED
    BY <2>1, <2>2, <2>3 DEF CallFits
<1>2. \A q \in Requests : CallFits(call'[q], db) /\ Meanwhile(call'[q], db)
  BY <1>1 DEF ApiInv
<1>3. \A q \in Requests : (CallFits(call[q], db) /\ Meanwhile(call[q], db))'
  <2> TAKE q \in Requests
  <2>1. CallFits(call'[q], db) /\ Meanwhile(call'[q], db)
    BY <1>2
  <2>2. (CallShaped(call[q]) /\ Routed(call[q]))'
    BY <2>1 DEF CallFits, CallShaped, Routed
  <2>3. LooksFit(call[q], db)'
    BY <2>1 DEF CallFits, LooksFit, Rsvps
  <2>4. (EditFits(call[q], db) /\ RsvpFits(call[q], db))'
    BY <2>1 DEF CallFits, EditFits, RsvpFits, Rsvps
  <2>5. ScoresFit(call[q])'
    BY <2>1 DEF CallFits, ScoresFit
  <2>6. Meanwhile(call[q], db)'
    BY <2>1 DEF Meanwhile, InFlight
  <2>7. QED
    BY <2>2, <2>3, <2>4, <2>5, <2>6 DEF CallFits
<1>4. Meets'
  BY DEF ApiInv, Meets, NoCall, InFlight
<1>5. TablesOk(db)'
  BY DEF ApiInv, TablesOk, OneRsvp
<1>6. QED
  BY <1>3, <1>4, <1>5 DEF ApiInv

-----------------------------------------------------------------------------
(***************************************************************************)
(* Api: the invariant, and what it says of the answers.                    *)
(***************************************************************************)

\* A slot without a request fits whatever the tables are.
LEMMA NoCallFits ==
  ASSUME NEW tables
  PROVE  CallFits(NoCall, tables) /\ Meanwhile(NoCall, tables)
<1>1. NoCall.pc = "idle" /\ CallShaped(NoCall)
  BY DEF NoCall, CallShaped
<1>2. Routed(NoCall) /\ Meanwhile(NoCall, tables)
  BY <1>1 DEF Routed, Meanwhile, InFlight
<1>3. /\ LooksFit(NoCall, tables) /\ EditFits(NoCall, tables) /\ RsvpFits(NoCall, tables)
      /\ ScoresFit(NoCall)
  BY <1>1 DEF LooksFit, EditFits, RsvpFits, ScoresFit
<1>4. QED
  BY <1>1, <1>2, <1>3 DEF CallFits

\* It holds at the start, from what is assumed of the tables that are given.
LEMMA ApiInvInitially == ApiInit => ApiInv
<1> SUFFICES ASSUME ApiInit PROVE ApiInv
  OBVIOUS
<1>1. store \in {"mem", "pg"} /\ serial \in Nat /\ DOMAIN call = Requests
  BY ApiAssumption DEF ApiInit
<1>2. TablesOk(db)
  <2>1. db = Given
    BY DEF ApiInit
  <2>2. OneRsvp(Given)
    BY ApiAssumption DEF OneRsvp
  <2>3. \A uid \in DOMAIN Given.profiles : ProfileOk(Given.profiles[uid])
    BY ApiAssumption DEF ProfileOk
  <2>4. /\ DOMAIN Given = Names /\ IsFiniteSet(DOMAIN Given.games)
        /\ \A g \in DOMAIN Given.games : Given.games[g].startTime \in Nat
    BY ApiAssumption
  <2>5. QED
    BY <2>1, <2>2, <2>3, <2>4 DEF TablesOk
<1>3. \A r \in Requests : CallFits(call[r], db) /\ Meanwhile(call[r], db)
  BY NoCallFits DEF ApiInit
<1>4. Meets
  BY DEF ApiInit, Meets, InFlight, NoCall
<1>5. QED
  BY <1>1, <1>2, <1>3, <1>4 DEF ApiInv

\* It depends on nothing but these variables.
LEMMA ApiStands == ASSUME ApiInv, UNCHANGED <<store, db, call, serial>> PROVE ApiInv'
<1>1. \A r \in Requests : (CallFits(call[r], db) /\ Meanwhile(call[r], db))'
  <2> TAKE r \in Requests
  <2>1. CallFits(call[r], db) /\ Meanwhile(call[r], db) /\ call'[r] = call[r] /\ db' = db
    BY DEF ApiInv
  <2>2. (CallShaped(call[r]) /\ Routed(call[r]))'
    BY <2>1 DEF CallFits, CallShaped, Routed
  <2>3. LooksFit(call[r], db)'
    BY <2>1 DEF CallFits, LooksFit, Rsvps
  <2>4. (EditFits(call[r], db) /\ RsvpFits(call[r], db))'
    BY <2>1 DEF CallFits, EditFits, RsvpFits, Rsvps
  <2>5. ScoresFit(call[r])'
    BY <2>1 DEF CallFits, ScoresFit
  <2>6. Meanwhile(call[r], db)'
    BY <2>1 DEF Meanwhile, InFlight
  <2>7. QED
    BY <2>2, <2>3, <2>4, <2>5, <2>6 DEF CallFits
<1>2. Meets'
  BY DEF ApiInv, Meets, InFlight
<1>3. TablesOk(db)'
  BY DEF ApiInv, TablesOk, OneRsvp
<1>4. QED
  BY <1>1, <1>2, <1>3 DEF ApiInv

\* The requests that are asked, and the steps of their handlers.
LEMMA ApiInvKept == ApiInv /\ [ApiNext]_api => ApiInv'
<1> SUFFICES ASSUME ApiInv, [ApiNext]_api PROVE ApiInv'
  OBVIOUS
<1>1. CASE \E r \in Requests : Serves(r)
  BY <1>1, ServesKeeps
<1>2. CASE \E r \in Requests, ask \in Asks : Arrives(r, ask)
  <2>1. PICK r \in Requests, ask \in Asks : Arrives(r, ask)
    BY <1>2
  <2>2. WellAsked(ask)
    BY ApiAssumption
  <2>3. QED
    BY <2>1, <2>2, ArrivesKeeps
<1>3. CASE UNCHANGED api
  BY <1>3, ApiStands DEF api
<1>4. QED
  BY <1>1, <1>2, <1>3 DEF ApiNext

\* The three properties of the answers are parts of it.
LEMMA AnswersAreRight == ApiInv => EditsKept /\ Withdrawn /\ FavoritesOnly
<1> SUFFICES ASSUME ApiInv PROVE EditsKept /\ Withdrawn /\ FavoritesOnly
  OBVIOUS
<1>1. EditsKept
  BY DEF EditsKept, Acknowledged, ApiInv, CallFits, EditFits
<1>2. Withdrawn
  <2> SUFFICES ASSUME NEW r \in Requests, Acknowledged(r, {"unrsvp"}),
                      <<"rsvp", call[r].ask.who, call[r].ask.id>> \notin call[r].contested
               PROVE  ~P!HasRsvp(db, call[r].ask.id, call[r].ask.who)
    BY DEF Withdrawn
  <2>1. Rsvps(db, call[r].ask.id, call[r].ask.who) = {}
    BY DEF Acknowledged, ApiInv, CallFits, RsvpFits
  <2>2. QED
    BY <2>1 DEF P!HasRsvp, Rsvps
<1>3. FavoritesOnly
  BY DEF FavoritesOnly, Acknowledged, ApiInv, CallFits, ScoresFit
<1>4. QED
  BY <1>1, <1>2, <1>3

\* Whatever is asked of the server, and in whatever order its handlers take their steps.
LEMMA ApiSpecInv == ApiSpec => []ApiInv
BY ApiInvInitially, ApiInvKept, PTL DEF ApiSpec

\* An edit of a profile that was acknowledged is not lost, with any number of
\* requests in flight on either storage: what it wrote is in the table until
\* another edit of that column is (routes.ts).
THEOREM ApiKeepsEdits == ApiSpec => []EditsKept
BY ApiSpecInv, AnswersAreRight, PTL

\* An RSVP that was withdrawn is gone, whichever of its rows a storage deletes:
\* in memory there is one at most, since nothing comes between check and insert.
THEOREM ApiWithdraws == ApiSpec => []Withdrawn
BY ApiSpecInv, AnswersAreRight, PTL

\* Every game in an answer to a user with favorites is of a team that was a
\* favorite meanwhile, for any teams, games, limits and pages that are asked for.
THEOREM ApiShowsFavoritesOnly == ApiSpec => []FavoritesOnly
BY ApiSpecInv, AnswersAreRight, PTL

-----------------------------------------------------------------------------
(***************************************************************************)
(* AccountPages: a page knows no more than the table.                      *)
(***************************************************************************)
Profiling == {"read"} \cup Edits

\* Nobody takes back that onboarding was finished, and an answer that says so was
\* right.
Forward(c) ==
  (c.pc # "idle" /\ c.ask.op \in Edits /\ "done" \in DOMAIN c.ask.data) => c.ask.data.done
Behind(c, tables) ==
  (c.pc = "over" /\ c.ask.op \in Profiling /\ c.status = 200)
    => /\ c.ask.who \in DOMAIN tables.profiles
       /\ c.body.done => tables.profiles[c.ask.who].done

\* What a page waits for: the profile, and the answer to each of its forms.
Waits == Forms \cup {"query"}
Awaited(p, w) == IF w = "query" THEN p.query ELSE p.busy[w]

PageShaped(p) ==
  /\ DOMAIN p = {"at", "user", "ready", "signUpFlow", "status", "profile", "query", "busy", "finishing"}
  /\ DOMAIN p.busy = Forms

\* A page without a user has asked for nothing but an account.
PageUsed(p, who) ==
  /\ p.user # Null => p.user = who
  /\ ~p.ready => p.user = Null
  /\ p.user = Null => /\ p.status = "none" /\ ~p.finishing
                      /\ \A w \in Waits \ {"login"} : Awaited(p, w) = Null

\* Each answer is awaited once, and is about whoever is signed in.
PageWaits(p, who, calls) ==
  \A w \in Waits :
    LET r == Awaited(p, w)
    IN r # Null => /\ r \in Requests
                   /\ calls[r].pc # "idle" /\ calls[r].ask.op \in Profiling /\ calls[r].ask.who = who
                   /\ \A other \in Waits \ {w} : Awaited(p, other) # r

\* The cache.
PageKnows(p, tables) ==
  p.status = "row" => /\ p.user \in DOMAIN tables.profiles
                      /\ p.profile.done => tables.profiles[p.user].done

PagesInv ==
  /\ ApiInv
  /\ \A r \in Requests : Forward(call[r]) /\ Behind(call[r], db)
  /\ PageShaped(page) /\ PageUsed(page, current) /\ PageWaits(page, current, call)
  /\ PageKnows(page, db)

\* No step of a handler takes it back.
LEMMA DoneStays ==
  ASSUME ApiInv, NEW c, c.pc # "idle", Forward(c), NEW tables, ProfilesMove(c, tables),
         NEW uid \in DOMAIN db.profiles
  PROVE  /\ uid \in DOMAIN tables.profiles
         /\ db.profiles[uid].done => tables.profiles[uid].done
<1>1. CASE Same(db.profiles, tables.profiles)
  BY <1>1 DEF Same
<1>2. CASE /\ c.ask.op \in Edits
           /\ \E row, old :
                /\ With(db.profiles, tables.profiles, c.ask.who, row)
                /\ Laid(row, c.ask.data, old)
                /\ \/ c.ask.who \in DOMAIN db.profiles /\ old = db.profiles[c.ask.who]
                   \/ c.ask.who \notin DOMAIN db.profiles /\ Blank(old)
  <2>1. PICK row, old : /\ With(db.profiles, tables.profiles, c.ask.who, row)
                        /\ Laid(row, c.ask.data, old)
                        /\ \/ c.ask.who \in DOMAIN db.profiles /\ old = db.profiles[c.ask.who]
                           \/ c.ask.who \notin DOMAIN db.profiles /\ Blank(old)
    BY <1>2
  <2>2. uid \in DOMAIN tables.profiles
    BY <2>1 DEF With
  <2>3. CASE uid # c.ask.who
    BY <2>1, <2>2, <2>3 DEF With
  <2>4. CASE uid = c.ask.who
    <3>1. old = db.profiles[uid] /\ tables.profiles[uid] = row
      BY <2>1, <2>4 DEF With
    <3>2. CASE "done" \in DOMAIN c.ask.data
      <4>1. row.done = c.ask.data.done /\ c.ask.data.done
        BY <1>2, <2>1, <3>2 DEF Laid, Forward
      <4>2. QED
        BY <2>2, <3>1, <4>1
    <3>3. CASE "done" \notin DOMAIN c.ask.data
      <4>1. "done" \in DOMAIN old
        BY <3>1 DEF ApiInv, TablesOk, ProfileOk
      <4>2. row.done = old.done
        BY <2>1, <3>3, <4>1 DEF Laid
      <4>3. QED
        BY <2>2, <3>1, <4>2
    <3>4. QED
      BY <3>2, <3>3
  <2>5. QED
    BY <2>3, <2>4
<1>3. QED
  BY <1>1, <1>2 DEF ProfilesMove

\* A step of a handler, as the pages see it.
LEMMA ServesPages ==
  ASSUME PagesInv, NEW r \in Requests, Serves(r)
  PROVE  /\ \A q \in Requests : /\ call'[q].ask = call[q].ask
                                /\ call'[q].pc = "idle" <=> call[q].pc = "idle"
         /\ \A q \in Requests : Forward(call'[q]) /\ Behind(call'[q], db')
         /\ \A uid \in DOMAIN db.profiles : /\ uid \in DOMAIN db'.profiles
                                            /\ db.profiles[uid].done => db'.profiles[uid].done
<1>1. PICK tables, next : Moves(r, tables, next) /\ Goes(r, tables, next)
  BY ServesMoves DEF PagesInv, Moved
<1> DEFINE Then(q) == IF q = r THEN next ELSE call[q]
<1>2. db' = tables /\ \A q \in Requests : call'[q] = Noted(Then(q), tables)
  BY <1>1 DEF Goes
<1>3. \A q \in Requests : CallShaped(Then(q))
  BY <1>1 DEF Moves, PagesInv, ApiInv, CallFits
<1>4. \A q \in Requests : LET n == call'[q] IN
         /\ n.pc = Then(q).pc /\ n.ask = Then(q).ask
         /\ n.status = Then(q).status /\ n.body = Then(q).body
  BY <1>2, <1>3, NotedIsAsked
<1>5. /\ call[r].pc # "idle" /\ next.pc # "idle" /\ next.ask = call[r].ask
      /\ ProfilesMove(call[r], tables) /\ BodyFits(next, tables)
  BY <1>1 DEF Moves, InFlight
<1>6. \A uid \in DOMAIN db.profiles : /\ uid \in DOMAIN tables.profiles
                                      /\ db.profiles[uid].done => tables.profiles[uid].done
  BY <1>5, DoneStays DEF PagesInv
<1>7. \A q \in Requests : Forward(Then(q)) /\ Behind(Then(q), tables)
  <2> TAKE q \in Requests
  <2>1. CASE q = r
    <3>1. Forward(next)
      BY <1>5 DEF PagesInv, Forward
    <3>2. Behind(next, tables)
      BY <1>5 DEF BodyFits, Behind, Profiling
    <3>3. QED
      BY <2>1, <3>1, <3>2
  <2>2. CASE q # r
    <3>1. Forward(call[q]) /\ Behind(call[q], db)
      BY DEF PagesInv
    <3>2. Behind(call[q], tables)
      BY <1>6, <3>1 DEF Behind
    <3>3. QED
      BY <2>2, <3>1, <3>2
  <2>3. QED
    BY <2>1, <2>2
<1> HIDE DEF Then
<1>8. \A q \in Requests : Forward(call'[q]) /\ Behind(call'[q], tables)
  BY <1>4, <1>7 DEF Forward, Behind
<1>9. \A q \in Requests : /\ call'[q].ask = call[q].ask
                          /\ call'[q].pc = "idle" <=> call[q].pc = "idle"
  BY <1>4, <1>5 DEF Then
<1>10. QED
  BY <1>2, <1>6, <1>8, <1>9

\* So the page knows no more than before of a server that moves on.
LEMMA ServedPage ==
  ASSUME PagesInv, NEW r \in Requests, Serves(r), UNCHANGED pages
  PROVE  PagesInv'
<1>1. ApiInv'
  BY ServesKeeps DEF PagesInv
<1>2. page' = page /\ current' = current
  BY DEF pages
<1>3. \A q \in Requests : (Forward(call[q]) /\ Behind(call[q], db))'
  BY ServesPages DEF Forward, Behind
<1>4. PageShaped(page)' /\ PageUsed(page, current)'
  BY <1>2 DEF PagesInv, PageShaped, PageUsed, Awaited
<1>5. PageWaits(page, current, call)'
  BY <1>2, ServesPages DEF PagesInv, PageWaits, Awaited
<1>6. PageKnows(page, db)'
  BY <1>2, ServesPages DEF PagesInv, PageKnows
<1>7. QED
  BY <1>1, <1>3, <1>4, <1>5, <1>6 DEF PagesInv

\* A request that arrives takes a slot of the page that had nobody waiting.
LEMMA ArrivesPages ==
  ASSUME PagesInv, NEW r \in Requests, NEW ask, Arrives(r, ask)
  PROVE  /\ call[r].pc = "idle" /\ call'[r].pc # "idle" /\ call'[r].pc # "over" /\ call'[r].ask = ask
         /\ db' = db
         /\ \A q \in Requests \ {r} : /\ call'[q].pc = call[q].pc /\ call'[q].ask = call[q].ask
                                      /\ call'[q].status = call[q].status
                                      /\ call'[q].body = call[q].body
<1> DEFINE others == {q \in Requests \ {r} : InFlight(call[q])}
           new == [NoCall EXCEPT !.pc = "auth", !.ask = ask,
                                 !.contested = UNION {Touches(call[q].ask) : q \in others}]
           Met(q) == [call[q] EXCEPT !.contested = @ \cup Touches(ask)]
<1>1. /\ call[r].pc = "idle" /\ db' = db
      /\ call' = [q \in Requests |-> IF q = r THEN Noted(new, db)
                                     ELSE IF call[q].pc = "idle" THEN call[q] ELSE Met(q)]
  BY DEF Arrives
<1>2. CallShaped(new) /\ new.pc = "auth" /\ new.ask = ask
  BY DEF NoCall, CallShaped
<1>3. ASSUME NEW q \in Requests
      PROVE  \A f \in DOMAIN call[q] \ {"contested"} : Met(q)[f] = call[q][f]
  BY DEF PagesInv, ApiInv, CallFits, CallShaped
<1>4. \A q \in Requests : CallShaped(call[q])
  BY DEF PagesInv, ApiInv, CallFits
<1> HIDE DEF new, Met, others
<1>5. LET n == Noted(new, db) IN n.pc = "auth" /\ n.ask = ask
  BY <1>2, NotedIsAsked
<1>6. QED
  BY <1>1, <1>3, <1>4, <1>5 DEF CallShaped

\* What the pages ask for, of whoever is signed in.
Proper(ask, who) ==
  /\ ask.op \in Profiling /\ ask.who = who
  /\ ask.op \in Edits => /\ "done" \in DOMAIN ask.data => ask.data.done
                         /\ "teams" \in DOMAIN ask.data => IsFiniteSet(ask.data.teams)

\* p is a page that waits at w for r, and is otherwise as it was.
Waiting(p, w, r) ==
  /\ PageShaped(p) /\ Awaited(p, w) = r
  /\ \A other \in Waits \ {w} : Awaited(p, other) = Awaited(page, other)

\* A page that asks for what is its user's, in a slot of its own, keeps the invariant.
LEMMA Asking ==
  ASSUME PagesInv, NEW r \in Requests, NEW ask, Arrives(r, ask), NEW w \in Waits, Proper(ask, current'),
         Waiting(page', w, r),
         \/ current' = current
         \/ w = "login" /\ \A other \in Waits \ {w} : Awaited(page, other) = Null,
         PageUsed(page', current'), PageKnows(page', db)
  PROVE  PagesInv'
<1>1. ApiInv'
  <2>1. WellAsked(ask)
    BY DEF Proper, WellAsked, Profiling, Operations, Edits, Own, Lists, Scores
  <2>2. QED
    BY <2>1, ArrivesKeeps DEF PagesInv
<1>2. \A q \in Requests : (Forward(call[q]) /\ Behind(call[q], db))'
  <2> TAKE q \in Requests
  <2>1. CASE q = r
    BY <2>1, ArrivesPages DEF Forward, Behind, Proper
  <2>2. CASE q # r
    BY <2>2, ArrivesPages DEF PagesInv, Forward, Behind
  <2>3. QED
    BY <2>1, <2>2
<1>3. PageShaped(page)'
  BY DEF Waiting, PageShaped
<1>4. PageUsed(page, current)'
  BY DEF PageUsed, Awaited
<1>5. PageWaits(page', current', call')
  <2> SUFFICES ASSUME NEW v \in Waits, Awaited(page', v) # Null
               PROVE  LET q == Awaited(page', v) IN
                      /\ q \in Requests
                      /\ call'[q].pc # "idle" /\ call'[q].ask.op \in Profiling
                      /\ call'[q].ask.who = current'
                      /\ \A other \in Waits \ {v} : Awaited(page', other) # q
    BY Zenon DEF PageWaits
  <2>1. \A o \in Waits \ {w} : Awaited(page, o) # r
    BY ArrivesPages, PagesAssumption DEF PagesInv, PageWaits
  <2>2. CASE v = w
    <3>1. \A o \in Waits \ {v} : Awaited(page', o) # r
      BY <2>1, <2>2 DEF Waiting
    <3>2. QED
      BY <2>2, <3>1, ArrivesPages DEF Waiting, Proper
  <2>3. CASE v # w
    <3> DEFINE q == Awaited(page, v)
    <3>1. q = Awaited(page', v) /\ q # Null /\ q # r
      BY <2>1, <2>3 DEF Waiting
    <3>2. /\ q \in Requests
          /\ call[q].pc # "idle" /\ call[q].ask.op \in Profiling /\ call[q].ask.who = current
          /\ \A other \in Waits \ {v} : Awaited(page, other) # q
      BY <3>1 DEF PagesInv, PageWaits
    <3>3. current' = current
      BY <2>3, <3>1
    <3>4. \A other \in Waits \ {v} : Awaited(page', other) # q
      BY <3>1, <3>2 DEF Waiting
    <3>5. call'[q].pc = call[q].pc /\ call'[q].ask = call[q].ask
      BY <3>1, <3>2, ArrivesPages
    <3>6. QED
      BY <3>1, <3>2, <3>3, <3>4, <3>5
  <2>4. QED
    BY <2>2, <2>3
<1>6. PageWaits(page, current, call)'
  BY <1>5 DEF PageWaits, Awaited
<1>7. PageKnows(page, db)'
  BY ArrivesPages DEF PageKnows
<1>8. QED
  BY <1>1, <1>2, <1>3, <1>4, <1>6, <1>7 DEF PagesInv

\* An answer that is received leaves its slot.
LEMMA Hearing ==
  ASSUME PagesInv, NEW r \in Requests, call' = [call EXCEPT ![r] = NoCall],
         UNCHANGED <<store, db, serial, current>>, PageShaped(page'),
         \A w \in Waits : Awaited(page', w) = IF Awaited(page, w) = r THEN Null ELSE Awaited(page, w),
         PageUsed(page', current), PageKnows(page', db)
  PROVE  PagesInv'
<1>1. ApiInv'
  BY ReceivedKeeps DEF PagesInv
<1>2. NoCall.pc = "idle"
  BY DEF NoCall
<1>3. DOMAIN call = Requests
  BY DEF PagesInv, ApiInv
<1>4. \A q \in Requests : call'[q] = IF q = r THEN NoCall ELSE call[q]
  BY <1>3
<1>5. \A q \in Requests : (Forward(call[q]) /\ Behind(call[q], db))'
  BY <1>2, <1>4 DEF PagesInv, Forward, Behind
<1>6. PageShaped(page)' /\ PageUsed(page, current)' /\ PageKnows(page, db)'
  BY DEF PageShaped, PageUsed, PageKnows, Awaited
<1>7. PageWaits(page', current', call')
  BY <1>4 DEF PagesInv, PageWaits
<1>8. PageWaits(page, current, call)'
  BY <1>7 DEF PageWaits, Awaited
<1>9. QED
  BY <1>1, <1>5, <1>6, <1>8 DEF PagesInv

\* A step that asks nothing and hears nothing.
LEMMA Browsing ==
  ASSUME PagesInv, UNCHANGED api, PageShaped(page'), PageUsed(page', current'), PageKnows(page', db),
         \/ /\ current' = current
            /\ \A w \in Waits : Awaited(page', w) = Awaited(page, w)
         \/ \A w \in Waits : Awaited(page', w) = Null
  PROVE  PagesInv'
<1>1. /\ store' = store /\ db' = db /\ call' = call /\ serial' = serial
  BY DEF api
<1>2. ApiInv'
  BY <1>1, ApiStands DEF PagesInv
<1>3. \A q \in Requests : (Forward(call[q]) /\ Behind(call[q], db))'
  BY <1>1 DEF PagesInv, Forward, Behind
<1>4. PageShaped(page)' /\ PageUsed(page, current)' /\ PageKnows(page, db)'
  BY <1>1 DEF PageShaped, PageUsed, PageKnows, Awaited
<1>5. PageWaits(page', current', call)
  BY DEF PagesInv, PageWaits
<1>6. PageWaits(page, current, call)'
  BY <1>1, <1>5 DEF PageWaits, Awaited
<1>7. QED
  BY <1>2, <1>3, <1>4, <1>6 DEF PagesInv

\* The user that Firebase remembers is there at last.
LEMMA BootsKeep == ASSUME PagesInv, Boots PROVE PagesInv'
<1>1. /\ ~page.ready /\ page' = [page EXCEPT !.ready = TRUE, !.user = current]
      /\ UNCHANGED api /\ current' = current
  BY DEF Boots
<1>2. PageShaped(page') /\ \A w \in Waits : Awaited(page', w) = Awaited(page, w)
  BY <1>1 DEF PagesInv, PageShaped, Awaited
<1>3. page.user = Null /\ page'.user = current' /\ page'.ready /\ page'.status = page.status
      /\ page'.finishing = page.finishing
  BY <1>1 DEF PagesInv, PageUsed, PageShaped
<1>4. PageUsed(page', current') /\ PageKnows(page', db)
  BY <1>2, <1>3 DEF PagesInv, PageUsed, PageKnows
<1>5. QED
  BY <1>1, <1>2, <1>4, Browsing

\* Where the page is does not matter, nor whether it is signing up.
LEMMA MovesOn ==
  ASSUME PagesInv, NEW at, page' = [page EXCEPT !.at = at], UNCHANGED <<api, current>>
  PROVE  PagesInv'
<1>1. /\ PageShaped(page') /\ \A w \in Waits : Awaited(page', w) = Awaited(page, w)
      /\ page'.user = page.user /\ page'.ready = page.ready /\ page'.status = page.status
      /\ page'.finishing = page.finishing /\ page'.profile = page.profile
  BY DEF PagesInv, PageShaped, Awaited
<1>2. PageUsed(page', current') /\ PageKnows(page', db)
  BY <1>1 DEF PagesInv, PageUsed, PageKnows
<1>3. QED
  BY <1>1, <1>2, Browsing

\* A page that is loaded again has forgotten all it waited for.
LEMMA ReloadKeeps ==
  ASSUME PagesInv, UNCHANGED api, NEW at, page' = NewPage(at)
  PROVE  PagesInv'
<1>1. /\ PageShaped(page') /\ \A w \in Waits : Awaited(page', w) = Null
      /\ page'.user = Null /\ page'.status = "none" /\ ~page'.finishing
  BY DEF PageShaped, Awaited, NewPage, Waits
<1>2. PageUsed(page', current') /\ PageKnows(page', db)
  BY <1>1 DEF PageUsed, PageKnows
<1>3. QED
  BY <1>1, <1>2, Browsing

\* Signing in: nothing is cached yet.
LEMMA SignsInKeeps == ASSUME PagesInv, NEW uid \in Uids, SignsIn(uid) PROVE PagesInv'
<1>1. /\ page.user = Null /\ page.busy["login"] = Null /\ current' = uid /\ UNCHANGED api
      /\ page' = [page EXCEPT !.user = uid, !.ready = TRUE, !.at = "home"]
  BY DEF SignsIn
<1>2. \A w \in Waits : Awaited(page, w) = Null
  BY <1>1 DEF PagesInv, PageUsed, Awaited
<1>3. /\ PageShaped(page') /\ \A w \in Waits : Awaited(page', w) = Awaited(page, w)
      /\ page'.user = uid /\ page'.ready /\ page'.status = page.status
  BY <1>1 DEF PagesInv, PageShaped, Awaited
<1>4. uid # Null /\ page.status = "none"
  BY <1>1, PagesAssumption DEF PagesInv, PageUsed
<1>5. PageUsed(page', current') /\ PageKnows(page', db)
  BY <1>1, <1>3, <1>4 DEF PageUsed, PageKnows
<1>6. QED
  BY <1>1, <1>2, <1>3, <1>5, Browsing

\* Signing up: the page has no user until the profile is there.
LEMMA SignsUpKeeps ==
  ASSUME PagesInv, NEW uid \in Uids, NEW r \in Requests, SignsUp(r, uid) PROVE PagesInv'
<1> DEFINE ask == [op |-> "upsert", by |-> uid, who |-> uid,
                   data |-> [name |-> Name, sports |-> <<>>, teams |-> {}]]
<1>1. /\ page.user = Null /\ page.busy["login"] = Null /\ current' = uid
      /\ Arrives(r, ask)
      /\ page' = [page EXCEPT !.signUpFlow = TRUE, !.busy["login"] = r]
  BY DEF SignsUp, Sends
<1>2. /\ Waiting(page', "login", r)
      /\ page'.user = page.user /\ page'.ready = page.ready /\ page'.status = page.status
      /\ page'.finishing = page.finishing /\ page'.profile = page.profile
  BY <1>1 DEF PagesInv, PageShaped, Awaited, Waiting, Forms, Waits
<1>3. \A w \in Waits \ {"login"} : Awaited(page, w) = Null
  BY <1>1 DEF PagesInv, PageUsed
<1>4. Proper(ask, current')
  <2>1. IsFiniteSet({})
    BY FS_EmptySet
  <2>2. QED
    BY <1>1, <2>1 DEF Proper, Profiling, Edits
<1>5. PageUsed(page', current') /\ PageKnows(page', db)
  BY <1>1, <1>2, <1>3 DEF PagesInv, PageUsed, PageKnows, Waiting
<1> HIDE DEF ask
<1>6. QED
  BY <1>1, <1>2, <1>3, <1>4, <1>5, Asking DEF Waits, Forms

\* The requests of whoever is signed in.
LEMMA SendsKeeps ==
  ASSUME PagesInv, NEW r \in Requests, NEW ask, NEW w \in Waits \ {"login"}, NEW next,
         Sends(r, ask, next), UNCHANGED current, Proper(ask, page.user), page.user # Null,
         Waiting(next, w, r),
         next.user = page.user, next.ready = page.ready, next.status # "row" \/ next.status = page.status,
         next.profile = page.profile
  PROVE  PagesInv'
<1>1. Arrives(r, ask) /\ page' = next
  BY DEF Sends
<1>2. page.user = current
  BY DEF PagesInv, PageUsed
<1>3. PageUsed(page', current') /\ PageKnows(page', db)
  BY <1>1, <1>2 DEF PagesInv, PageUsed, PageKnows
<1>4. QED
  BY <1>1, <1>2, <1>3, Asking

\* The query of the profile.
LEMMA FetchesKeeps == ASSUME PagesInv, NEW r \in Requests, Fetches(r) PROVE PagesInv'
<1> DEFINE ask == [op |-> "read", by |-> page.user, who |-> page.user]
           next == [page EXCEPT !.status = "loading", !.query = r]
<1>1. page.user # Null /\ Sends(r, ask, next) /\ UNCHANGED current
  BY DEF Fetches
<1>2. Proper(ask, page.user)
  BY DEF Proper, Profiling, Edits
<1>3. /\ Waiting(next, "query", r) /\ next.user = page.user /\ next.ready = page.ready
      /\ next.status = "loading" /\ next.profile = page.profile
  BY DEF PagesInv, PageShaped, Awaited, Waiting, Forms, Waits
<1> HIDE DEF ask, next
<1>4. QED
  BY <1>1, <1>2, <1>3, SendsKeeps DEF Waits, Forms

\* The preferences of the onboarding.
LEMMA FinishesKeeps == ASSUME PagesInv, NEW r \in Requests, Finishes(r) PROVE PagesInv'
<1> DEFINE ask == [op |-> "upsert", by |-> page.user, who |-> page.user,
                   data |-> [sports |-> SportList, teams |-> TeamList]]
           next == [page EXCEPT !.busy["onboarding"] = r]
<1>1. page.user # Null /\ Sends(r, ask, next) /\ UNCHANGED current
  BY DEF Finishes, Shows
<1>2. Proper(ask, page.user)
  BY PagesAssumption DEF Proper, Profiling, Edits
<1>3. /\ Waiting(next, "onboarding", r) /\ next.user = page.user /\ next.ready = page.ready
      /\ next.status = page.status /\ next.profile = page.profile
  BY DEF PagesInv, PageShaped, Awaited, Waiting, Forms, Waits
<1> HIDE DEF ask, next
<1>4. QED
  BY <1>1, <1>2, <1>3, SendsKeeps DEF Waits, Forms

\* The end of the onboarding.
LEMMA CompletesKeeps == ASSUME PagesInv, NEW r \in Requests, Completes(r) PROVE PagesInv'
<1> DEFINE ask == [op |-> "onboarded", by |-> page.user, who |-> page.user, data |-> [done |-> TRUE]]
           next == [page EXCEPT !.busy["onboarding"] = r]
<1>1. page.user # Null /\ Sends(r, ask, next) /\ UNCHANGED current
  BY DEF Completes, PagesInv, PageUsed
<1>2. Proper(ask, page.user)
  BY DEF Proper, Profiling, Edits
<1>3. /\ Waiting(next, "onboarding", r) /\ next.user = page.user /\ next.ready = page.ready
      /\ next.status = page.status /\ next.profile = page.profile
  BY DEF PagesInv, PageShaped, Awaited, Waiting, Forms, Waits
<1> HIDE DEF ask, next
<1>4. QED
  BY <1>1, <1>2, <1>3, SendsKeeps DEF Waits, Forms

\* The settings.
LEMMA SavesKeeps == ASSUME PagesInv, NEW r \in Requests, Saves(r) PROVE PagesInv'
<1>1. PICK part \in {"name", "teams"} :
        Sends(r, [op |-> "patch", by |-> page.user, who |-> page.user,
                  data |-> IF part = "name" THEN [name |-> Name] ELSE [teams |-> NewTeams]],
              [page EXCEPT !.busy[part] = r])
  BY DEF Saves
<1> DEFINE data == IF part = "name" THEN [name |-> Name] ELSE [teams |-> NewTeams]
           ask == [op |-> "patch", by |-> page.user, who |-> page.user, data |-> data]
           next == [page EXCEPT !.busy[part] = r]
<1>2. page.user # Null /\ UNCHANGED current
  BY DEF Saves, Shows
<1>3. Proper(ask, page.user)
  <2>1. "done" \notin DOMAIN data /\ ("teams" \in DOMAIN data => IsFiniteSet(data.teams))
    BY PagesAssumption
  <2> HIDE DEF data
  <2>2. QED
    BY <2>1 DEF Proper, Profiling, Edits
<1>4. /\ Waiting(next, part, r) /\ next.user = page.user /\ next.ready = page.ready
      /\ next.status = page.status /\ next.profile = page.profile
  BY DEF PagesInv, PageShaped, Awaited, Waiting, Forms, Waits
<1>5. Sends(r, ask, next)
  BY <1>1
<1> HIDE DEF ask, next
<1>6. QED
  BY <1>2, <1>3, <1>4, <1>5, SendsKeeps DEF Waits, Forms

\* An answer about whoever is signed in is what the page may keep of it.
LEMMA Trusted ==
  ASSUME PagesInv, NEW w \in Waits, NEW r \in Requests, Awaited(page, w) = r, call[r].pc = "over"
  PROVE  /\ \A other \in Waits \ {w} : Awaited(page, other) # r
         /\ w # "login" => page.user # Null
         /\ (call[r].status = 200 /\ page.user # Null)
              => /\ page.user \in DOMAIN db.profiles
                 /\ call[r].body.done => db.profiles[page.user].done
<1>1. r # Null
  BY PagesAssumption
<1>2. /\ call[r].ask.op \in Profiling /\ call[r].ask.who = current
      /\ \A other \in Waits \ {w} : Awaited(page, other) # r
  BY <1>1 DEF PagesInv, PageWaits
<1>3. w # "login" => page.user # Null
  BY <1>1 DEF PagesInv, PageUsed
<1>4. page.user # Null => page.user = current
  BY DEF PagesInv, PageUsed
<1>5. QED
  BY <1>2, <1>3, <1>4 DEF PagesInv, Behind

\* p is the page that has heard what it waited for at w.
Heard(p, w) ==
  /\ PageShaped(p) /\ Awaited(p, w) = Null
  /\ \A other \in Waits \ {w} : Awaited(p, other) = Awaited(page, other)

\* A page that has heard an answer keeps the invariant if it may know it.
LEMMA ReceivesKeeps ==
  ASSUME PagesInv, NEW w \in Waits, NEW r \in Requests, Awaited(page, w) = r, NEW next,
         Receives(r, next), UNCHANGED current, Heard(next, w),
         PageUsed(next, current), PageKnows(next, db)
  PROVE  PagesInv'
<1>1. /\ call[r].pc = "over" /\ call' = [call EXCEPT ![r] = NoCall] /\ page' = next
      /\ UNCHANGED <<store, db, serial>>
  BY DEF Receives
<1>2. \A v \in Waits : Awaited(page', v) = IF Awaited(page, v) = r THEN Null ELSE Awaited(page, v)
  BY <1>1, Trusted DEF Heard
<1>3. QED
  BY <1>1, <1>2, Hearing DEF Heard

\* Hearing what changes neither the user nor the cache, and what fills the cache.
LEMMA HeardOnly ==
  ASSUME PagesInv, NEW w \in Waits, NEW r \in Requests, Awaited(page, w) = r, NEW next,
         Receives(r, next), UNCHANGED current, Heard(next, w),
         next.user = page.user, next.ready = page.ready,
         next.finishing => page.user # Null \/ page.finishing,
         \/ /\ next.status = page.status \/ (next.status # "row" /\ page.user # Null)
            /\ next.profile = page.profile
         \/ w # "login" /\ call[r].status = 200 /\ next.profile = call[r].body
  PROVE  PagesInv'
<1>1. call[r].pc = "over"
  BY DEF Receives
<1>2. PageUsed(next, current)
  BY <1>1, Trusted DEF PagesInv, PageUsed, Heard
<1>3. PageKnows(next, db)
  BY <1>1, Trusted DEF PagesInv, PageKnows
<1>4. QED
  BY <1>2, <1>3, ReceivesKeeps

\* The profile, or that there is none.
LEMMA FetchedKeeps == ASSUME PagesInv, NEW r \in Requests, Fetched(r) PROVE PagesInv'
<1> DEFINE row == [page EXCEPT !.status = "row", !.profile = call[r].body, !.query = Null]
           none == [page EXCEPT !.query = Null,
                                !.status = IF call[r].status = 404 THEN "missing" ELSE "error"]
<1>1. /\ Awaited(page, "query") = r /\ UNCHANGED current
      /\ Receives(r, IF call[r].status = 200 THEN row ELSE none)
  BY DEF Fetched, Awaited
<1>2. /\ Heard(row, "query") /\ row.user = page.user /\ row.ready = page.ready
      /\ row.finishing = page.finishing /\ row.profile = call[r].body
  BY DEF PagesInv, PageShaped, Awaited, Heard, Forms, Waits
<1>3. /\ Heard(none, "query") /\ none.user = page.user /\ none.ready = page.ready
      /\ none.finishing = page.finishing /\ none.profile = page.profile /\ none.status # "row"
  BY DEF PagesInv, PageShaped, Awaited, Heard, Forms, Waits
<1>4. page.user # Null
  BY <1>1, Trusted DEF Receives, Waits, Forms
<1> HIDE DEF row, none
<1>5. CASE call[r].status = 200
  BY <1>1, <1>2, <1>5, HeardOnly DEF Waits, Forms
<1>6. CASE call[r].status # 200
  BY <1>1, <1>3, <1>4, <1>6, HeardOnly DEF Waits, Forms
<1>7. QED
  BY <1>5, <1>6

\* The answer to a sign-up.
LEMMA SignedUpKeeps == ASSUME PagesInv, NEW r \in Requests, SignedUp(r) PROVE PagesInv'
<1> DEFINE in == [page EXCEPT !.busy["login"] = Null, !.user = current, !.ready = TRUE,
                              !.at = "onboarding"]
           out == [page EXCEPT !.busy["login"] = Null]
<1>1. /\ Awaited(page, "login") = r /\ UNCHANGED current
      /\ Receives(r, IF call[r].status = 200 THEN in ELSE out)
  BY DEF SignedUp, Awaited, Forms
<1>2. /\ Heard(in, "login") /\ in.user = current /\ in.ready /\ in.status = page.status
      /\ in.finishing = page.finishing /\ in.profile = page.profile
  BY DEF PagesInv, PageShaped, Awaited, Heard, Forms, Waits
<1>3. /\ Heard(out, "login") /\ out.user = page.user /\ out.ready = page.ready
      /\ out.finishing = page.finishing /\ out.profile = page.profile /\ out.status = page.status
  BY DEF PagesInv, PageShaped, Awaited, Heard, Forms, Waits
<1>4. PageUsed(in, current) /\ PageKnows(in, db)
  BY <1>2 DEF PagesInv, PageUsed, PageKnows, Heard
<1> HIDE DEF in, out
<1>5. CASE call[r].status = 200
  BY <1>1, <1>2, <1>4, <1>5, ReceivesKeeps DEF Waits, Forms
<1>6. CASE call[r].status # 200
  BY <1>1, <1>3, <1>6, HeardOnly DEF Waits, Forms
<1>7. QED
  BY <1>5, <1>6

\* The answer to the preferences, after which the onboarding is completed.
LEMMA PreferencesKeep == ASSUME PagesInv, NEW r \in Requests, PreferencesSaved(r) PROVE PagesInv'
<1> DEFINE next == [page EXCEPT !.busy["onboarding"] = Null, !.finishing = call[r].status = 200]
<1>1. Awaited(page, "onboarding") = r /\ UNCHANGED current /\ Receives(r, next)
  BY DEF PreferencesSaved, Awaited, Forms
<1>2. /\ Heard(next, "onboarding") /\ next.user = page.user /\ next.ready = page.ready
      /\ next.profile = page.profile /\ next.status = page.status
  BY DEF PagesInv, PageShaped, Awaited, Heard, Forms, Waits
<1>3. page.user # Null
  BY <1>1, Trusted DEF Receives, Waits, Forms
<1> HIDE DEF next
<1>4. QED
  BY <1>1, <1>2, <1>3, HeardOnly DEF Waits, Forms

\* The answer to the end of the onboarding.
LEMMA CompletedKeeps == ASSUME PagesInv, NEW r \in Requests, Completed(r) PROVE PagesInv'
<1> DEFINE over == [page EXCEPT !.busy["onboarding"] = Null, !.finishing = FALSE]
           home == [over EXCEPT !.status = "row", !.profile = call[r].body, !.at = "home"]
<1>1. /\ Awaited(page, "onboarding") = r /\ UNCHANGED current
      /\ Receives(r, IF call[r].status = 200 THEN home ELSE over)
  BY DEF Completed, Awaited, Forms
<1>2. /\ Heard(over, "onboarding") /\ over.user = page.user /\ over.ready = page.ready
      /\ ~over.finishing /\ over.profile = page.profile /\ over.status = page.status
  BY DEF PagesInv, PageShaped, Awaited, Heard, Forms, Waits
<1>3. /\ Heard(home, "onboarding") /\ home.user = page.user /\ home.ready = page.ready
      /\ ~home.finishing /\ home.profile = call[r].body
  BY DEF PagesInv, PageShaped, Awaited, Heard, Forms, Waits
<1> HIDE DEF over, home
<1>4. CASE call[r].status = 200
  BY <1>1, <1>3, <1>4, HeardOnly DEF Waits, Forms
<1>5. CASE call[r].status # 200
  BY <1>1, <1>2, <1>5, HeardOnly DEF Waits, Forms
<1>6. QED
  BY <1>4, <1>5

\* The answer to the settings.
LEMMA SavedKeeps == ASSUME PagesInv, NEW r \in Requests, Saved(r) PROVE PagesInv'
<1>1. PICK part \in {"name", "teams"} :
        /\ r = page.busy[part]
        /\ Receives(r, IF call[r].status = 200
                       THEN [page EXCEPT !.busy[part] = Null, !.status = "row", !.profile = call[r].body]
                       ELSE [page EXCEPT !.busy[part] = Null])
  BY DEF Saved
<1> DEFINE row == [page EXCEPT !.busy[part] = Null, !.status = "row", !.profile = call[r].body]
           old == [page EXCEPT !.busy[part] = Null]
<1>2. /\ Awaited(page, part) = r /\ UNCHANGED current
      /\ Receives(r, IF call[r].status = 200 THEN row ELSE old)
  BY <1>1 DEF Saved, Awaited, Forms
<1>3. /\ Heard(row, part) /\ row.user = page.user /\ row.ready = page.ready
      /\ row.finishing = page.finishing /\ row.profile = call[r].body
  BY DEF PagesInv, PageShaped, Awaited, Heard, Forms, Waits
<1>4. /\ Heard(old, part) /\ old.user = page.user /\ old.ready = page.ready
      /\ old.finishing = page.finishing /\ old.profile = page.profile /\ old.status = page.status
  BY DEF PagesInv, PageShaped, Awaited, Heard, Forms, Waits
<1>5. page.user # Null
  BY <1>2, Trusted DEF Receives, Waits, Forms
<1> HIDE DEF row, old
<1>6. CASE call[r].status = 200
  BY <1>2, <1>3, <1>5, <1>6, HeardOnly DEF Waits, Forms
<1>7. CASE call[r].status # 200
  BY <1>2, <1>4, <1>5, <1>7, HeardOnly DEF Waits, Forms
<1>8. QED
  BY <1>6, <1>7

\* An answer that nobody waits for any longer.
LEMMA ForgottenKeeps == ASSUME PagesInv, NEW r \in Requests, Forgotten(r) PROVE PagesInv'
<1>1. /\ ~Listens(r) /\ Receives(r, page) /\ UNCHANGED current
  BY DEF Forgotten
<1>2. \A w \in Waits : Awaited(page, w) # r
  BY <1>1 DEF Listens, Awaited, Waits
<1>3. QED
  BY <1>1, <1>2, Hearing DEF Receives, PagesInv

\* Every step of the pages and of the server behind them.
LEMMA PagesInvKept == PagesInv /\ [PagesNext]_<<api, pages>> => PagesInv'
<1> SUFFICES ASSUME PagesInv, [PagesNext]_<<api, pages>> PROVE PagesInv'
  OBVIOUS
<1>1. CASE Boots
  BY <1>1, BootsKeep
<1>2. CASE Redirects \/ Visits
  <2>1. PICK at : page' = [page EXCEPT !.at = at]
    BY <1>2, Zenon DEF Redirects, Visits
  <2>2. UNCHANGED <<api, current>>
    BY <1>2 DEF Redirects, Visits
  <2>3. QED
    BY <2>1, <2>2, MovesOn
<1>3. CASE SignsOut \/ Reloads
  BY <1>3, ReloadKeeps DEF SignsOut, Reloads
<1>4. CASE \E uid \in Uids : SignsIn(uid) \/ \E r \in Requests : SignsUp(r, uid)
  BY <1>4, SignsInKeeps, SignsUpKeeps
<1>5. ASSUME NEW r \in Requests,
             \/ Fetches(r) \/ Fetched(r) \/ Forgotten(r)
             \/ SignedUp(r) \/ Finishes(r) \/ PreferencesSaved(r) \/ Completes(r) \/ Completed(r)
             \/ Saves(r) \/ Saved(r)
             \/ Serves(r) /\ UNCHANGED pages
      PROVE  PagesInv'
  BY <1>5, FetchesKeeps, FetchedKeeps, ForgottenKeeps, SignedUpKeeps, FinishesKeeps, PreferencesKeep,
     CompletesKeeps, CompletedKeeps, SavesKeeps, SavedKeeps, ServedPage
<1>6. CASE UNCHANGED <<api, pages>>
  <2>1. /\ PageShaped(page') /\ PageUsed(page', current') /\ PageKnows(page', db)
        /\ \A w \in Waits : Awaited(page', w) = Awaited(page, w)
    BY <1>6 DEF pages, PagesInv, PageShaped, PageUsed, PageKnows, Awaited
  <2>2. QED
    BY <1>6, <2>1, Browsing DEF pages
<1>7. QED
  BY <1>1, <1>2, <1>3, <1>4, <1>5, <1>6 DEF PagesNext

\* A page that was just opened knows nothing.
LEMMA PagesInvInitially == ASSUME ApiInit, NEW known, PagesInit(known) PROVE PagesInv
<1>1. \A r \in Requests : call[r].pc = "idle"
  BY DEF ApiInit, NoCall
<1>2. /\ PageShaped(page) /\ \A w \in Waits : Awaited(page, w) = Null
      /\ page.user = Null /\ page.status = "none" /\ ~page.finishing
  BY DEF PagesInit, PageShaped, Awaited, NewPage, Waits
<1>3. QED
  BY <1>1, <1>2, ApiInvInitially DEF PagesInv, Forward, Behind, PageUsed, PageWaits, PageKnows

\* What the page shows is in the table.
LEMMA HomeIsRight == PagesInv => HomeIsOnboarded
<1> SUFFICES ASSUME PagesInv, NEW at \in {"home", "settings"}, Shows(at), ~NeedsOnboarding
             PROVE  /\ page.user \in DOMAIN db.profiles
                    /\ P!GetUserProfile(db, page.user).done
  BY DEF HomeIsOnboarded
<1>1. page.status = "row" /\ page.profile.done
  BY DEF NeedsOnboarding
<1>2. page.user \in DOMAIN db.profiles /\ db.profiles[page.user].done
  BY <1>1 DEF PagesInv, PageKnows
<1>3. QED
  BY <1>2 DEF P!GetUserProfile, P!Find

\* Whoever is shown the home page or the settings has finished onboarding in the
\* table: with any number of requests of pages that were left, and any answer lost.
THEOREM HomeIsOfTheOnboarded == PagesSpec => []HomeIsOnboarded
<1>1. ApiInit /\ (\E known \in SUBSET Uids : PagesInit(known)) => PagesInv
  BY PagesInvInitially
<1>2. QED
  BY <1>1, PagesInvKept, HomeIsRight, PTL DEF PagesSpec

-----------------------------------------------------------------------------
(***************************************************************************)
(* WebSocketClient.                                                        *)
(***************************************************************************)
IInv == TypeOK /\ TransientStatesMove /\ ConnectedBeats /\ ManualStopsRetries

-----------------------------------------------------------------------------
\* Timers.

\* A timer that is set is pending and keeps its type.
LEMMA SetTimer ==
  ASSUME NEW t \in Timer
  PROVE  Set(t) \in Timer /\ Set(t).set
<1>1. CASE t.set /\ t.orphans < MaxOrphans
  <2>1. Set(t) = [t EXCEPT !.orphans = t.orphans + 1]
    BY <1>1 DEF Set
  <2>2. t.orphans + 1 \in 0..MaxOrphans
    BY <1>1, ClientAssumption DEF Timer
  <2>3. QED BY <1>1, <2>1, <2>2 DEF Timer
<1>2. CASE ~(t.set /\ t.orphans < MaxOrphans)
  <2>1. Set(t) = [t EXCEPT !.set = TRUE]
    BY <1>2 DEF Set
  <2>2. QED BY <2>1 DEF Timer
<1>3. QED BY <1>1, <1>2

\* A timer that is cleared keeps its type.
LEMMA ClearTimer ==
  ASSUME NEW t \in Timer
  PROVE  Clear(t) \in Timer /\ ~Clear(t).set
BY DEF Clear, Timer

\* What is left of a timer that fired has the type, and has a handle only if
\* it had one.
LEMMA FiredTimer ==
  ASSUME NEW t \in Timer, NEW u \in Fired(t)
  PROVE  u \in Timer /\ (u.set => t.set)
<1>1. CASE u \in {x \in {Clear(t)} : t.set}
  BY <1>1, ClearTimer
<1>2. CASE u \in {x \in {[t EXCEPT !.orphans = @ - 1]} : t.orphans > 0}
  BY <1>2, ClientAssumption DEF Timer
<1>3. QED BY <1>1, <1>2 DEF Fired

\* Closing the current socket keeps the type of the sockets.
LEMMA CloseCurrentType ==
  ASSUME sock \in [Sockets -> SocketStates], CloseCurrent
  PROVE  sock' \in [Sockets -> SocketStates]
<1> DEFINE After(s) ==
      CASE s = ws /\ sock[s] = "connecting" -> "failing"
        [] s = ws /\ sock[s] = "open" -> "closing"
        [] OTHER -> sock[s]
<1>1. ASSUME NEW s \in Sockets PROVE After(s) \in SocketStates
  <2>1. CASE s = ws /\ sock[s] = "connecting"
    BY <2>1 DEF SocketStates
  <2>2. CASE s = ws /\ sock[s] = "open"
    BY <2>2 DEF SocketStates
  <2>3. CASE ~(s = ws /\ sock[s] = "connecting") /\ ~(s = ws /\ sock[s] = "open")
    <3>1. After(s) = sock[s]
      BY <2>3
    <3>2. QED BY <3>1
  <2>4. QED BY <2>1, <2>2, <2>3
<1>2. sock' = [s \in Sockets |-> After(s)]
  BY DEF CloseCurrent
<1> HIDE DEF After
<1>3. QED BY <1>1, <1>2

\* Retrying keeps the types and the invariants, whatever state is left else.
LEMMA RetryInv ==
  ASSUME TypeOK, NEW c \in Timer, manual => ~c.set,
         NEW other \in {"disconnected", "error"},
         Retry(other, c), UNCHANGED manual
  PROVE  /\ state' \in ConnectionStates \ {"connecting", "connected"}
         /\ attempts' \in 0..MaxReconnectAttempts
         /\ reconnectTimer' \in Timer
         /\ state' = "reconnecting" => Pending(reconnectTimer)'
         /\ manual' => ~reconnectTimer'.set
<1>1. Set(c) \in Timer /\ Set(c).set
  BY SetTimer
<1>2. CASE ~manual /\ AutoReconnect /\ attempts < MaxReconnectAttempts
  BY <1>1, <1>2, ClientAssumption DEF Retry, TypeOK, ConnectionStates, Pending
<1>3. CASE ~(~manual /\ AutoReconnect /\ attempts < MaxReconnectAttempts)
  BY <1>3 DEF Retry, TypeOK, ConnectionStates
<1>4. QED BY <1>2, <1>3

-----------------------------------------------------------------------------
\* The induction.

\* A new service satisfies the invariant.
LEMMA InitIInv == Init => IInv
<1> SUFFICES ASSUME Init PROVE IInv
  OBVIOUS
<1>1. NoTimer \in Timer /\ ~NoTimer.set
  BY ClientAssumption DEF NoTimer, Timer
<1>2. TypeOK
  <2>1. manual \in BOOLEAN /\ acked \in BOOLEAN /\ wanted \in BOOLEAN
    BY DEF Init
  <2>2. attempts \in 0..MaxReconnectAttempts /\ waiting \in 0..MaxWaiting
    BY ClientAssumption DEF Init
  <2>3. state \in ConnectionStates
    BY DEF Init, ConnectionStates
  <2>4. ws \in Sockets \cup {None} /\ sock \in [Sockets -> SocketStates]
    BY DEF Init, SocketStates
  <2>5. /\ reconnectTimer \in Timer
        /\ connectionTimer \in Timer
        /\ heartbeatTimer \in Timer
    BY <1>1 DEF Init
  <2>6. QED BY <2>1, <2>2, <2>3, <2>4, <2>5 DEF TypeOK
<1>3. QED
  BY <1>1, <1>2 DEF Init, IInv, TransientStatesMove, ConnectedBeats, ManualStopsRetries

\* Every call, event and timer preserves it.
LEMMA NextIInv == IInv /\ [Next]_vars => IInv'
<1> SUFFICES ASSUME IInv, [Next]_vars PROVE IInv'
  OBVIOUS
<1> USE DEF IInv, TransientStatesMove, ConnectedBeats, ManualStopsRetries, Pending
<1>a. /\ Clear(reconnectTimer) \in Timer /\ ~Clear(reconnectTimer).set
      /\ Clear(connectionTimer) \in Timer
      /\ Clear(heartbeatTimer) \in Timer
      /\ Set(connectionTimer) \in Timer /\ Set(connectionTimer).set
      /\ Set(heartbeatTimer) \in Timer /\ Set(heartbeatTimer).set
  BY ClearTimer, SetTimer DEF TypeOK
<1>1. CASE Connect
  <2>1. CASE state \in {"connecting", "connected"}
    BY <1>1, <2>1 DEF Connect, StartConnecting, timers, TypeOK
  <2>2. CASE state \notin {"connecting", "connected"}
    <3>1. waiting' \in 0..MaxWaiting /\ waiting' > 0
      BY <1>1, <2>2, ClientAssumption DEF Connect, StartConnecting, TypeOK
    <3>2. QED
      BY <1>1, <2>2, <3>1 DEF Connect, StartConnecting, timers, TypeOK, ConnectionStates
  <2>3. QED BY <2>1, <2>2
<1>2. CASE Disconnect
  <2>1. sock' \in [Sockets -> SocketStates]
    BY <1>2, CloseCurrentType DEF Disconnect, TypeOK
  <2>2. manual' \in BOOLEAN /\ wanted' \in BOOLEAN /\ state' \in ConnectionStates
    BY <1>2 DEF Disconnect, ConnectionStates
  <2>3. attempts' \in 0..MaxReconnectAttempts
    BY <1>2, ClientAssumption DEF Disconnect
  <2>4. TypeOK'
    BY <1>2, <1>a, <2>1, <2>2, <2>3 DEF Disconnect, TypeOK
  <2>5. QED
    BY <1>2, <1>a, <2>4 DEF Disconnect
<1>3. CASE \E s \in Sockets : SocketCreated(s)
  <2> PICK s \in Sockets : SocketCreated(s)
    BY <1>3
  <2>1. sock' \in [Sockets -> SocketStates] /\ ws' \in Sockets \cup {None}
    BY DEF SocketCreated, TypeOK, SocketStates
  <2>2. waiting' \in 0..MaxWaiting
    BY ClientAssumption DEF SocketCreated, TypeOK
  <2>3. QED
    BY <1>a, <2>1, <2>2 DEF SocketCreated, TypeOK, ConnectionStates
<1>4. CASE CreationFails
  <2>1. Retry("error", reconnectTimer) /\ UNCHANGED manual
    BY <1>4 DEF CreationFails
  <2>2. /\ state' \in ConnectionStates \ {"connecting", "connected"}
        /\ attempts' \in 0..MaxReconnectAttempts
        /\ reconnectTimer' \in Timer
        /\ state' = "reconnecting" => Pending(reconnectTimer)'
        /\ manual' => ~reconnectTimer'.set
    BY <2>1, RetryInv DEF TypeOK
  <2>3. waiting' \in 0..MaxWaiting
    BY <1>4, ClientAssumption DEF CreationFails, TypeOK
  <2>4. QED
    BY <1>4, <1>a, <2>2, <2>3 DEF CreationFails, TypeOK
<1>5. CASE \E s \in Sockets : Opened(s)
  <2> PICK s \in Sockets : Opened(s)
    BY <1>5
  <2>1. sock' \in [Sockets -> SocketStates]
    BY DEF Opened, TypeOK, SocketStates
  <2>2. QED
    BY <1>a, <2>1, ClientAssumption DEF Opened, TypeOK, ConnectionStates
<1>6. CASE \E s \in Sockets : Pong(s)
  BY <1>6 DEF Pong, timers, TypeOK
<1>7. CASE \E s \in Sockets : Errored(s)
  <2> PICK s \in Sockets : Errored(s)
    BY <1>7
  <2>1. sock' \in [Sockets -> SocketStates]
    BY DEF Errored, TypeOK, SocketStates
  <2>2. QED
    BY <2>1 DEF Errored, timers, TypeOK, ConnectionStates
<1>8. CASE \E s \in Sockets : Closed(s)
  <2> PICK s \in Sockets : Closed(s)
    BY <1>8
  <2>1. sock' \in [Sockets -> SocketStates]
    BY DEF Closed, TypeOK, SocketStates
  <2>2. Retry("disconnected", Clear(reconnectTimer)) /\ UNCHANGED manual
    BY DEF Closed
  <2>3. /\ state' \in ConnectionStates \ {"connecting", "connected"}
        /\ attempts' \in 0..MaxReconnectAttempts
        /\ reconnectTimer' \in Timer
        /\ state' = "reconnecting" => Pending(reconnectTimer)'
        /\ manual' => ~reconnectTimer'.set
    BY <1>a, <2>2, RetryInv
  <2>4. QED
    BY <1>a, <2>1, <2>3 DEF Closed, TypeOK
<1>9. CASE ReconnectFires
  <2>1. reconnectTimer' \in Timer /\ (reconnectTimer'.set => reconnectTimer.set)
    BY <1>9, FiredTimer DEF ReconnectFires, TypeOK
  <2>2. CASE state \in {"connecting", "connected"}
    <3>1. /\ UNCHANGED <<state, manual, waiting, attempts, acked, ws, sock>>
          /\ UNCHANGED <<connectionTimer, heartbeatTimer, wanted>>
      BY <1>9, <2>2 DEF ReconnectFires, StartConnecting
    <3>2. TypeOK'
      BY <2>1, <3>1 DEF TypeOK
    <3>3. manual' => ~reconnectTimer'.set
      BY <2>1, <3>1
    <3>4. QED BY <2>2, <3>1, <3>2, <3>3
  <2>3. CASE state \notin {"connecting", "connected"}
    <3>1. /\ state' = "connecting" /\ ~manual'
          /\ UNCHANGED <<attempts, acked, ws, sock, connectionTimer, heartbeatTimer, wanted>>
      BY <1>9, <2>3 DEF ReconnectFires, StartConnecting
    <3>2. waiting' \in 0..MaxWaiting /\ waiting' > 0
      BY <1>9, <2>3, ClientAssumption DEF ReconnectFires, StartConnecting, TypeOK
    <3>3. manual' \in BOOLEAN
      BY <1>9, <2>3 DEF ReconnectFires, StartConnecting
    <3>4. TypeOK'
      BY <2>1, <3>1, <3>2, <3>3 DEF TypeOK, ConnectionStates
    <3>5. QED BY <3>1, <3>2, <3>4
  <2>4. QED BY <2>2, <2>3
<1>10. CASE ConnectionTimesOut
  <2> PICK left \in Fired(connectionTimer) :
         IF state = "connecting"
           THEN connectionTimer' = Clear(left) /\ Retry("error", reconnectTimer)
           ELSE connectionTimer' = left /\ UNCHANGED <<state, attempts, reconnectTimer>>
    BY <1>10 DEF ConnectionTimesOut
  <2>1. left \in Timer /\ Clear(left) \in Timer
    BY FiredTimer, ClearTimer DEF TypeOK
  <2>2. CASE state = "connecting"
    <3>1. /\ state' \in ConnectionStates \ {"connecting", "connected"}
          /\ attempts' \in 0..MaxReconnectAttempts
          /\ reconnectTimer' \in Timer
          /\ state' = "reconnecting" => Pending(reconnectTimer)'
          /\ manual' => ~reconnectTimer'.set
      BY <1>10, <2>2, RetryInv DEF ConnectionTimesOut, TypeOK
    <3>2. QED
      BY <1>10, <2>1, <2>2, <3>1 DEF ConnectionTimesOut, TypeOK
  <2>3. CASE state # "connecting"
    BY <1>10, <2>1, <2>3 DEF ConnectionTimesOut, TypeOK
  <2>4. QED BY <2>2, <2>3
<1>11. CASE HeartbeatFires
  <2>1. sock' \in [Sockets -> SocketStates]
    BY <1>11, CloseCurrentType DEF HeartbeatFires, TypeOK
  <2>2. QED
    BY <1>11, <2>1 DEF HeartbeatFires, timers, TypeOK
<1>12. CASE UNCHANGED vars
  BY <1>12 DEF vars, timers, TypeOK
<1>13. QED
  BY <1>1, <1>2, <1>3, <1>4, <1>5, <1>6, <1>7, <1>8, <1>9, <1>10, <1>11, <1>12 DEF Next

\* The invariant holds throughout.
LEMMA SpecIInv == Spec => []IInv
BY InitIInv, NextIInv, PTL DEF Spec

-----------------------------------------------------------------------------

\* The service's fields keep their types: handlers never retry more than
\* maxReconnectAttempts times in a row.
THEOREM TypeCorrect == Spec => []TypeOK
BY SpecIInv, PTL DEF IInv

\* The service is never connecting or reconnecting with nothing pending.
THEOREM TransientNeverStuck == Spec => []TransientStatesMove
BY SpecIInv, PTL DEF IInv

\* A connected service has a heartbeat it can cancel.
THEOREM HeartbeatWhileConnected == Spec => []ConnectedBeats
BY SpecIInv, PTL DEF IInv

\* A disconnected service has no retry left that it could have cancelled.
THEOREM DisconnectCancelsRetries == Spec => []ManualStopsRetries
BY SpecIInv, PTL DEF IInv

-----------------------------------------------------------------------------
(***************************************************************************)
(* The provider.                                                           *)
(***************************************************************************)

\* Every step under the provider is a step of the service, or none.
LEMMA ContextStep == [ContextNext]_<<vars, context>> => [Next]_vars
<1> SUFFICES ASSUME [ContextNext]_<<vars, context>> PROVE [Next]_vars
  OBVIOUS
<1>1. CASE SignsInOrOut \/ SendFails \/ ContextRender
  BY <1>1 DEF SignsInOrOut, SendFails, ContextRender
<1>2. CASE Pressed \/ Leaves
  BY <1>2 DEF Pressed, Leaves, Next
<1>3. CASE AuthEffect
  <2>1. Connect \/ Disconnect \/ UNCHANGED vars
    BY <1>3 DEF AuthEffect
  <2>2. QED BY <2>1 DEF Next
<1>4. CASE ListenersHear
  <2>1. \/ \E s \in Sockets : Opened(s) \/ Errored(s) \/ Closed(s) \/ SocketCreated(s)
        \/ CreationFails \/ ConnectionTimesOut \/ ReconnectFires \/ UNCHANGED vars
    BY <1>4 DEF ListenersHear
  <2>2. QED BY <2>1 DEF Next
<1>5. CASE UNCHANGED <<vars, context>>
  BY <1>5
<1>6. QED BY <1>1, <1>2, <1>3, <1>4, <1>5 DEF ContextNext

\* The provider uses the service as an application may: what is proved of the
\* service alone holds under it.
THEOREM ProviderUses == ContextSpec => Spec
<1>1. [ContextNext]_<<vars, context>> => [Next]_vars
  BY ContextStep
<1>2. QED BY <1>1, PTL DEF ContextSpec, Spec

=============================================================================
