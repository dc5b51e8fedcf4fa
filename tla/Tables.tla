------------------------------- MODULE Tables -------------------------------
(***************************************************************************)
(* The tables behind IStorage (server/storage.ts) and the operations both  *)
(* of its implementations are written with.  A database is a record of     *)
(* tables and a table a function from ids to rows.  The ids that           *)
(* randomUUID and gen_random_uuid make are numbers in order of creation,   *)
(* which is also the order in which a Map of MemStorage is walked; teams,  *)
(* games and profiles bring their own.                                     *)
(***************************************************************************)
EXTENDS Naturals, FiniteSets, Sequences

CONSTANT Null

Names == {"users", "sessions", "teams", "userTeams", "summaries", "games", "updates",
          "experiences", "rsvps", "profiles", "articles", "indexes", "sources", "classes"}
NoRows == [table \in Names |-> <<>>]

\* The columns that are given, over those of a row.
Over(data, row) ==
  [column \in DOMAIN data \cup DOMAIN row |->
     IF column \in DOMAIN data THEN data[column] ELSE row[column]]

\* What a write leaves and answers; a rejected one changes nothing and throws.
Done(db, answer) == [db |-> db, answer |-> answer, error |-> Null]
Throw(db, error) == [db |-> db, answer |-> Null, error |-> error]

Find(db, table, id) == IF id \in DOMAIN db[table] THEN db[table][id] ELSE Null
Where(db, table, Test(_)) == {id \in DOMAIN db[table] : Test(db[table][id])}
Put(db, table, id, row) ==
  [db EXCEPT ![table] = [i \in DOMAIN @ \cup {id} |-> IF i = id THEN row ELSE @[i]]]
Drop(db, table, ids) == [db EXCEPT ![table] = [id \in DOMAIN @ \ ids |-> @[id]]]
Change(db, table, ids, data) ==
  [db EXCEPT ![table] = [id \in DOMAIN @ |-> IF id \in ids THEN Over(data, @[id]) ELSE @[id]]]

\* The first of the rows that were found.
First(ids) == IF ids = {} THEN Null ELSE CHOOSE id \in ids : \A other \in ids : id <= other
FirstRow(db, table, ids) == IF ids = {} THEN Null ELSE db[table][First(ids)]

\* What may be listed when the rows with the greatest values of a column are asked for,
\* the greatest first: rows of one value in any order, and any of them cut.
Smaller(m, n) == IF m < n THEN m ELSE n
Descending(s, rows, column) ==
  \A m, n \in DOMAIN s : m < n => rows[s[n]][column] <= rows[s[m]][column]
SeqSet(s) == {s[i] : i \in DOMAIN s}
Greatest(db, table, ids, column, limit) ==
  {s \in [1..Smaller(limit, Cardinality(ids)) -> ids] :
     /\ \A m, n \in DOMAIN s : s[m] = s[n] => m = n
     /\ Descending(s, db[table], column)
     /\ \A id \in ids \ SeqSet(s) : \A n \in DOMAIN s : db[table][id][column] <= db[table][s[n]][column]}
All == 1000   \* the limit of a query that has none

\* The same rows from the least on.
Backwards(list) == [n \in 1..Len(list) |-> list[Len(list) + 1 - n]]
LeastFirst(db, table, ids, column) ==
  {Backwards(s) : s \in Greatest(db, table, ids, column, All)}

\* The sport of a league (storage.ts and pgStorage.ts have the same switch).
SportOf(league) ==
  CASE league = "NFL" -> "football"
    [] league = "NBA" -> "basketball"
    [] league = "MLB" -> "baseball"
    [] league = "NHL" -> "hockey"
    [] league = "MLS" -> "soccer"
=============================================================================
