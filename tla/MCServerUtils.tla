---------------------------- MODULE MCServerUtils -----------------------------
(***************************************************************************)
(* The server's utilities for TLC, one at a time by mode: bulk operations  *)
(* in transactions (two of two batches and one replacement of favorites,   *)
(* over fewer clients than calls), the search index, the deduplicator, the *)
(* error monitor, and the server's start with its repeatable jobs.         *)
(***************************************************************************)
EXTENDS Transactions, ArticleIndex, ErrorMonitoring, JobSchedule, TLC

CONSTANTS bulk1, bulk2, favorites, a1, a2, t1, c1, c2,
          Modes  \* which utilities are run

VARIABLE mode
utilities == <<vars, library, monitor, schedule, mode>>

MCCalls == {bulk1, bulk2, favorites}
MCByClient == {bulk1, bulk2}
MCItems == [c \in MCCalls |-> IF c = bulk1 THEN 3 ELSE 1]

MCTeamOf == [a \in {a1, a2} |-> t1]
MCTexts == {<<1, 2>>, <<2, 3, 2>>}
MCAlike == {<<1, 2>>, <<1, 2, 3, 3>>}

MCPerms == Permutations({c1, c2}) \cup Permutations(Intervals)

MCLeagues == <<"NBA", "NFL">>
MCLeagueTeams == [l \in {"NBA", "NFL"} |-> IF l = "NBA" THEN {"BOS"} ELSE {"NE"}]

\* The search index begins with one article that is stored; in memory, whose
\* calls cannot fail, there is one call less.
Published ==
  [id |-> a1, team |-> t1, text |-> <<1, 2>>, minHash |-> <<>>, old |-> FALSE, deleted |-> FALSE]

SearchInit ==
  /\ kind \in {"mem", "pg"}
  /\ news = <<Published>> /\ posts = 1
  /\ rows = [t \in TeamIds |-> <<>>]
  /\ index = [t \in TeamIds |-> EmptyIndex]
  /\ made = [t \in TeamIds |-> 1]
  /\ work = [c \in Callers |-> Resting]
  /\ jobs = (IF kind = "mem" THEN 1 ELSE 0) /\ failures = 0

UtilitiesInit ==
  /\ mode \in Modes
  /\ Init /\ MonitorInit
  /\ IF mode = "search" THEN SearchInit
     ELSE LibraryInit /\ (mode # "dedup" => kind = "mem")
  /\ ScheduleInit /\ (mode # "jobs" => teams = {})

UtilitiesNext ==
  /\ UNCHANGED mode
  /\ \/ mode = "bulk" /\ Next /\ UNCHANGED <<library, monitor, schedule>>
     \/ mode = "search" /\ SearchNext /\ UNCHANGED <<vars, monitor, schedule>>
     \/ mode = "dedup" /\ DedupNext /\ UNCHANGED <<vars, monitor, schedule>>
     \/ mode = "monitor" /\ MonitorNext /\ UNCHANGED <<vars, library, schedule>>
     \/ mode = "jobs" /\ ScheduleNext /\ UNCHANGED <<vars, library, monitor>>

UtilitiesSpec == UtilitiesInit /\ [][UtilitiesNext]_utilities

=============================================================================
