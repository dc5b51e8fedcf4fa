--------------------------- MODULE MCOutsideCalls ---------------------------
(***************************************************************************)
(* The calls that leave the server, for TLC, one kind at a time by mode.   *)
(*                                                                         *)
(* Database: the breaker trips at two failures, so that of four calls two  *)
(* can trip it, a third can be its probe and a fourth can answer late, in  *)
(* any state of the breaker; one of them takes its client from the pool.   *)
(* Pool: two calls that take clients, in turn, from pools of one client,   *)
(* while two calls of initialize and close come and go.                    *)
(* Scraping: two callers of the adapters, one of whom only asks for the NFL, with    *)
(* nothing to be seen, while the other asks for games of the rest, with a  *)
(* few pages per source: no game, games of AAA and of others, a name that  *)
(* is outside the table, one game twice, a date, preview links, broken     *)
(* JSON.                                                                   *)
(***************************************************************************)
EXTENDS Scraping, DatabaseCalls, TLC

Codes == {"AAA", "BBB", "CCC"}
MCTable == [league \in ScrapedLeagues |-> [name \in {<<c>> : c \in Codes} |-> name[1]]]

A == <<"AAA">>  B == <<"BBB">>  C == <<"CCC">>
Long == <<"NEW", "TOWN", "AAAS">>

Kickoff == [has |-> {"ampm", "tomorrow"}, n |-> <<>>]
Dated == [has |-> {"ampm", "nth"}, n |-> <<"2">>]
Running == [has |-> {"quarter", "ordinal", "clock"}, n |-> <<"3">>]
Ended == [has |-> {"final"}, n |-> <<>>]

Card(away, home, text) == [away |-> away, home |-> home, text |-> text]
Event(away, home, abbr, stage, id) ==
  [away |-> away, home |-> home, awayAbbr |-> abbr, homeAbbr |-> home, state |-> stage,
   text |-> Ended, date |-> <<"today">>, id |-> id]
PageOf(rows) == [parses |-> TRUE, rows |-> rows, links |-> <<>>]
Broken == [parses |-> FALSE, rows |-> <<>>, links |-> <<>>]
Linked == [parses |-> TRUE, rows |-> <<>>,
           links |-> <<[date |-> "20240501", away |-> A, home |-> B]>>]

Boards == {PageOf(<<>>),
           PageOf(<<Card(A, B, Kickoff), Card(A, B, Kickoff), Card(C, A, Running),
                    Card(B, A, Dated), Card(B, C, Ended)>>)}
Feeds == {Broken, PageOf(<<>>), PageOf(<<Event(Long, B, A, "in", "1")>>),
          PageOf(<<Event(B, C, B, "post", "2")>>)}

MCPages ==
  [league \in ScrapedLeagues |->
     [stop \in Stops |->
        CASE league = "NFL" -> {PageOf(<<>>)}
          [] league # "NFL" /\ stop \in {"json", "alt"} -> Feeds
          [] league = "MLB" /\ stop = "cbs" -> {Linked, PageOf(<<Card(Missing, A, Ended)>>)}
          [] OTHER -> Boards]]
\* The document of ESPN is still read, after its robots.txt could not be.
MCSites == {[d \in Domains |-> IF d = "espn" THEN "forbids" ELSE "permits"]}

CONSTANTS c1, c2

AskFor(op, league, codes) ==
  [op |-> op, league |-> league, codes |-> codes, limit |-> IF op = "featured" THEN 1 ELSE 0,
   days |-> IF op = "schedule" THEN <<"today", "tomorrow">> ELSE <<>>]
MCAsks == (c1 :> ({AskFor("live", league, {"AAA"}) : league \in {"NBA", "MLB", "NHL"}}
                  \cup {AskFor("schedule", "NBA", {}),
                        AskFor("schedule", "NFL", {"AAA"}), AskFor("schedule", "NHL", {"AAA"})}
                  \cup {[event |-> e] @@ AskFor("box", "NHL", {}) : e \in BOOLEAN}))
          @@ (c2 :> {AskFor("featured", "NFL", {})})
-----------------------------------------------------------------------------
CONSTANTS q1, q2, s1, s2,
          Modes    \* which calls are made

MCPerms == Permutations({q1, q2}) \cup Permutations({s1, s2})

VARIABLE mode
outside == <<vars, database, scraping, mode>>

OutsideInit ==
  /\ mode \in Modes
  /\ ScrapeInit /\ DatabaseInit

OutsideNext ==
  /\ UNCHANGED mode
  /\ \/ mode = "scraping" /\ ScrapeNext /\ UNCHANGED <<vars, database>>
     \/ mode = "database" /\ DatabaseNext /\ UNCHANGED scraping

OutsideSpec == OutsideInit /\ [][OutsideNext]_outside

=============================================================================
