------------------------------- MODULE GameFeed -------------------------------
(***************************************************************************)
(* What a throttled feed of game updates promises: an update that is       *)
(* accepted is shown, at once or when the feed catches up, unless a newer  *)
(* one of its game replaces it first; and a game never goes back to an     *)
(* older update.  Updates are numbered as they arrive.                     *)
(***************************************************************************)
EXTENDS Naturals

CONSTANT Games

VARIABLES
  received,  \* how many updates have arrived
  shown,     \* the update each game shows, 0 for none
  waiting    \* the newest update of each game to be shown later, 0 for none

feed == <<received, shown, waiting>>

FeedInit ==
  /\ received = 0
  /\ shown = [g \in Games |-> 0]
  /\ waiting = [g \in Games |-> 0]

\* An update arrives and is shown at once, as no other waits.
Show(g) ==
  /\ waiting[g] = 0
  /\ received' = received + 1
  /\ shown' = [shown EXCEPT ![g] = received']
  /\ UNCHANGED waiting

\* It waits, in place of an older one.
Wait(g) ==
  /\ received' = received + 1
  /\ waiting' = [waiting EXCEPT ![g] = received']
  /\ UNCHANGED shown

\* It is not accepted.
Ignore ==
  /\ received' = received + 1
  /\ UNCHANGED <<shown, waiting>>

\* The feed catches up with a game.
CatchUp(g) ==
  /\ waiting[g] # 0
  /\ shown' = [shown EXCEPT ![g] = waiting[g]]
  /\ waiting' = [waiting EXCEPT ![g] = 0]
  /\ UNCHANGED received

FeedNext ==
  \/ Ignore
  \/ \E g \in Games : Show(g) \/ Wait(g) \/ CatchUp(g)

FeedSpec == FeedInit /\ [][FeedNext]_feed

\* The feed catches up with every game.
FairFeedSpec == FeedSpec /\ \A g \in Games : WF_feed(CatchUp(g))

=============================================================================
