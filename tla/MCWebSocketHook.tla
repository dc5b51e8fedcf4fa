---------------------------- MODULE MCWebSocketHook ----------------------------
(***************************************************************************)
(* WebSocketHook for TLC, alone and under ScoreFeed.  Three sockets, so    *)
(* that a new one meets the late events of two that were dropped; one      *)
(* user, who signs in and out; renders with and without new event          *)
(* handlers.  Under ScoreFeed two sockets are enough: one with old filters *)
(* and one with new.  The page starts with one sport and turns to the      *)
(* other or to all of its own games.                                       *)
(***************************************************************************)
EXTENDS ScoreFeed

CONSTANTS spare,      \* the socket that only the hook alone uses
          HookModes

Wanted(sports, mine) ==
  [sports |-> sports, teamIds |-> {}, userTeamsOnly |-> mine, gameStatuses |-> {},
   minScoreDifference |-> 0]
MCFirstFilters == Wanted({"NFL"}, FALSE)
MCFilterEdits == {Wanted({"NBA"}, TRUE)}
MCUpdate == [type |-> "user-team-score-update", missing |-> {}, sport |-> "NFL", team |-> "NFL_A",
             mine |-> FALSE, status |-> "final", difference |-> 1]
MCMessages == {MCUpdate, [MCUpdate EXCEPT !.missing = {"gameId"}],
               [MCUpdate EXCEPT !.type = "user-team-status-change"]}

VARIABLE mode
hook == <<vars, feed, mode>>

HookInit == Init /\ FeedInit /\ mode \in HookModes

HookNext ==
  /\ UNCHANGED mode
  /\ \/ mode = "alone" /\ Next /\ UNCHANGED feed
     \/ mode = "feed" /\ FeedNext /\ ready'[spare] = "free" /\ attempts' < 2

HookSpec == HookInit /\ [][HookNext]_hook /\ Fairness

=============================================================================
