---------------------------- MODULE MCScoreUpdates ----------------------------
(***************************************************************************)
(* ScoreUpdates for TLC.  A game of a league in which every score counts   *)
(* and one of a league that counts two points, over one queue that holds   *)
(* two updates.  The payloads differ in each of status, period, clock and  *)
(* score, alone and together; "delayed" and the pause are of no            *)
(* significance.                                                           *)
(***************************************************************************)
EXTENDS ScoreUpdates, TLC

MCSportOf == ("soccerGame" :> "Soccer") @@ ("nbaGame" :> "NBA")
MCStatuses == {"live", "final", "delayed"}
MCMinDifference == ("Soccer" :> 1) @@ ("NBA" :> 2)
MCBigStatuses == [s \in Sports |-> {"live", "final"}]
MCBigPeriods == [s \in Sports |-> {"1st", "2nd"}]

MCPayloads ==
  {[home |-> 0, away |-> 0, status |-> "live", period |-> "1st", time |-> "early"],
   [home |-> 1, away |-> 0, status |-> "live", period |-> "1st", time |-> "late"],
   [home |-> 2, away |-> 0, status |-> "live", period |-> "pause", time |-> "late"],
   [home |-> 2, away |-> 0, status |-> "delayed", period |-> "2nd", time |-> "late"],
   [home |-> 2, away |-> 0, status |-> "final", period |-> "2nd", time |-> "late"]}

=============================================================================
