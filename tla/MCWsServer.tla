------------------------------ MODULE MCWsServer ------------------------------
(***************************************************************************)
(* WsServer for TLC: two sockets of one user, one team, which storage      *)
(* knows, one game.  The updates are those of ScoresAgent, whose payload   *)
(* names the game gameId and the teams homeTeam.id and awayTeam.id, where  *)
(* the server reads id, homeTeamId and awayTeamId.                         *)
(***************************************************************************)
EXTENDS WsServer

CONSTANTS u, a, g

MCUserOf == [s \in Sockets |-> u]
MCTeamsOf == [x \in Games |-> {a}]
MCUpdates == {[game |-> x, id |-> Undefined, teams |-> {}] : x \in Games}

=============================================================================
