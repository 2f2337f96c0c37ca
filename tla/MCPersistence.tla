---------------------------- MODULE MCPersistence ----------------------------
(* The persistence coordinator with players whose scores are zero or not. *)
EXTENDS Persistence

CONSTANTS none, zero, played

AllStandings == {none, zero, played}
=============================================================================
