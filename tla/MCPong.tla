------------------------------- MODULE MCPong -------------------------------
(***************************************************************************)
(* The game on a small court, so that TLC sees every position of the ball  *)
(* and the rackets at every score.                                         *)
(***************************************************************************)
EXTENDS Pong
=============================================================================
