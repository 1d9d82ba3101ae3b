------------------------ MODULE MCDepthFirstSearch ------------------------
(***************************************************************************)
(* DepthFirstSearch on every game of the family in Games.                  *)
(***************************************************************************)
EXTENDS DepthFirstSearch, Games
=============================================================================
