------------------------------ MODULE MCSolver ------------------------------
(***************************************************************************)
(* The solver and its trace on every game of the family in Games.          *)
(***************************************************************************)
EXTENDS SearchTrace, Games

(* A perfect hash, with which every cache of hashes is exact.              *)
PositionHash(s) == s.at - 1

Request(enabled, break_at, find_hash) ==
  [enabled |-> enabled, break_at |-> break_at, find_hash |-> find_hash]

ASSUME GameIsSound
ASSUME PositionsAreClosed
ASSUME MovesAreMarked

(* A trace to the end, or to its event 7, 11 or 15.                        *)
MCRequests == {Request(TRUE, b, 0) : b \in {{}, {7}, {11}, {15}}}
=============================================================================
