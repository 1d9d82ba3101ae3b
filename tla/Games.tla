------------------------------- MODULE Games -------------------------------
(***************************************************************************)
(* A family of small games for the searches to be checked on: every game   *)
(* of the family is a directed graph over five positions, with what makes  *)
(* a search hard - cycles, several ways to one position, dead ends, a      *)
(* position (5) that the cache cannot tell from another (1), a position    *)
(* with a dominance move, moves that get_legal_moves skips, and a solved   *)
(* position that may or may not be reachable.                              *)
(***************************************************************************)
LOCAL INSTANCE Naturals
LOCAL INSTANCE Sequences

CONSTANT Styles      (* Which of "plain", "forced" and "pruned" to check.  *)

Vertex == 1..5

(* The successors of each position in the order of get_legal_moves: the    *)
(* last is tried first.                                                    *)
GameGraph ==
  {[v \in Vertex |-> CASE v = 1 -> <<2, 3>> [] v = 2 -> two [] v = 3 -> three
                       [] v = 4 -> four     [] v = 5 -> <<3, 2>>] :
     two \in {<<>>, <<4>>, <<5>>, <<3, 4>>, <<1, 3>>},
     three \in {<<>>, <<4, 2>>, <<5, 2>>, <<2, 1>>},
     four \in {<<>>, <<5>>, <<2>>}}

Game == [next : GameGraph, goal : {0, 4}, style : Styles]

GameState == [game : Game, at : Vertex]
GameDeals == {s \in GameState : s.at = 1}

GamePositions(d) == {[d EXCEPT !.at = v] : v \in Vertex}

GameNullMove == [from |-> 0, to |-> 1, dominance_move |-> FALSE]
GameNoMove == [from |-> 0, to |-> 0, dominance_move |-> FALSE]
GameMove ==
  [from : Vertex, to : Vertex, dominance_move : BOOLEAN] \union {GameNullMove}

(* In a forced game, position 3 has a dominance move.                      *)
IsForced(game, v) == game.style = "forced" /\ v = 3 /\ game.next[3] # <<>>

GameDominanceMove(s) ==
  IF IsForced(s.game, s.at)
  THEN [from |-> 3, to |-> s.game.next[3][1], dominance_move |-> TRUE]
  ELSE GameNoMove

(* In a pruned game, a move is skipped when the parent state had one to    *)
(* the same place.                                                         *)
Skipped(game, parent_move) ==
  IF game.style = "pruned" /\ parent_move # GameNullMove
  THEN {game.next[parent_move.from][i] :
          i \in DOMAIN game.next[parent_move.from]}
  ELSE {}

GameLegalMoves(s, parent_move) ==
  LET kept == SelectSeq(s.game.next[s.at],
                        LAMBDA t : t \notin Skipped(s.game, parent_move))
  IN [i \in 1..Len(kept) |->
        [from |-> s.at, to |-> kept[i], dominance_move |-> FALSE]]

(* A move shifts the position, so that one made or taken back in the wrong *)
(* state leads astray.                                                     *)
Shift(s, from, to) == [s EXCEPT !.at = 1 + ((@ + 4 + to - from) % 5)]
GameApply(s, m) == Shift(s, m.from, m.to)
GameUndo(s, m) == Shift(s, m.to, m.from)
GameKey(s) == IF s.at = 5 THEN [s EXCEPT !.at = 1] ELSE s
GameSolved(s) == s.at = s.game.goal
=============================================================================
