------------------------- MODULE DepthFirstSearch -------------------------
(***************************************************************************)
(* What solver_impl<Policy>::dfs promises, whichever cache it searches     *)
(* with: a depth-first walk of the game graph over a frontier of nodes,    *)
(* each holding the moves still to be tried from its state.  The cache is  *)
(* reduced to the one thing every exact cache guarantees: it answers       *)
(* "seen before" only for a state with the key of one it was given.  It    *)
(* may forget (LRU eviction, slot replacement), so a state seen before may *)
(* also be taken for a new one and searched again.                         *)
(*                                                                         *)
(* A game is given by the operators that game_state offers the solver:     *)
(* get_dominance_move, get_legal_moves, make_move and is_solved.  Key is   *)
(* what the cache compares: the canonical form of a state.                 *)
(***************************************************************************)
EXTENDS Naturals, Sequences

CONSTANTS
  State,              (* The positions of the game.                        *)
  Move,               (* The moves, NullMove (the root's) among them.      *)
  NullMove,           (* mtype::null.                                      *)
  NoMove,             (* boost::none: there is no dominance move.          *)
  Deals,              (* The positions that a search may start from.       *)
  Positions(_),       (* The positions of a deal's cards.                  *)
  Solved(_),          (* is_solved                                         *)
  DominanceMove(_),   (* get_dominance_move                                *)
  LegalMoves(_, _),   (* get_legal_moves(parent_move), last tried first    *)
  Apply(_, _),        (* make_move                                         *)
  Key(_),             (* The part of a state that the cache compares.      *)
  MaxFrontier         (* Bound: nodes on the frontier.                     *)

VARIABLES
  init_state,         (* The deal.                                         *)
  frontier,           (* Nodes from the root to the current one.           *)
  expanded,           (* History: every state whose moves were generated.  *)
  result              (* How the search ended, "NONE" while it runs.       *)

vars == <<init_state, frontier, expanded, result>>

Stopped == {"TIMEOUT", "MEM_LIMIT", "TERMINATED"}
Result == Stopped \union {"NONE", "SOLVED", "UNSOLVABLE"}

Node == [mv : Move, state : State, child_moves : Seq(Move)]

MovesIn(seq) == {seq[i] : i \in 1..Len(seq)}

(* Every move the rules offer in s, none of them skipped because of the    *)
(* move that led there; a dominance move is tried alone.                   *)
AllMoves(s) ==
  IF DominanceMove(s) # NoMove
  THEN {DominanceMove(s)}
  ELSE MovesIn(LegalMoves(s, NullMove))

Successors(s) == {Apply(s, m) : m \in AllMoves(s)}

(* The states that a sequence of moves reaches: those in every set of      *)
(* positions that holds the deal and is closed under moves.                *)
Closed(S) == \A s \in S : Successors(s) \subseteq S
Reachable ==
  {s \in Positions(init_state) :
     \A S \in SUBSET Positions(init_state) :
       init_state \in S /\ Closed(S) => s \in S}

-----------------------------------------------------------------------------
(* The game's operators stay within its states and moves.                  *)
ASSUME GameAssumption ==
  /\ Deals \subseteq State
  /\ \A d \in Deals : /\ d \in Positions(d) /\ Positions(d) \subseteq State
                     /\ Closed(Positions(d))
  /\ NullMove \in Move
  /\ NoMove \notin Move
  /\ \A s \in State :
       /\ Solved(s) \in BOOLEAN
       /\ DominanceMove(s) \in Move \union {NoMove}
       /\ AllMoves(s) \subseteq Move
       /\ \A m \in Move : LegalMoves(s, m) \in Seq(Move)
       /\ \A m \in AllMoves(s) : Apply(s, m) \in State
       /\ \A m \in Move : MovesIn(LegalMoves(s, m)) \subseteq
                            MovesIn(LegalMoves(s, NullMove))

(* Two states with one key are the same position up to a renaming that the *)
(* rules do not notice (the order of the piles, symmetric suits).          *)
ASSUME KeyAssumption ==
  \A s, t \in State : Key(s) = Key(t) =>
    /\ Solved(s) = Solved(t)
    /\ \A u \in Successors(s) : \E v \in Successors(t) : Key(v) = Key(u)

(* get_legal_moves skips a move after parent_move only when the parent     *)
(* state has a move to the same place.                                     *)
ASSUME PruningAssumption ==
  \A p \in State : \A m \in AllMoves(p) :
    DominanceMove(Apply(p, m)) = NoMove =>
      \A n \in MovesIn(LegalMoves(Apply(p, m), NullMove))
                 \ MovesIn(LegalMoves(Apply(p, m), m)) :
        \E v \in Successors(p) : Key(v) = Key(Apply(Apply(p, m), n))

ASSUME RootAssumption == MaxFrontier \in Nat \ {0}

-----------------------------------------------------------------------------
Current == frontier[Len(frontier)]

NewNode(s, m) == [mv |-> m, state |-> s, child_moves |-> <<>>]

(* The move that set_to_child takes: the last of the last node of f.       *)
NextMove(f) == f[Len(f)].child_moves[Len(f[Len(f)].child_moves)]

LaterMoves(f) ==
  SubSeq(f[Len(f)].child_moves, 1, Len(f[Len(f)].child_moves) - 1)

(* Mutant: the move is made before the one it is tried instead of is taken *)
(* back.                                                                   *)
DescendWithoutUndo(f) ==
  Append([f EXCEPT ![Len(f)].child_moves = LaterMoves(f)],
         NewNode(Apply(Current.state, NextMove(f)), NextMove(f)))

(* set_to_child and make_move: the next move of the last node of f is      *)
(* taken off its list and becomes a node of its own.                       *)
Descend(f) ==
  Append([f EXCEPT ![Len(f)].child_moves = LaterMoves(f)],
         NewNode(Apply(f[Len(f)].state, NextMove(f)), NextMove(f)))

WithMoves(f, moves) ==
  Append(SubSeq(f, 1, Len(f) - 1), [f[Len(f)] EXCEPT !.child_moves = moves])

(* The nodes above the current one that still have a move to try.          *)
OpenNodes == {i \in 1..(Len(frontier) - 1) : frontier[i].child_moves # <<>>}

(* Mutant: the search goes back to any node with moves left.               *)
BacktrackTooFar ==
  \/ /\ OpenNodes = {}
     /\ frontier' = <<frontier[1]>>
     /\ result' = "UNSOLVABLE"
  \/ \E k \in OpenNodes :
       /\ frontier' = Descend(SubSeq(frontier, 1, k))
       /\ UNCHANGED result

(* revert_to_last_node_with_children, and the step down from where it      *)
(* ends; with no such node the states are exhausted.                       *)
Backtrack ==
  \/ /\ OpenNodes = {}
     /\ frontier' = <<frontier[1]>>
     /\ result' = "UNSOLVABLE"
  \/ \E k \in OpenNodes :
       /\ \A j \in OpenNodes : j <= k
       /\ frontier' = Descend(SubSeq(frontier, 1, k))
       /\ UNCHANGED result

Searching == result = "NONE" /\ ~ Solved(Current.state)

(* The current node is given its moves and the search goes down.           *)
GoDown(moves) ==
  /\ Len(frontier) < MaxFrontier
  /\ frontier' = Descend(WithMoves(frontier, moves))
  /\ expanded' = expanded \union {Current.state}
  /\ UNCHANGED result

Dominate ==
  /\ Searching
  /\ DominanceMove(Current.state) # NoMove
  /\ GoDown(<<DominanceMove(Current.state)>>)

(* The cache takes the state for a new one.                                *)
Expand ==
  /\ Searching
  /\ DominanceMove(Current.state) = NoMove
  /\ LegalMoves(Current.state, Current.mv) # <<>>
  /\ GoDown(LegalMoves(Current.state, Current.mv))

DeadEnd ==
  /\ Searching
  /\ DominanceMove(Current.state) = NoMove
  /\ LegalMoves(Current.state, Current.mv) = <<>>
  /\ expanded' = expanded \union {Current.state}
  /\ Backtrack

(* Mutant: the cache takes any state for one it was given before.          *)
DuplicateOfAny ==
  /\ Searching
  /\ DominanceMove(Current.state) = NoMove
  /\ expanded # {}
  /\ Backtrack
  /\ UNCHANGED expanded

(* The cache takes the state for one it was given before.                  *)
Duplicate ==
  /\ Searching
  /\ DominanceMove(Current.state) = NoMove
  /\ \E s \in expanded : /\ DominanceMove(s) = NoMove
                         /\ Key(s) = Key(Current.state)
  /\ Backtrack
  /\ UNCHANGED expanded

Solve ==
  /\ result = "NONE"
  /\ Solved(Current.state)
  /\ result' = "SOLVED"
  /\ UNCHANGED <<frontier, expanded>>

(* A budget runs out, a signal arrives, or the cache cannot take a state.  *)
Stop ==
  /\ Searching
  /\ result' \in Stopped
  /\ UNCHANGED <<frontier, expanded>>

Init ==
  /\ init_state \in Deals
  /\ frontier = <<NewNode(init_state, NullMove)>>
  /\ expanded = {}
  /\ result = "NONE"

Next ==
  /\ Dominate \/ Expand \/ DeadEnd \/ Duplicate \/ Solve \/ Stop
  /\ UNCHANGED init_state

Spec == Init /\ [][Next]_vars

-----------------------------------------------------------------------------
TypeOK ==
  /\ init_state \in Deals
  /\ frontier \in Seq(Node) /\ frontier # <<>>
  /\ expanded \in SUBSET State
  /\ result \in Result

(* f is a play from the deal: each node's state is its parent's after the  *)
(* node's move, a move of the game.                                        *)
Play(f) ==
  /\ f[1].state = init_state /\ f[1].mv = NullMove
  /\ \A i \in 1..(Len(f) - 1) :
       /\ f[i + 1].mv \in AllMoves(f[i].state)
       /\ f[i + 1].state = Apply(f[i].state, f[i + 1].mv)

(* The states that wait in the child lists of f.                           *)
ChildStates(f) ==
  UNION {{Apply(f[i].state, m) : m \in MovesIn(f[i].child_moves)}
           : i \in 1..Len(f)}

(* The states still to be visited.                                         *)
Pending == {Current.state} \union ChildStates(frontier)

(* No successor of an expanded state is lost: it was expanded, is being    *)
(* visited, or waits in a child list, up to the cache's key - whatever the *)
(* cache forgot in between and whatever get_legal_moves skipped.           *)
NothingLost ==
  \A s \in expanded : \A t \in Successors(s) :
    \E u \in expanded \union Pending : Key(u) = Key(t)

(* A verdict UNSOLVABLE is right: no reachable state is solved.            *)
UnsolvableIsRight ==
  result = "UNSOLVABLE" => \A s \in Reachable : ~ Solved(s)

(* A verdict SOLVED comes with a frontier that print_solution can replay   *)
(* to a solved state.                                                      *)
SolvedIsShown ==
  result = "SOLVED" => Play(frontier) /\ Solved(Current.state)

=============================================================================
