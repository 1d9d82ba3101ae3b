------------------------------- MODULE Solver -------------------------------
(***************************************************************************)
(* solver_impl<Policy>: the depth-first search with its cache, its         *)
(* counters and its budgets.  An action is one turn of the loop of dfs;    *)
(* the clock and the signal handler come in between.  The solver keeps one *)
(* state, which it changes by make_move and undo_move; the frontier holds  *)
(* the moves that lead there from the deal.                                *)
(***************************************************************************)
EXTENDS SolverCache, Naturals, Sequences, FiniteSets, Functions

CONSTANTS
  State, Move, NullMove, NoMove, Deals, Positions(_), Solved(_),
  DominanceMove(_), LegalMoves(_, _), Apply(_, _),
                   (* The game, as in DepthFirstSearch.                    *)
  Undo(_, _),      (* undo_move                                            *)
  Key(_),          (* The canonical form of a state.                       *)
  DepthMax,        (* The largest depth a payload holds (UINT16_MAX).      *)
  CheckInterval,   (* Turns between two looks at the clock (4096).         *)
  StateCaps,       (* The values of max_states to search with, 0 for none. *)
  MaxFrontier      (* Bound: nodes on the frontier.                        *)

(* The moves from s: a dominance move is the only one.                     *)
MovesOf(s) ==
  IF DominanceMove(s) # NoMove THEN {DominanceMove(s)}
  ELSE Range(LegalMoves(s, NullMove))

(* undo_move takes back what make_move did.                                *)
ASSUME UndoAssumption ==
  \A s \in State : \A m \in MovesOf(s) : Undo(Apply(s, m), m) = s

(* The numbers of the code.                                                *)
ASSUME SizeAssumption ==
  /\ CheckInterval \in Nat \ {0} /\ MaxEntries \in Nat /\ DepthMax \in Nat
  /\ StateCaps \subseteq Nat

(* The game's operators stay within its states and moves, and a move that  *)
(* get_legal_moves offers after one move it offers after none.             *)
GameIsSound ==
  /\ Deals \subseteq State
  /\ NullMove \in Move /\ NoMove \notin Move
  /\ \A s \in State :
       /\ Solved(s) \in BOOLEAN
       /\ DominanceMove(s) \in Move \union {NoMove}
       /\ \A m \in MovesOf(s) : Apply(s, m) \in State
       /\ \A m \in Move : /\ LegalMoves(s, m) \in Seq(Move)
                          /\ Range(LegalMoves(s, m)) \subseteq Range(LegalMoves(s, NullMove))

(* The positions of a deal: the deal, and what moves lead to.              *)
PositionsAreClosed ==
  \A d \in Deals :
    /\ d \in Positions(d) /\ Positions(d) \subseteq State
    /\ \A s \in Positions(d) : \A m \in MovesOf(s) : Apply(s, m) \in Positions(d)

(* No two positions of a deal that differ for the cache have one hash, 0   *)
(* being taken for 1: what the hash-only cache relies on.                  *)
HashesTell ==
  /\ HashSpace \in Nat \ {0, 1}
  /\ \A s \in State : Hash(Key(s)) \in 0..(HashSpace - 1)
  /\ \A d \in Deals : \A s, t \in Positions(d) :
       Normalised(Hash(Key(s))) = Normalised(Hash(Key(t))) => Key(s) = Key(t)

(* A dominance move is marked as one and a legal move is not.              *)
MovesAreMarked ==
  \A s \in State : \A m \in MovesOf(s) :
    m.dominance_move = (DominanceMove(s) # NoMove)

VARIABLES
  init_state, max_states,         (* The arguments.                        *)
  state, frontier, cache, res,    (* Members of the solver.                *)
  iter,                           (* Turns since the last look at the clock. *)
  result,                         (* What dfs returned, "NONE" before.     *)
  late, sigint,                   (* A time budget is used up; a signal came. *)
  expanded,                       (* History: states whose moves were generated. *)
  overdue                         (* History: turns begun after either.    *)

search == <<state, frontier, cache, res>>
vars == <<init_state, max_states, search, iter, result, late, sigint,
          expanded, overdue>>

(* cache_state, an optional iterator, is a set of at most one key.         *)
Node ==
  [mv : Move, child_moves : Seq(Move), cache_state : SUBSET {Key(s) : s \in State}]

NewNode(m) == [mv |-> m, child_moves |-> <<>>, cache_state |-> {}]

Current == frontier[Len(frontier)]
AtRoot == Len(frontier) = 1

Counters ==
  [states_searched : Nat, unique_states_searched : Nat, backtracks : Nat,
   dominance_moves : Nat, depth : Nat, max_depth : Nat]

Count0 == [states_searched |-> 0, unique_states_searched |-> 0, backtracks |-> 0,
           dominance_moves |-> 0, depth |-> 0, max_depth |-> 0]

-----------------------------------------------------------------------------
(* The budgets, in the order of the code.                                  *)
OverStates == max_states # 0 /\ res.states_searched >= max_states
LooksAtClock == iter = 0
TimeUp == LooksAtClock /\ late
Signalled == LooksAtClock /\ sigint

Running == result = "NONE" /\ ~ Solved(state)
InBudget == Running /\ ~ OverStates /\ ~ TimeUp /\ ~ Signalled

(* A turn of the loop that the budgets let pass.                           *)
Turn ==
  /\ InBudget
  /\ iter' = (iter + 1) % CheckInterval
  /\ overdue' = IF late \/ sigint THEN overdue + 1 ELSE 0
  /\ UNCHANGED <<init_state, max_states, late, sigint>>

TimeOut ==
  /\ Running /\ (OverStates \/ TimeUp)
  /\ result' = "TIMEOUT"
  /\ UNCHANGED <<init_state, max_states, search, iter, late, sigint, expanded, overdue>>

Terminate ==
  /\ Running /\ ~ OverStates /\ ~ TimeUp /\ Signalled
  /\ result' = "TERMINATED"
  /\ UNCHANGED <<init_state, max_states, search, iter, late, sigint, expanded, overdue>>

Solve ==
  /\ result = "NONE" /\ Solved(state)
  /\ result' = "SOLVED"
  /\ UNCHANGED <<init_state, max_states, search, iter, late, sigint, expanded, overdue>>

-----------------------------------------------------------------------------
(* set_to_child and make_move: from frontier f in state s, the last child  *)
(* of the last node becomes a node.                                        *)
Descended(f, s) ==
  LET n == Len(f)
      moves == f[n].child_moves
      m == moves[Len(moves)]
  IN /\ frontier' = Append([f EXCEPT ![n].child_moves =
                              SubSeq(moves, 1, Len(moves) - 1)],
                           NewNode(m))
     /\ state' = Apply(s, m)

CountedOneBacktrack(pops, m, fresh) ==
  LET depth == res.depth - pops + 1
  IN res' = [res EXCEPT !.states_searched = @ + 1,
                        !.unique_states_searched = @ + fresh,
                        !.backtracks = @ + (IF pops > 0 THEN 1 ELSE 0),
                        !.depth = depth,
                        !.max_depth = IF depth > @ THEN depth ELSE @]

(* The counters after a turn that went up by pops and down by one move m.  *)
Counted(pops, m, fresh) ==
  LET depth == res.depth - pops + 1
  IN res' = [states_searched |-> res.states_searched + 1,
             unique_states_searched |-> res.unique_states_searched + fresh,
             backtracks |-> res.backtracks + pops,
             dominance_moves |-> res.dominance_moves +
                                   (IF m.dominance_move THEN 1 ELSE 0),
             depth |-> depth,
             max_depth |-> IF depth > res.max_depth THEN depth
                                                    ELSE res.max_depth]

(* The current node gets its moves and the search goes down.               *)
GoDown(f, moves) ==
  /\ Len(frontier) < MaxFrontier
  /\ Descended([f EXCEPT ![Len(f)].child_moves = moves], state)
  /\ Counted(0, moves[Len(moves)], 1)
  /\ expanded' = expanded \union {state}
  /\ UNCHANGED result

(* revert_to_last_node_with_children goes back to node k: the last one     *)
(* above the current with moves left, or the root.                         *)
OpenNodes == {i \in 1..(Len(frontier) - 1) : frontier[i].child_moves # <<>>}
(* Mutant: the first open node.                                            *)
FirstTarget ==
  IF OpenNodes = {} THEN 1
  ELSE CHOOSE i \in OpenNodes : \A j \in OpenNodes : i <= j

Target ==
  IF OpenNodes = {} THEN 1
  ELSE CHOOSE i \in OpenNodes : \A j \in OpenNodes : j <= i

(* The states that undo_move of the nodes leads back through, and the one  *)
(* after that of every node behind the target.                             *)
Undone ==
  LET undone[i \in 1..Len(frontier)] ==
        IF i = Len(frontier) THEN state
        ELSE Undo(undone[i + 1], frontier[i + 1].mv)
  IN undone

StateAt == Undone[Target]

(* Mutants: the iterator to the current state is not passed on; only that  *)
(* one's live bit is turned off.                                           *)
LeftBehindButOne(own) ==
  UNION {frontier[i].cache_state : i \in (Target + 1)..(Len(frontier) - 1)}
LeftBehindOnlyOwn(own) == IF AtRoot THEN {} ELSE own

(* The live bits that going back turns off: those of the nodes left behind, *)
(* the current one's only when it was passed (own).                        *)
LeftBehind(own) ==
  (UNION {frontier[i].cache_state : i \in (Target + 1)..(Len(frontier) - 1)})
    \union (IF AtRoot THEN {} ELSE own)

Backtrack(f, own, c, fresh) ==
  LET pops == Len(frontier) - Target
      kept == SubSeq(f, 1, Target)
      moves == frontier[Target].child_moves
  IN /\ cache' = IF ComputesHash THEN c ELSE SetNonLive(c, LeftBehind(own))
     /\ IF OpenNodes = {}
        THEN /\ frontier' = kept /\ state' = StateAt
             /\ result' = "UNSOLVABLE"
             /\ res' = [res EXCEPT !.states_searched = @ + 1,
                                   !.unique_states_searched = @ + fresh,
                                   !.backtracks = @ + pops, !.depth = @ - pops]
        ELSE /\ Descended(kept, StateAt)
             /\ Counted(pops, moves[Len(moves)], fresh)
             /\ UNCHANGED result

-----------------------------------------------------------------------------
(* A dominance move is the only child, and the state is not cached.        *)
Dominate ==
  /\ Turn
  /\ DominanceMove(state) # NoMove
  /\ GoDown(frontier, <<DominanceMove(state)>>)
  /\ UNCHANGED cache

(* The insertion of the current state, and the frontier with its iterator. *)
Inserted ==
  CacheInsert(cache, Key(state), IF res.depth < DepthMax THEN res.depth ELSE DepthMax)

Marked ==
  IF ComputesHash THEN frontier
  ELSE [frontier EXCEPT ![Len(frontier)].cache_state = {Key(state)}]

Moves == LegalMoves(state, Current.mv)

Expand ==
  /\ Turn
  /\ DominanceMove(state) = NoMove
  /\ Inserted.new /\ ~ Inserted.full
  /\ Moves # <<>>
  /\ GoDown(Marked, Moves)
  /\ cache' = Inserted.cache

DeadEnd ==
  /\ Turn
  /\ DominanceMove(state) = NoMove
  /\ Inserted.new /\ ~ Inserted.full
  /\ Moves = <<>>
  /\ expanded' = expanded \union {state}
  /\ Backtrack(Marked, {Key(state)}, Inserted.cache, 1)

(* unique_states_searched is taken down before the turn puts it up.        *)
Duplicate ==
  /\ Turn
  /\ DominanceMove(state) = NoMove
  /\ ~ Inserted.new
  /\ Backtrack(Marked, {}, Inserted.cache, 0)
  /\ UNCHANGED expanded

(* insert_with_iterator throws: dfs returns in the middle of the turn.     *)
MemLimit ==
  /\ Turn
  /\ DominanceMove(state) = NoMove
  /\ Inserted.full
  /\ result' = "MEM_LIMIT"
  /\ cache' = Inserted.cache
  /\ UNCHANGED <<state, frontier, res, expanded>>

(* Environment: the CPU budget or the wall cap is used up; SIGINT or       *)
(* SIGTERM sets the flag.                                                  *)
Clock ==
  /\ result = "NONE" /\ ~ late /\ late' = TRUE
  /\ UNCHANGED <<init_state, max_states, search, iter, result, sigint, expanded, overdue>>

Signal ==
  /\ result = "NONE" /\ ~ sigint /\ sigint' = TRUE
  /\ UNCHANGED <<init_state, max_states, search, iter, result, late, expanded, overdue>>

Init ==
  /\ init_state \in Deals /\ max_states \in StateCaps
  /\ state = init_state
  /\ frontier = <<NewNode(NullMove)>>
  /\ cache = EmptyCache(MaxEntries)
  /\ res = Count0
  /\ iter = 0 /\ result = "NONE"
  /\ late = FALSE /\ sigint \in BOOLEAN
  /\ expanded = {} /\ overdue = 0

(* The turns of a search that nothing cuts short, and all of them.         *)
Uncut == Dominate \/ Expand \/ DeadEnd \/ Duplicate \/ Solve

Dfs == Uncut \/ MemLimit \/ TimeOut \/ Terminate

Next == Dfs \/ Clock \/ Signal

Spec == Init /\ [][Next]_vars

-----------------------------------------------------------------------------
(* The solution that solve_game_impl keeps of a search and prints when it  *)
(* is asked to: the deal, and the state after each move of the frontier.   *)

(* Mutant: the null move of the root is not skipped, and the last is.      *)
MovesFromRoot == [i \in 1..(Len(frontier) - 1) |-> frontier[i].mv]

(* The frontier without its root.                                          *)
SolutionMoves == [i \in 1..(Len(frontier) - 1) |-> frontier[i + 1].mv]

(* The moves are made only if n, the states searched, is more than one.    *)
MovesPrinted == IF res.states_searched > 1 THEN SolutionMoves ELSE <<>>

(* The states that moves lead through from a deal.                         *)
Played(deal, moves) ==
  LET after[i \in 1..(Len(moves) + 1)] ==
        IF i = 1 THEN deal ELSE Apply(after[i - 1], moves[i - 1])
  IN after

(* print_solution                                                          *)
PrintedStates == Played(init_state, MovesPrinted)

-----------------------------------------------------------------------------
(* The states of the path, and the nodes of the frontier with them.        *)
Path == Played(init_state, [i \in 1..(Len(frontier) - 1) |-> frontier[i + 1].mv])

Nodes ==
  [i \in 1..Len(frontier) |->
     [mv |-> frontier[i].mv, state |-> Path[i], child_moves |-> frontier[i].child_moves]]

(* The nodes above the current one that were given to the cache.           *)
CachedNodes ==
  {i \in 1..(Len(frontier) - 1) : DominanceMove(Path[i]) = NoMove}

TypeOK ==
  /\ init_state \in Deals /\ max_states \in StateCaps
  /\ state \in State
  /\ frontier \in Seq(Node) /\ frontier # <<>>
  /\ res \in Counters
  /\ iter \in 0..(CheckInterval - 1) /\ overdue \in 0..CheckInterval
  /\ late \in BOOLEAN /\ sigint \in BOOLEAN
  /\ expanded \subseteq State

(* However far the search went back, the state it mutates in place is the  *)
(* one that its frontier leads to from the deal: print_solution shows the  *)
(* solution that was found.                                                *)
StateIsReplayed == state = Path[Len(frontier)]

(* In the LRU cache the live items are the states of the path and no       *)
(* others: none of the path can be evicted, and none that was left can     *)
(* stay behind for ever.                                                   *)
LiveIsThePath ==
  Policy = "LRU" /\ result \notin {"UNSOLVABLE", "MEM_LIMIT"} =>
    LRULive(cache) = {Key(Path[i]) : i \in CachedNodes}

(* With a cache that does not forget the path, no state comes twice on it: *)
(* the search cannot go in circles.                                        *)
NoCycles ==
  \A i, j \in CachedNodes : i # j => Key(Path[i]) # Key(Path[j])

(* The open path is what the cache must not lose, and does not lose.       *)
OpenPathIsKept == LiveIsThePath /\ NoCycles

(* The search gives up for want of memory only when the path alone is      *)
(* longer than the cache.                                                  *)
MemLimitIsHonest ==
  result = "MEM_LIMIT" => Cardinality(CachedNodes) >= MaxEntries

(* depth and backtracks account for every turn, whatever their order.      *)
MovesAddUp ==
  /\ res.depth = Len(frontier) - 1 /\ res.depth <= res.max_depth
  /\ res.depth + res.backtracks + (IF result = "UNSOLVABLE" THEN 1 ELSE 0)
       = res.states_searched

(* The states the solver reports as unique are those the cache took, the   *)
(* ones it has since dropped included, and those of the dominance moves,   *)
(* which it never saw.                                                     *)
UniqueStatesAddUp ==
  res.unique_states_searched + (IF result = "MEM_LIMIT" THEN 1 ELSE 0)
    = CacheSize(cache) + StatesRemoved(cache) + res.dominance_moves

(* Once a budget is used up or a signal came, the search goes on for less  *)
(* than one interval between two looks at the clock, and never beyond the  *)
(* cap on states.                                                          *)
BudgetsHold ==
  /\ overdue < CheckInterval
  /\ max_states # 0 => res.states_searched <= max_states

(* The books of the solver, and the state that it changes in place, are    *)
(* those of its frontier after every turn.                                 *)
BooksAreRight == TypeOK /\ StateIsReplayed /\ MovesAddUp /\ BudgetsHold

(* The search does what the depth-first search over an exact cache does.   *)
Abstract == INSTANCE DepthFirstSearch WITH frontier <- Nodes

IsDepthFirstSearch == Abstract!Spec

(* Whatever states the cache confuses, a solution that is reported is one. *)
SolvedIsShown == Abstract!SolvedIsShown

(* A solution of any length but one is a play: each state comes from the   *)
(* one above it by a move of the game, none but the last is solved, none   *)
(* is printed twice, and the last is solved.                               *)
SolutionIsAPlay ==
  result = "SOLVED" /\ res.states_searched # 1 =>
    /\ \A i \in DOMAIN PrintedStates :
         (i = Len(PrintedStates)) = Solved(PrintedStates[i])
    /\ \A i \in 2..Len(PrintedStates) :
         LET before == PrintedStates[i - 1]
         IN \E m \in MovesOf(before) : PrintedStates[i] = Apply(before, m)
    /\ IsInjective(PrintedStates)
=============================================================================
