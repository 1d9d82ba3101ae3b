------------------------------ MODULE MCStores ------------------------------
(***************************************************************************)
(* The stores of the program: a cache of states, and what the payload and  *)
(* the hash of a state rest on.  A behaviour is one of four.  Cache: a     *)
(* flat cache under each of its policies, over five states that collide in *)
(* every way the hash allows, two with one hash, one with hash 0, and two  *)
(* of the other bucket.  Engine: a flat engine with a compact_state, for a game with  *)
(* a hole or one with foundations and a waste, with cards that share a     *)
(* byte and cards that do not, the least and the largest value of every    *)
(* field.  Table: three threads fill and use a table of random numbers.    *)
(* Cascade: a multiplicity engine with twelve cards of three ranks, in     *)
(* classes of one, two or four, on boards with cards face down, cards of   *)
(* one rank on one another, piles that are alike to the top, and a stock.  *)
(***************************************************************************)
EXTENDS CompactState, HashTables, MultiplicityCascade, FlatCache, TLC

CONSTANTS t1, t2, t3
MCThreads == {t1, t2, t3}
Symmetry == Permutations(MCThreads)

MCRules == {[hole |-> FALSE, waste |-> TRUE], [hole |-> TRUE, waste |-> FALSE]}

Pile(cards, hidden) == [cards |-> cards, hidden |-> hidden]

Nothing == [piles |-> <<>>, cells |-> {}, stock |-> {}, waste_top |-> {}, hole_top |-> {}]
TwoPiles ==
  [Nothing EXCEPT !.piles = <<Pile(<<0, 1, 2, 3, 4, 5>>, 0), Pile(<<6, 7, 8, 9, 10, 11>>, 0)>>]
Layouts ==
  {TwoPiles,
   [Nothing EXCEPT !.piles = <<Pile(<<0, 3, 7, 5>>, 2), Pile(<<6, 1, 8>>, 1), Pile(<<9>>, 0)>>,
                   !.cells = {4, 10}],
   [Nothing EXCEPT !.piles = <<Pile(<<0, 4>>, 1), Pile(<<3, 7>>, 0)>>,
                   !.hole_top = {6}, !.waste_top = {1}, !.stock = {2, 5, 8, 11}]}

MCBoards ==
  {[mode |-> m] @@ layout : m \in {"none", "colour", "suit irrelevant"}, layout \in Layouts}

MCHash(k) == CASE k = 1 -> 0 [] k = 2 -> 1 [] k = 3 -> 1 [] k = 4 -> 2 [] k = 5 -> 3

VARIABLES part     (* "engine", "table", "cascade" or "cache", fixed.      *)

MCInit ==
  /\ part \in {"engine", "table", "cascade", "cache"}
  /\ Init /\ TablesInit
  /\ part # "engine" => data = clear /\ ~ rules.hole
  /\ CascadeInit
  /\ part # "cascade" => mode = "none" /\ descriptors = BoardDescriptors(TwoPiles)
  /\ CacheInit
  /\ part # "cache" => policy = "FLAT"

MCNext ==
  \/ part = "engine" /\ Next /\ UNCHANGED <<part, tables, cascade_vars, cache_vars>>
  \/ part = "table" /\ TablesNext /\ UNCHANGED <<part, vars, cascade_vars, cache_vars>>
  \/ part = "cascade" /\ CascadeNext /\ UNCHANGED <<part, vars, tables, cache_vars>>
  \/ part = "cache" /\ CacheNext /\ UNCHANGED <<part, vars, tables, cascade_vars>>

MCSpec == MCInit /\ [][MCNext]_<<part, vars, tables, cascade_vars, cache_vars>>

-----------------------------------------------------------------------------
(* Cards of a class share a slot just if what lies under them is alike: it *)
(* is the same down to the table, but for cards of one class.              *)
RECURSIVE Under(_)
Under(c) ==
  LET d == descriptors[c]
  IN IF IsPredecessor(d) THEN <<<<ClassOf(Parent(d)), d.down>>>> \o Under(Parent(d))
     ELSE <<<<d.kind, d.down>>>>

AlikeShareSlots ==
  stage = "idle" =>
    \A c, x \in Ids :
      ClassOf(c) = ClassOf(x) => (card_slot[c] = card_slot[x] <=> Under(c) = Under(x))
=============================================================================
