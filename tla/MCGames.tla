------------------------------ MODULE MCGames ------------------------------
(***************************************************************************)
(* The search on small games of every kind the rules can describe, with    *)
(* the policy that dispatch chooses for each, over a cache that never      *)
(* forgets.                                                                *)
(***************************************************************************)
EXTENDS Solver, Deal, LegalMoves, CanonicalState, Rulebook, SolRules, StatePrinter

CONSTANT Wanted   (* The games to search: a set of names. *)

Small ==
  [DefaultRules EXCEPT !.max_rank = 2, !.tableau_pile_count = 2]

(* Turning the waste over, cards face down, cards back from foundations.   *)
Klondike ==
  [DefaultRules EXCEPT
     !.max_rank = 2, !.tableau_pile_count = 2, !.build_pol = "red-black",
     !.built_group_pol = "red-black", !.move_built_group = "partial-if-card-above-buildable",
     !.diagonal_deal = TRUE, !.face_up = "top",
     !.foundations_removable = TRUE, !.stock_size = 3, !.stock_deal_count = 2,
     !.stock_redeal = TRUE]

(* A stacked reserve that fills spaces, a random base.                     *)
Canfield ==
  [DefaultRules EXCEPT
     !.max_rank = 3, !.tableau_pile_count = 2, !.build_pol = "red-black",
     !.built_group_pol = "red-black", !.move_built_group = "whole-pile",
     !.spaces_pol = "auto-reserve-then-waste",
     !.foundations_init_cards = "one", !.foundations_base = 0,
     !.stock_size = 5, !.stock_deal_count = 3, !.stock_redeal = TRUE,
     !.reserve_size = 4, !.reserve_stacked = TRUE]

FreeCell ==
  [DefaultRules EXCEPT
     !.max_rank = 3, !.tableau_pile_count = 2, !.build_pol = "red-black",
     !.built_group_pol = "red-black", !.cells = 1]

BlackHole ==
  [DefaultRules EXCEPT
     !.max_rank = 4, !.tableau_pile_count = 3, !.build_pol = "no-build",
     !.built_group_pol = "no-build", !.foundations_present = FALSE, !.hole = TRUE]

Golf ==
  [BlackHole EXCEPT
     !.max_rank = 3, !.tableau_pile_count = 4, !.hole_base = 0,
     !.hole_build_loops = FALSE, !.stock_size = 4,
     !.stock_deal_t = "hole"]

(* Two decks, deals to all piles, only complete piles go up.               *)
Spider ==
  [DefaultRules EXCEPT
     !.max_rank = 2, !.two_decks = TRUE, !.tableau_pile_count = 2,
     !.move_built_group = "yes", !.built_group_pol = "same-suit", !.face_up = "top",
     !.foundations_only_comp_piles = TRUE, !.stock_size = 6,
     !.stock_deal_t = "tableau piles"]

Spiderette ==
  [Spider EXCEPT
     !.two_decks = FALSE, !.foundations_only_comp_piles = FALSE,
     !.tableau_pile_count = 2, !.stock_size = 3]

Fortunes ==
  [DefaultRules EXCEPT
     !.max_rank = 4, !.tableau_pile_count = 2, !.build_pol = "same-suit",
     !.built_group_pol = "same-suit", !.spaces_pol = "auto-waste-then-stock",
     !.foundations_init_cards = "all", !.stock_size = 5]

Accordion ==
  [DefaultRules EXCEPT
     !.tableau_pile_count = 0, !.foundations_present = FALSE,
     !.max_rank = 3, !.accordion_size = 7, !.accordion_moves = <<-1, -3>>,
     !.accordion_pol = {"same-suit", "same-rank"}]

GapsGame ==
  [DefaultRules EXCEPT
     !.tableau_pile_count = 0, !.foundations_present = FALSE,
     !.max_rank = 3, !.sequence_count = 4]

(* Two decks.                                                              *)
Forty ==
  [DefaultRules EXCEPT
     !.max_rank = 2, !.two_decks = TRUE, !.tableau_pile_count = 2,
     !.build_pol = "same-suit", !.built_group_pol = "same-suit",
     !.spaces_pol = "no-build", !.stock_size = 6]

(* A reserve that is not stacked, cards back from foundations.             *)
Flower ==
  [DefaultRules EXCEPT
     !.max_rank = 3, !.tableau_pile_count = 2, !.reserve_size = 3,
     !.foundations_removable = TRUE]

(* Cells that start full, groups that only move whole.                     *)
Seahaven ==
  [DefaultRules EXCEPT
     !.max_rank = 3, !.tableau_pile_count = 2, !.build_pol = "same-suit",
     !.built_group_pol = "same-suit", !.move_built_group = "maximal-group",
     !.cells = 1, !.cells_pre_filled = 1]

(* A game that deals to the piles and lets cards come back from the        *)
(* foundations.                                                            *)
EastHaven ==
  [DefaultRules EXCEPT
     !.max_rank = 4, !.tableau_pile_count = 3, !.build_pol = "red-black",
     !.built_group_pol = "red-black", !.move_built_group = "yes",
     !.foundations_removable = TRUE, !.stock_size = 7,
     !.stock_deal_t = "tableau piles"]

(* An accordion whose piles also move one to the right.                    *)
RightAccordion ==
  [Accordion EXCEPT
     !.accordion_moves = <<1>>, !.accordion_pol = {"red-black"}, !.accordion_size = 4]

Plain(r) == Searched(r, "none", FALSE, "auto")
ForcedLRU(r) == Searched(r, "none", TRUE, "auto")
Multiplicity(r) == Searched(r, "none", FALSE, "multiplicity")
Streamlined(r, streamliner) == Searched(r, streamliner, FALSE, "auto")

MCRules ==
  [klondike |-> Plain(Klondike),
   klondike_big |-> Plain([Klondike EXCEPT !.max_rank = 3, !.stock_size = 5]),
   klondike_three |-> Plain([Klondike EXCEPT !.max_rank = 3, !.stock_size = 8,
                               !.stock_deal_count = 3, !.spaces_pol = "no-build",
                               !.foundations_removable = FALSE]),
   klondike_lru |-> ForcedLRU(Klondike),
   klondike_mult |-> Multiplicity(Klondike),
   klondike_suits |-> Streamlined(Klondike, "suit-symmetry"),
   canfield |-> Plain(Canfield),
   canfield_any |-> Plain([Canfield EXCEPT !.spaces_pol = "auto-reserve-then-any",
                                           !.move_built_group = "partial-if-card-above-buildable"]),
   canfield_mult |-> Multiplicity(Canfield),
   freecell |-> Plain(FreeCell),
   freecell_lru |-> ForcedLRU(FreeCell),
   freecell_both |-> Streamlined(FreeCell, "both"),
   seahaven |-> Plain(Seahaven),
   seahaven_mult |-> Multiplicity(Seahaven),
   seahaven_auto |-> Streamlined([Seahaven EXCEPT !.build_pol = "any-suit"], "auto-foundations"),
   blackhole |-> Plain(BlackHole),
   golf |-> Plain(Golf),
   golf_lru |-> ForcedLRU(Golf),
   spider |-> Plain(Spider),
   spiderette |-> Plain(Spiderette),
   spiderette_lru |->
     ForcedLRU([Spider EXCEPT !.two_decks = FALSE, !.tableau_pile_count = 3,
                              !.stock_size = 2]),
   fortunes |-> Plain(Fortunes),
   fortunes_lru |-> ForcedLRU(Fortunes),
   accordion |-> Plain(Accordion),
   gaps |-> Plain(GapsGame),
   gaps_fixed |-> Plain([GapsGame EXCEPT !.sequence_fixed_suit = TRUE]),
   gaps_both |-> Plain([GapsGame EXCEPT !.max_rank = 2,
                                        !.sequence_direction = "LR"]),
   forty |-> Plain(Forty),
   flower |-> Plain(Flower),
   east_haven |-> Plain(EastHaven),
   right_accordion |-> Plain(RightAccordion),
   flower_lru |-> ForcedLRU(Flower)]

-----------------------------------------------------------------------------
(* Shuffled decks: cards sorted by a multiple of their number modulo a     *)
(* prime.                                                                  *)
Seeds ==
  [[g \in DOMAIN MCRules |-> {2, 6, 7}] EXCEPT
     !.klondike = 1..8, !.klondike_big = {3, 7, 8}, !.klondike_three = {8, 11, 50}, !.klondike_lru = {3, 4, 5},
     !.klondike_mult = {3, 4, 5}, !.klondike_suits = {3, 4, 5},
     !.canfield = {3, 4, 6}, !.freecell = 1..5, !.golf = {2, 7}, !.golf_lru = {5},
     !.blackhole = {5}, !.fortunes = {5, 7, 8}, !.fortunes_lru = {7, 8},
     !.spider = {3, 4, 8}, !.spiderette = {4, 5, 6}, !.spiderette_lru = {1, 4, 5}, !.accordion = 1..8,
     !.gaps = {3, 4, 8}, !.gaps_fixed = {3, 8}, !.gaps_both = {4, 5, 7},
     !.forty = {6, 7}, !.flower = {1, 2, 6}, !.flower_lru = {2, 6},
     !.seahaven = {1, 3, 8}, !.seahaven_mult = {1, 3}, !.seahaven_auto = {4, 5, 6}]

Deck(r, seed) ==
  LET n == 4 * r.max_rank * Decks(r)
      At(i) == (seed * (i * i + 3 * i + 5)) % 211
      Before(i) == {j \in 1..n : At(j) < At(i) \/ (At(i) = At(j) /\ j < i)}
      order == [p \in 1..n |-> CHOOSE i \in 1..n : Cardinality(Before(i)) = p - 1]
  IN [i \in 1..n |-> Card(order[i] % 4, ((order[i] \div 4) % r.max_rank) + 1)]

DeckSize(r) ==
  IF r.accordion_size > 0 THEN r.accordion_size ELSE 4 * r.max_rank * Decks(r)

(* Two decks in a given order, the first card dealt last.                  *)
Hand(cards) == Reverse([i \in 1..Len(cards) |-> Card(cards[i][1], cards[i][2])])

EastHavenDeck ==
  Hand(<<<<3, 3>>, <<3, 4>>, <<3, 1>>, <<2, 4>>, <<1, 4>>, <<1, 2>>, <<0, 1>>,
         <<1, 3>>, <<0, 2>>, <<1, 1>>, <<0, 3>>, <<2, 1>>, <<0, 4>>,
         <<3, 2>>, <<2, 2>>, <<2, 3>>>>)

RightAccordionDeck == Hand(<<<<0, 2>>, <<1, 3>>, <<0, 1>>, <<0, 3>>>>)

DecksOf(g, r) ==
  CASE g = "east_haven"      -> {EastHavenDeck}
    [] g = "right_accordion" -> {RightAccordionDeck}
    [] OTHER -> {SubSeq(Deck(r, seed), 1, DeckSize(r)) : seed \in Seeds[g]}

DealsOf(g, r) == {DealOf(r, deck) : deck \in DecksOf(g, r)}

MCDeals == UNION {DealsOf(g, MCRules[g]) : g \in Wanted}

MCNoMove == MoveOf("none", NoPile, NoPile, 0)
MCDominanceMove(s) == Head(Append(DominanceMovesOf(s), MCNoMove))
MCPositions(s) == {s}
MCHash(k) == 0

(* No budget, no signal, and memory for all states.                        *)
MCInit == Init /\ ~ sigint
MCSpec == MCInit /\ [][Uncut]_vars

-----------------------------------------------------------------------------
(* Piles of a kind that may change places are put in order.                *)
Before(p, q) ==
  \/ PileLess(p, q)
  \/ /\ ~ PileLess(q, p)
     /\ \E i \in 1..Len(p) : p[i] # q[i] /\ p[i].down /\ \A j \in 1..(i - 1) : p[j] = q[j]

Sorted(s, refs) ==
  LET sorted == SortSeq([i \in 1..Len(refs) |-> s.piles[refs[i]]], Before)
  IN [s EXCEPT !.piles = [p \in DOMAIN @ |->
        IF p \in Range(refs) THEN sorted[IndexOf(refs, p)] ELSE @[p]]]

Tidied(s) ==
  LET cells == Sorted(Sorted(s, L(s).cells), L(s).reserve)
  IN IF PileSymmetry(R(s)) THEN Sorted(cells, L(s).tableau_piles) ELSE cells

RECURSIVE SolvedFrom(_, _)
SolvedFrom(seen, front) ==
  LET next == {Tidied(s) : s \in UNION {RuleSteps(t) : t \in front}} \ seen
  IN \/ \E s \in front : IsSolved(s)
     \/ next # {} /\ SolvedFrom(seen \union next, next)

Start(s) == [s EXCEPT !.store = <<>>, !.tableau_piles = L(s).tableau_piles,
                      !.cells = L(s).cells, !.reserve = L(s).reserve]

CanBeSolved(s) == SolvedFrom({Start(s)}, {Start(s)})

SuitsMerged(r) == r.suit_symmetry /\ ~ r.hole

(* What dfs reports is so: a deal it solved can be won and a deal it found *)
(* unsolvable cannot, by the rules themselves, whatever moves the          *)
(* generator leaves out and the dominance takes for granted.  Streamliners *)
(* may miss solutions, and promise only the first.                         *)
VerdictIsRight ==
  /\ result = "SOLVED" => CanBeSolved(init_state)
  /\ result = "UNSOLVABLE" /\ ~ SuitsMerged(R(state)) /\ ~ R(state).auto_foundations
       => ~ CanBeSolved(init_state)

(* A state that probe_and_insert takes for known was searched before, up   *)
(* to the order of its piles: descriptors, canonical forms and             *)
(* predecessors keep different positions apart, but for suits that the     *)
(* streamliner calls alike.                                                *)
SeenIsSeen ==
  Running /\ ~ SuitsMerged(R(state)) /\ DominanceMove(state) = NoMove /\ CacheContains(cache, Key(state))
    => Board(state) \in {Board(s) : s \in expanded}

(* And a position that was searched before is recognised, however its      *)
(* piles have changed places since.                                        *)
BoardsAreRecognised ==
  Running /\ DominanceMove(state) = NoMove /\ Board(state) \in {Board(s) : s \in expanded}
    => CacheContains(cache, Key(state))

(* After every make_move and undo_move the descriptors are those of the    *)
(* piles (assert_payload_consistent, verify_against_scratch), and the      *)
(* predecessors of an accordion those of its row.  The flat descriptors    *)
(* that an accordion keeps as well are PayloadIsConsistent's.              *)
StoreIsRight == ComparedIsScratch(state)

(* The assertion of solver.cpp in full, of every state that was inserted:  *)
(* assert_payload_consistent compares an accordion's flat descriptors too, *)
(* which moves of groups change although its piles are no tableau.         *)
PayloadIsConsistent == \A s \in expanded : StoreIsScratch(s)

(* What undo_move gives back are the piles the moves of the path make from *)
(* the deal.                                                               *)
BoardIsReplayed == state.piles = Path[Len(frontier)].piles

(* A state counts as solved just when no card lies anywhere else, although *)
(* piles are counted one by one, and sequences keep their length: the      *)
(* assertions of is_solved.                                                *)
SolvedIsEverything == SolvedConsistent(state)

(* eval_pile_order: one step at a time keeps every list in order of size.  *)
PilesInOrder ==
  LET InOrder(list) == \A i, j \in 1..Len(list) :
        i < j => ~ PileLess(state.piles[list[i]], state.piles[list[j]])
  IN SortsPiles(state) =>
       InOrder(state.tableau_piles) /\ InOrder(state.cells) /\ InOrder(state.reserve)

(* check_face_down_consistent: the top card of a pile is face up, no card  *)
(* lies face down on one that is face up, and flat descriptors know        *)
(* nothing yet of a card that is face down.                                *)
FaceDownIsConsistent ==
  \A p \in Range(L(state).tableau_piles) :
    /\ FaceDownBelow(state.piles[p])
    /\ Family(R(state)) = "flat" => FaceDownUnknown(state, state.piles[p])

-----------------------------------------------------------------------------
(* A column of a section, read as its pile: the top card is the lowest.    *)
PileRead(rows, k) ==
  LET column == [i \in DOMAIN rows |-> IF k <= Len(rows[i]) THEN rows[i][k] ELSE Missing]
  IN Reverse(SelectSeq(column, LAMBDA cell : cell \notin {Missing, EmptyPile}))

SectionRows(s, header) ==
  LET picture == Picture(s)
      at == {i \in DOMAIN picture : picture[i].header = header}
  IN picture[CHOOSE i \in at : TRUE].rows

PilesOf(s) ==
  LET r == R(s)  l == L(s)
      In(present, header, refs) == IF present THEN {[header |-> header, refs |-> refs]} ELSE {}
  IN In(r.cells > 0, "Cells", l.cells)
       \union In(r.tableau_pile_count > 0, "Tableau Piles", l.tableau_piles)
       \union In(r.reserve_size > 0 /\ ~ r.reserve_stacked, "Reserve", l.reserve)
       \union In(r.reserve_size > 0 /\ r.reserve_stacked, "Reserve (Stacked)", l.reserve)
       \union In(HasWaste(r), "Stock | Waste", <<l.stock, l.waste>>)

(* Cards that stand below each other in the picture lie on each other in   *)
(* the game: with tabs taken off, piles of any height and cards face down, *)
(* every pile can be read from its column, in the order they were dealt.   *)
PicturesAreReadBack ==
  \A section \in PilesOf(state) :
    LET rows == SectionRows(state, section.header)
    IN \A k \in DOMAIN section.refs :
         LET pile == state.piles[section.refs[k]]
         IN PileRead(rows, k) = [i \in DOMAIN pile |-> Shown(pile[i])]

(* Two states of a search that look alike are the same to the cache: what  *)
(* the picture leaves out - cards under a top, cards that lie face down -  *)
(* follows from the deal and what it shows.                                *)
LookAlikesAreAlike ==
  result # "NONE" =>
    Cardinality({Picture(s) : s \in expanded})
      = Cardinality({<<Picture(s), Key(s)>> : s \in expanded})

-----------------------------------------------------------------------------
(* What the cache answers is whether a position was searched before, no    *)
(* more and no less.                                                       *)
KnownIsSearched == SeenIsSeen /\ BoardsAreRecognised

(* After every make_move and undo_move the piles are those of the path, in *)
(* the order that the policy keeps, with the cards face down that should   *)
(* be, and the game is over just when they are all where they belong.      *)
PilesAreRight ==
  BoardIsReplayed /\ PilesInOrder /\ FaceDownIsConsistent /\ SolvedIsEverything

(* A picture shows every pile, and what tells two states apart.            *)
PicturesAreRight == PicturesAreReadBack /\ LookAlikesAreAlike
=============================================================================
