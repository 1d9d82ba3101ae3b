----------------------------- MODULE LegalMoves -----------------------------
(***************************************************************************)
(* get_legal_moves: the moves of a state, in the order of the code.  The   *)
(* search tries the last one first.  The move that led to the state tells  *)
(* which moves would only take it back.                                    *)
(***************************************************************************)
EXTENDS Descriptors

(* The moves Of each element of a list, and a move under a condition.      *)
ForEach(list, Of(_)) ==
  LET moves[i \in 0..Len(list)] == IF i = 0 THEN <<>> ELSE moves[i - 1] \o Of(list[i])
  IN moves[Len(list)]

When(condition, m) == IF condition THEN <<m>> ELSE <<>>

Regular(from, to) == MoveOf("regular", from, to, 1)
Group(from, to, count, reveals) ==
  [MoveOf("built_group", from, to, count) EXCEPT !.reveal_move = reveals]

ToTop(r) == r.hole \/ (r.foundations_present /\ ~ r.foundations_only_comp_piles)
WithRedeal(r) == HasWaste(r) /\ r.stock_redeal
WithoutRedeal(r) == HasWaste(r) /\ ~ r.stock_redeal

-----------------------------------------------------------------------------
(* Which card may go where.                                                *)

(* tableau_space_and_auto_reserve                                          *)
SpaceIsForReserve(s) ==
  /\ R(s).spaces_pol = "auto-reserve-then-waste"
  /\ \E t \in Range(s.tableau_piles) : Empty(s, t)

TableauTakes(s, c, t) ==
  IF Empty(s, t)
  THEN CASE R(s).spaces_pol = "no-build" -> FALSE
         [] R(s).spaces_pol = "kings"    -> c.rank = 13
         [] OTHER                        -> TRUE
  ELSE NextLegal(s, R(s).build_pol, Top(s, t), c)

TableauMove(s, from, t) ==
  from # t /\ R(s).build_pol # "no-build" /\ TableauTakes(s, Top(s, from), t)

FoundationTakes(s, c, f) ==
  /\ Len(s.piles[f]) # R(s).max_rank
  /\ c.suit = FoundationSuit(s, f)
  /\ c.rank = IF Empty(s, f) THEN s.base ELSE (Top(s, f).rank % R(s).max_rank) + 1

HoleTakes(s, c) ==
  LET h == Top(s, L(s).hole).rank
  IN \/ c.rank - h \in {-1, 1}
     \/ R(s).hole_build_loops /\ {c.rank, h} = {1, R(s).max_rank}

-----------------------------------------------------------------------------
(* generate_k_plus_moves_to_check: how many cards to deal (a negative      *)
(* number turns the waste back) before the top of the waste is played, and *)
(* whether the waste is then turned over; the largest first.               *)
(* Mutant: the waste is taken for a whole number of deals.                 *)
KPlusRedealtEvenly(s) ==
  {k \in (1 - Len(s.piles[L(s).waste]))..(-1) :
     (k + Len(s.piles[L(s).waste])) % R(s).stock_deal_count = 0}

KPlusRedealt(s) ==
  LET waste == Len(s.piles[L(s).waste])
      stock == Len(s.piles[L(s).stock])
      n == R(s).stock_deal_count
  IN IF waste % n = 0
     THEN {k \in (1 - waste)..(-1) : (k + waste) % n = 0}
     ELSE {k \in (1 - waste)..(stock - 1) : (k + waste) % n = 0}

KPlus(s) ==
  LET waste == Len(s.piles[L(s).waste])
      stock == Len(s.piles[L(s).stock])
      n == R(s).stock_deal_count
      dealt == {k \in 1..(stock - 1) : k % n = 0}
      plain == (IF waste > 0 THEN {0} ELSE {}) \union dealt
                 \union (IF R(s).stock_redeal THEN KPlusRedealt(s) ELSE {})
      whole == <<stock, R(s).stock_redeal>>
      rest == SelectSeq(Reverse(Numbered(1 - waste, waste + stock)), LAMBDA k : k \in plain)
      others == [i \in 1..Len(rest) |-> <<rest[i], FALSE>>]
  IN IF waste = 0 /\ stock = 0 THEN <<>>
     ELSE <<whole>> \o SelectSeq(others, LAMBDA k : k # whole)

KPlusMove(s, k, to) ==
  [MoveOf("stock_k_plus", L(s).stock, to, k[1]) EXCEPT !.flip_waste = k[2]]

(* stock_card_from_count                                                   *)
StockCard(s, count) ==
  IF count > 0 THEN s.piles[L(s).stock][count] ELSE s.piles[L(s).waste][1 - count]

StockToTableau(s) ==
  IF SpaceIsForReserve(s) /\ ~ Empty(s, L(s).reserve[1]) THEN <<>>
  ELSE ForEach(KPlus(s), LAMBDA k :
         ForEach(s.tableau_piles, LAMBDA t :
           When(TableauTakes(s, StockCard(s, k[1]), t), KPlusMove(s, k, t))))

StockToTop(s) ==
  ForEach(KPlus(s), LAMBDA k :
    ForEach(L(s).foundations, LAMBDA f :
      When(FoundationTakes(s, StockCard(s, k[1]), f), KPlusMove(s, k, f)))
    \o When(R(s).hole /\ HoleTakes(s, StockCard(s, k[1])), KPlusMove(s, k, L(s).hole)))

-----------------------------------------------------------------------------
StockToHole(s) ==
  When(R(s).stock_deal_t = "hole" /\ L(s).stock # NoPile /\ ~ Empty(s, L(s).stock),
       Regular(L(s).stock, L(s).hole))

(* The target of this move is no pile: the code leaves it 0.               *)
StockToAllTableau(s) ==
  LET size == Len(s.piles[L(s).stock])
  IN IF R(s).stock_size = 0 \/ R(s).stock_deal_t # "tableau piles" \/ size = 0 THEN <<>>
     ELSE <<MoveOf("stock_to_all_tableau", 0, 0,
                 Min({size, Len(s.tableau_piles)}))>>

EmptyCell(s) == SelectLastInSeq(s.cells, LAMBDA c : Empty(s, c))

ToCell(s, parent) ==
  LET cell == s.cells[EmptyCell(s)]
      tableau == SelectSeq(s.tableau_piles, LAMBDA t : ~ Empty(s, t) /\ parent.to # t)
      reserve == SelectSeq(s.reserve, LAMBDA r : ~ Empty(s, r))
  IN IF EmptyCell(s) = 0 THEN <<>>
     ELSE ForEach(tableau \o reserve, LAMBDA p : <<Regular(p, cell)>>)
            \o (IF HasWaste(R(s))
                THEN ForEach(KPlus(s), LAMBDA k : <<KPlusMove(s, k, cell)>>) ELSE <<>>)

ToTableau(s, from) ==
  IF SpaceIsForReserve(s) THEN <<>>
  ELSE ForEach(s.tableau_piles, LAMBDA t : When(TableauMove(s, from, t), Regular(from, t)))

-----------------------------------------------------------------------------
(* Foundations.  is_valid_auto_foundation_move: no card that can still     *)
(* come into play needs the next card of f in the tableau.                 *)
FoundationRank(s, f) ==
  IF Empty(s, f) THEN 0 ELSE Converted(Top(s, f).rank, s.base, R(s).max_rank)

AutoFoundation(s, f) ==
  LET r == R(s)
      next == IF Empty(s, f) THEN 1
              ELSE Converted(Top(s, f).rank + 1, s.base, r.max_rank)
      gap(g) == next - FoundationRank(s, g)
      Alike(g) == /\ r.build_pol = "red-black"
                  /\ Colour(FoundationSuit(s, g)) = Colour(FoundationSuit(s, f))
      rest == Range(L(s).foundations) \ {f}
      OthersWithin(n) == \A g \in rest : ~ Alike(g) => gap(g) <= n
      alikeWithin3 == \A g \in rest : Alike(g) => gap(g) <= 3
  IN /\ ~ r.foundations_only_comp_piles /\ ~ r.two_decks
     /\ CASE r.auto_foundations \/ r.build_pol \in {"no-build", "same-suit"} -> TRUE
          [] ~ r.auto_foundations /\ r.build_pol = "red-black" ->
               \/ OthersWithin(2) /\ alikeWithin3
               \/ OthersWithin(1) /\ ~ r.foundations_removable
          [] OTHER -> OthersWithin(2)

(* dominance_blocks_foundation_move: the card would go up again at once.   *)
GoesUpAgain(s, f) == AutoFoundation([s EXCEPT !.piles[f] = Tail(@)], f)

FromFoundations(s, parent) ==
  LET Open(f) == ~ Empty(s, f) /\ ~ (parent.to = f /\ ~ parent.reveal_move)
                   /\ ~ GoesUpAgain(s, f)
  IN IF ~ R(s).foundations_removable THEN <<>>
     ELSE ForEach(SelectSeq(L(s).foundations, Open), LAMBDA f :
            ToTableau(s, f)
              \o (IF EmptyCell(s) = 0 THEN <<>> ELSE <<Regular(f, s.cells[EmptyCell(s)])>>))

MayGoToTop(s, parent, from) == parent.to # from \/ parent.dominance_move

CardsToTop(s, parent) ==
  LET from == SelectSeq(s.tableau_piles \o s.cells \o s.reserve,
                        LAMBDA p : ~ Empty(s, p) /\ MayGoToTop(s, parent, p))
  IN ForEach(from, LAMBDA p :
       ForEach(L(s).foundations, LAMBDA f :
         When(FoundationTakes(s, Top(s, p), f), Regular(p, f)))
       \o When(R(s).hole /\ HoleTakes(s, Top(s, p)), Regular(p, L(s).hole)))

(* is_ordered_pile, and where it goes.                                     *)
IsOrderedPile(s, t) ==
  /\ Len(s.piles[t]) = R(s).max_rank
  /\ \A i \in 1..Len(s.piles[t]) : s.piles[t][i] = Card(Top(s, t).suit, i)

CompletePiles(s) ==
  LET free == SelectSeq(L(s).foundations, LAMBDA f : Empty(s, f))
  IN ForEach(s.tableau_piles, LAMBDA t :
       When(IsOrderedPile(s, t) /\ free # <<>>, Group(t, Head(free), R(s).max_rank, FALSE)))

-----------------------------------------------------------------------------
(* Built groups: get_built_group_height and the moves of groups.           *)
GroupHeight(s, t) ==
  LET pile == s.piles[t]
      Joined(i) == NextLegal(s, R(s).built_group_pol, pile[i + 1], pile[i]) /\ ~ pile[i + 1].down
  IN Max({h \in 1..Len(pile) : \A i \in 1..(h - 1) : Joined(i)})

(* The card under a group of this many cards would be turned up.           *)
TurnsUp(s, from, count) == Len(s.piles[from]) > count /\ s.piles[from][count + 1].down

SomeFoundationTakes(s, c) == \E f \in Range(L(s).foundations) : FoundationTakes(s, c, f)

(* The counts that move_built_group lets go to a pile with cards: part of a *)
(* group only when that frees a card for a foundation, if the rules say so. *)
GroupCounts(s, from, height) ==
  CASE R(s).move_built_group = "yes" -> 2..height
    [] R(s).move_built_group = "maximal-group" -> {height}
    [] R(s).move_built_group = "partial-if-card-above-buildable" ->
         {n \in 1..height : n = height \/ SomeFoundationTakes(s, s.piles[from][n + 1])}

GroupsToSpace(s, from, to, height) ==
  LET first == CASE R(s).move_built_group = "yes" -> 2
                 [] R(s).move_built_group = "maximal-group" -> height
                 [] R(s).move_built_group = "partial-if-card-above-buildable" -> 1
      counts == IF R(s).spaces_pol \in {"any", "auto-reserve-then-any"}
                THEN Numbered(first, Max({0, height - first + 1}))
                ELSE When(R(s).spaces_pol = "kings" /\ s.piles[from][height].rank = 13, height)
  IN ForEach(counts, LAMBDA n :
       <<Group(from, to, n, n = height /\ TurnsUp(s, from, height))>>)

GroupOntoPile(s, from, to, height) ==
  LET fits == {n \in GroupCounts(s, from, height) :
                 NextLegal(s, R(s).built_group_pol, Top(s, to), s.piles[from][n])}
      n == Min(fits)
  IN IF fits = {} THEN <<>>
     ELSE <<Group(from, to, n, n = height /\ TurnsUp(s, from, height))>>

WholePile(s, from, to, height) ==
  When(/\ height = Len(s.piles[from])
       /\ IF Empty(s, to)
          THEN \/ R(s).spaces_pol = "any"
               \/ R(s).spaces_pol = "kings" /\ s.piles[from][height].rank = 13
          ELSE NextLegal(s, R(s).built_group_pol, Top(s, to), s.piles[from][height]),
       Group(from, to, height, FALSE))

BuiltGroups(s) ==
  LET style == R(s).move_built_group
      from == SelectSeq(s.tableau_piles, LAMBDA t :
                ~ Empty(s, t) /\ (style = "yes" => GroupHeight(s, t) > 1))
      To(p, t) == IF style = "whole-pile" THEN WholePile(s, p, t, GroupHeight(s, p))
                  ELSE IF Empty(s, t) THEN GroupsToSpace(s, p, t, GroupHeight(s, p))
                  ELSE GroupOntoPile(s, p, t, GroupHeight(s, p))
  IN IF style = "no" \/ SpaceIsForReserve(s) THEN <<>>
     ELSE ForEach(from, LAMBDA p :
            ForEach(SelectSeq(s.tableau_piles, LAMBDA t : t # p), LAMBDA t : To(p, t)))

(* Single cards from pile to pile, but no pile of one card to a space.     *)
TableauToTableau(s) ==
  LET from == SelectSeq(s.tableau_piles, LAMBDA t : ~ Empty(s, t))
      To(p, t) == When(TableauMove(s, p, t) /\ ~ (Len(s.piles[p]) = 1 /\ Empty(s, t)),
                       Regular(p, t))
  IN IF R(s).move_built_group \notin {"no", "yes"} \/ SpaceIsForReserve(s) THEN <<>>
     ELSE ForEach(from, LAMBDA p : ForEach(s.tableau_piles, LAMBDA t : To(p, t)))

-----------------------------------------------------------------------------
(* Sequences: a gap takes the card that follows its left neighbour, or     *)
(* goes before its right one.  Place 1 of a row is its right end.          *)
FitsLeft(s, row, j, c) ==
  LET size == Len(s.piles[row])
  IN IF j = size THEN c.rank = 2 /\ (R(s).sequence_fixed_suit => c.suit = row)
     ELSE /\ s.piles[row][j + 1] # Gap
          /\ NextLegal(s, R(s).sequence_build_pol, c, s.piles[row][j + 1])

FitsRight(s, row, j, c) ==
  IF j = 1 THEN c.rank = R(s).max_rank
  ELSE /\ s.piles[row][j - 1] # Gap
       /\ NextLegal(s, R(s).sequence_build_pol, s.piles[row][j - 1], c)

SequenceMoves(s) ==
  LET n == R(s).max_rank
      direction == R(s).sequence_direction
      encoded == FlattenSeq([i \in 1..R(s).sequence_count |->
                               [k \in 1..n |-> (i - 1) * n + n - k]])
      At(x) == s.piles[x \div n][(x % n) + 1]
      Into(x, space) ==
        LET row == space \div n
            j == (space % n) + 1
        IN When(direction \in {"L", "LR"} /\ FitsLeft(s, row, j, At(x)),
                MoveOf("sequence", x, space, 1))
             \o When(direction \in {"R", "LR"} /\ FitsRight(s, row, j, At(x)),
                     MoveOf("sequence", x, space, 1))
      spaces == SelectSeq(encoded, LAMBDA x : At(x) = Gap)
      cards == SelectSeq(encoded, LAMBDA x : At(x) # Gap)
  IN ForEach(cards, LAMBDA x : ForEach(spaces, LAMBDA space : Into(x, space)))

(* Accordions: a rule is how many piles to the right (left if negative).   *)
AccordionAllows(s, a, b) ==
  \E policy \in R(s).accordion_pol :
    CASE policy = "same-rank" -> a.rank = b.rank
      [] policy = "same-suit" -> a.suit = b.suit
      [] policy = "red-black" -> Colour(a.suit) # Colour(b.suit)
      [] policy = "any-suit"  -> TRUE

AccordionMoves(s) ==
  LET piles == s.accordion
      By(i, n) ==
        When(i + n \in 1..Len(piles) /\ AccordionAllows(s, Top(s, piles[i + n]), Top(s, piles[i])),
             MoveOf("accordion", piles[i], piles[i + n], Len(s.piles[piles[i]])))
  IN ForEach(Numbered(1, Len(piles)), LAMBDA i :
       ForEach(R(s).accordion_moves, LAMBDA n : By(i, n)))

-----------------------------------------------------------------------------
(* turn_face_down_cards                                                    *)
TurnsFaceDown(s, m) ==
  IF IsTableau(s, m.from) /\ R(s).face_up # "all" /\ TurnsUp(s, m.from, 1)
  THEN [m EXCEPT !.reveal_move = TRUE] ELSE m

LegalMovesOf(s, parent) ==
  LET r == R(s)
      cells == SelectSeq(s.cells, LAMBDA c : ~ Empty(s, c) /\ parent.to # c)
      reserve == SelectSeq(s.reserve, LAMBDA p : ~ Empty(s, p))
      moves ==
        StockToHole(s)
        \o StockToAllTableau(s)
        \o ToCell(s, parent)
        \o (IF ToTop(r) /\ WithoutRedeal(r) THEN StockToTop(s) ELSE <<>>)
        \o (IF WithoutRedeal(r) THEN StockToTableau(s) ELSE <<>>)
        \o FromFoundations(s, parent)
        \o ForEach(reserve, LAMBDA p : ToTableau(s, p))
        \o (IF WithRedeal(r) THEN StockToTableau(s) ELSE <<>>)
        \o BuiltGroups(s)
        \o TableauToTableau(s)
        \o (IF r.sequence_count > 0 THEN SequenceMoves(s) ELSE <<>>)
        \o ForEach(cells, LAMBDA c : ToTableau(s, c))
        \o (IF ToTop(r) /\ WithRedeal(r) THEN StockToTop(s) ELSE <<>>)
        \o (IF ToTop(r) THEN CardsToTop(s, parent) ELSE <<>>)
        \o (IF r.foundations_only_comp_piles THEN CompletePiles(s) ELSE <<>>)
  IN [i \in 1..Len(moves) |-> TurnsFaceDown(s, moves[i])] \o AccordionMoves(s)

-----------------------------------------------------------------------------
(* get_dominance_move: a move that need not be weighed against others,     *)
(* because it is forced or never hurts.  The moves that would do are found *)
(* in order, and the first of them is the one.                             *)

Dominance(m, reveals) == [m EXCEPT !.reveal_move = reveals, !.dominance_move = TRUE]

(* A card from this pile to the first space of the tableau.                *)
ToFirstSpace(s, from) ==
  LET spaces == SelectSeq(s.tableau_piles, LAMBDA t : Empty(s, t))
  IN When(spaces # <<>>, Dominance(Regular(from, Head(spaces)), FALSE))

(* auto_reserve_move, auto_waste_stock_move                                *)
AutoReserve(s) ==
  IF Empty(s, s.reserve[1]) THEN <<>> ELSE ToFirstSpace(s, s.reserve[1])

AutoWasteStock(s) ==
  CASE ~ Empty(s, L(s).waste) -> ToFirstSpace(s, L(s).waste)
    [] Empty(s, L(s).waste) /\ ~ Empty(s, L(s).stock) -> ToFirstSpace(s, L(s).stock)
    [] OTHER -> <<>>

FillsSpace(s) ==
  CASE R(s).spaces_pol \in {"auto-reserve-then-waste", "auto-reserve-then-any"} ->
         AutoReserve(s)
    [] R(s).spaces_pol = "auto-waste-then-stock" -> AutoWasteStock(s)
    [] OTHER -> <<>>

-----------------------------------------------------------------------------
(* A card that its foundation takes, and that nothing else can need.       *)
GoesUp(s, c) ==
  LET f == L(s).foundations[c.suit + 1]
      next == IF Empty(s, f) THEN 1
              ELSE Converted(Top(s, f).rank + 1, s.base, R(s).max_rank)
  IN next = Converted(c.rank, s.base, R(s).max_rank) /\ AutoFoundation(s, f)

StockGoesUp(s) ==
  LET f(k) == L(s).foundations[StockCard(s, k[1]).suit + 1]
  IN ForEach(KPlus(s), LAMBDA k :
       When(GoesUp(s, StockCard(s, k[1])), Dominance(KPlusMove(s, k, f(k)), FALSE)))

PileGoesUp(s, p) ==
  When(GoesUp(s, Top(s, p)),
       Dominance(Regular(p, L(s).foundations[Top(s, p).suit + 1]), TurnsUp(s, p, 1)))

(* The piles a card may go up from; the stock only if every card of it can *)
(* be played.                                                              *)
MayGoUp(s, p) ==
  /\ ~ Empty(s, p) /\ ~ IsFoundation(s, p) /\ p \notin {L(s).hole, L(s).waste}
  /\ p = L(s).stock => R(s).stock_deal_count = 1 /\ R(s).stock_redeal

AllGoingUp(s) ==
  ForEach(SelectSeq(Numbered(0, Cardinality(L(s).piles)), LAMBDA p : MayGoUp(s, p)),
          LAMBDA p : IF p = L(s).stock THEN StockGoesUp(s) ELSE PileGoesUp(s, p))

DominanceMovesOf(s) ==
  LET r == R(s)
  IN FillsSpace(s)
       \o (IF r.foundations_present /\ ~ r.two_decks /\ ~ r.foundations_only_comp_piles
           THEN AllGoingUp(s) ELSE <<>>)
=============================================================================
