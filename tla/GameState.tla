----------------------------- MODULE GameState -----------------------------
(***************************************************************************)
(* game_state_impl: the piles of a game, and what a move and its undo do   *)
(* to them.  A state is a record:                                          *)
(*   rules      the fields of sol_rules, with the policy that the search   *)
(*              uses and whether suits are symmetric,                      *)
(*   layout     the references of the piles of each kind,                  *)
(*   base       foundations_base,                                          *)
(*   piles      the cards, by pile reference,                              *)
(*   tableau_piles, cells, reserve, accordion                              *)
(*              the lists of references, in the order moves are tried,     *)
(*   store      what the policy keeps to hash and compare states with      *)
(*              (module Descriptors).                                      *)
(***************************************************************************)
EXTENDS Integers, Sequences, SequencesExt, FiniteSets

(* Cards, and piles of cards: sequences with the top card first.           *)
Suits == 0..3                      (* Clubs, Hearts, Spades, Diamonds.      *)

Colour(suit) == suit % 2           (* Black, Red.                           *)

Card(suit, rank) == [suit |-> suit, rank |-> rank, down |-> FALSE]

(* The two cards that are none: the divider of a canonical form, and the   *)
(* gap of a game with sequences, which the code writes "AS".               *)
Divider == Card(0, 0)
Gap == Card(2, 1)

(* card_id                                                                 *)
CardId(c) == c.suit * 13 + c.rank - 1

(* operator< on cards, and on piles: by size, then from the bottom up.     *)
CardLess(a, b) == a.rank < b.rank \/ (a.rank = b.rank /\ a.suit < b.suit)

PileLess(p, q) ==
  \/ Len(p) < Len(q)
  \/ /\ Len(p) = Len(q)
     /\ \E i \in 1..Len(p) :
          /\ CardLess(p[i], q[i])
          /\ \A j \in (i + 1)..Len(p) : CardId(p[j]) = CardId(q[j])

(* foundation_base_convert: the place of a rank in a sequence that starts  *)
(* at the base of the foundations.                                         *)
Converted(rank, base, max_rank) ==
  LET s == (rank - (base - 1) + max_rank) % max_rank
  IN IF s = 0 THEN max_rank ELSE s

(* The part of is_next_legal_card that looks at suits.                     *)
SuitsBuild(policy, a, b) ==
  CASE policy = "same-suit" -> a.suit = b.suit
    [] policy = "red-black" -> Colour(a.suit) # Colour(b.suit)
    [] OTHER                -> TRUE

-----------------------------------------------------------------------------
R(s) == s.rules
L(s) == s.layout

-----------------------------------------------------------------------------
(* The pile references of a game, in the order the constructor makes them. *)
NoPile == 255

Numbered(first, count) == [i \in 1..count |-> first + i - 1]

HasWaste(r) == r.stock_size > 0 /\ r.stock_deal_t = "waste"

LayoutOf(r) ==
  LET foundations == IF r.hole THEN 1 ELSE 0
      cells == foundations +
                 (IF ~ r.foundations_present THEN 0 ELSE IF r.two_decks THEN 8 ELSE 4)
      stock == cells + r.cells
      waste == stock + (IF r.stock_size > 0 THEN 1 ELSE 0)
      reserve == waste + (IF HasWaste(r) THEN 1 ELSE 0)
      accordion == reserve + (IF r.reserve_size > 0 /\ r.reserve_stacked THEN 1
                              ELSE r.reserve_size)
      tableau == accordion + r.accordion_size
      sequences == tableau + r.tableau_pile_count
  IN [hole          |-> IF r.hole THEN 0 ELSE NoPile,
      foundations   |-> Numbered(foundations, cells - foundations),
      cells         |-> Numbered(cells, stock - cells),
      stock         |-> IF r.stock_size > 0 THEN stock ELSE NoPile,
      waste         |-> IF HasWaste(r) THEN waste ELSE NoPile,
      reserve       |-> Numbered(reserve, accordion - reserve),
      accordion     |-> Numbered(accordion, tableau - accordion),
      tableau_piles |-> Numbered(tableau, sequences - tableau),
      sequences     |-> Numbered(sequences, r.sequence_count),
      piles         |-> 0..(sequences + r.sequence_count - 1)]

IsFoundation(s, p) == p \in Range(L(s).foundations)
IsTableau(s, p) == p \in Range(L(s).tableau_piles)
FoundationSuit(s, p) == (p - L(s).foundations[1]) % 4

Empty(s, p) == s.piles[p] = <<>>
Top(s, p) == Head(s.piles[p])

-----------------------------------------------------------------------------
(* eval_pile_order: the piles of a list are kept in order of size, largest *)
(* first.  A pile that grew moves to the front past smaller ones, a pile   *)
(* that shrank to the back past larger ones.                               *)
SortsPiles(s) ==
  /\ R(s).policy \in {"LRU", "PREDECESSOR"}
  /\ R(s).stock_size = 0 \/ R(s).stock_deal_t # "tableau piles"

IndexOf(list, p) == CHOOSE i \in 1..Len(list) : list[i] = p

Risen(list, p, piles) ==
  LET i == IndexOf(list, p)
      front == Min({j \in 1..i :
                 \A k \in j..(i - 1) : PileLess(piles[list[k]], piles[p])})
  IN InsertAt(RemoveAt(list, i), front, p)

Sunk(list, p, piles) ==
  LET i == IndexOf(list, p)
      back == Max({j \in i..Len(list) :
                \A k \in (i + 1)..j : PileLess(piles[p], piles[list[k]])})
  IN InsertAt(RemoveAt(list, i), back, p)

Ordered(s, p, placed) ==
  LET In(list) == IF p \notin Range(list) THEN list
                  ELSE IF placed THEN Risen(list, p, s.piles)
                  ELSE Sunk(list, p, s.piles)
  IN IF ~ SortsPiles(s) THEN s
     ELSE [s EXCEPT !.tableau_piles = In(@), !.cells = In(@), !.reserve = In(@)]

(* place_card, take_card                                                   *)
Place(s, p, c) == Ordered([s EXCEPT !.piles[p] = <<c>> \o @], p, TRUE)
Take(s, p) == Ordered([s EXCEPT !.piles[p] = Tail(@)], p, FALSE)

(* Several cards on one pile, the first lowest.                            *)
PlaceAll(s, p, cards) == Ordered([s EXCEPT !.piles[p] = Reverse(cards) \o @], p, TRUE)

Transfer(s, from, to) == Place(Take(s, from), to, Top(s, from))

(* One at a time, between two piles that are in no list kept in order.     *)
TransferMany(s, from, to, count) ==
  [s EXCEPT !.piles[to] = Reverse(SubSeq(s.piles[from], 1, count)) \o @,
            !.piles[from] = SubSeq(@, count + 1, Len(@))]

-----------------------------------------------------------------------------
MoveOf(type, from, to, count) ==
  [type |-> type, from |-> from, to |-> to, count |-> count,
   reveal_move |-> FALSE, flip_waste |-> FALSE, dominance_move |-> FALSE]

NullMoveOfGame == MoveOf("null", NoPile, NoPile, 1)

(* The card that a move uncovers is turned face up, or down again; below   *)
(* is the number of cards that lie on it.                                  *)
Revealed(s, m) ==
  IF m.reveal_move THEN [s EXCEPT !.piles[m.from][1].down = FALSE] ELSE s

Hidden(s, m, below) ==
  IF m.reveal_move THEN [s EXCEPT !.piles[m.from][below + 1].down = TRUE] ELSE s

(* make_built_group_move: the cards are placed, then taken away.           *)
TransferGroup(s, from, to, count) ==
  LET group == Reverse(SubSeq(s.piles[from], 1, count))
      placed == FoldLeft(LAMBDA t, c : Place(t, to, c), s, group)
  IN FoldLeft(LAMBDA t, i : Take(t, from), placed, Numbered(1, count))

(* Cards go from the stock to the waste, or back if count is negative.     *)
Dealt(s, count) ==
  LET l == L(s)
  IN TransferMany(s, IF count > 0 THEN l.stock ELSE l.waste,
                     IF count > 0 THEN l.waste ELSE l.stock,
                     IF count > 0 THEN count ELSE - count)

(* The waste is turned over on the stock, or the stock is turned back.     *)
WasteFlipped(s, m) ==
  IF m.flip_waste THEN Dealt(s, - Len(s.piles[L(s).waste])) ELSE s

StockFlipped(s, m) ==
  IF m.flip_waste THEN Dealt(s, Len(s.piles[L(s).stock])) ELSE s

MadeKPlus(s, m) ==
  WasteFlipped(Transfer(Dealt(s, m.count), L(s).waste, m.to), m)

UndoneKPlus(s, m) ==
  Dealt(Transfer(StockFlipped(s, m), m.to, L(s).waste), - m.count)

(* One card of the stock for each of the first count tableau piles.        *)
DealtToTableau(s, count) ==
  FoldLeft(LAMBDA t, p : Transfer(t, L(s).stock, p), s,
           SubSeq(L(s).tableau_piles, 1, count))

(* Mutant: the cards come back in the order in which they were dealt.      *)
GatheredInOrder(s, count) ==
  FoldLeft(LAMBDA t, p : Transfer(t, p, L(s).stock), s,
           SubSeq(L(s).tableau_piles, 1, count))

GatheredFromTableau(s, count) ==
  FoldLeft(LAMBDA t, p : Transfer(t, p, L(s).stock), s,
           Reverse(SubSeq(L(s).tableau_piles, 1, count)))

(* A card and a gap change places; positions are numbered through all the  *)
(* sequences.                                                              *)
Swapped(s, from, to) ==
  LET n == R(s).max_rank
      moved == s.piles[from \div n][(from % n) + 1]
  IN [s EXCEPT !.piles[from \div n][(from % n) + 1] = Gap,
               !.piles[to \div n][(to % n) + 1] = moved]

(* A pile of an accordion lands on another and its reference goes; undo    *)
(* puts it back among the others, in the order of the references.          *)
Folded(s, m) ==
  LET t == TransferGroup(s, m.from, m.to, m.count)
  IN [t EXCEPT !.accordion = SelectSeq(@, LAMBDA p : p # m.from)]

Unfolded(s, m) ==
  LET before == SelectSeq(s.accordion, LAMBDA p : p <= m.from)
      after == SelectSeq(s.accordion, LAMBDA p : p > m.from)
  IN TransferGroup([s EXCEPT !.accordion = before \o <<m.from>> \o after],
                   m.to, m.from, m.count)

(* What make_move and undo_move do to the piles.                           *)
PilesAfter(s, m) ==
  CASE m.type = "regular"      -> Revealed(Transfer(s, m.from, m.to), m)
    [] m.type = "built_group"  -> Revealed(TransferGroup(s, m.from, m.to, m.count), m)
    [] m.type = "stock_k_plus" -> MadeKPlus(s, m)
    [] m.type = "stock_to_all_tableau" -> DealtToTableau(s, m.count)
    [] m.type = "sequence"     -> Swapped(s, m.from, m.to)
    [] m.type = "accordion"    -> Folded(s, m)

PilesBefore(s, m) ==
  CASE m.type = "regular"      -> Transfer(Hidden(s, m, 0), m.to, m.from)
    [] m.type = "built_group"  ->
         Hidden(TransferGroup(s, m.to, m.from, m.count), m, m.count)
    [] m.type = "stock_k_plus" -> UndoneKPlus(s, m)
    [] m.type = "stock_to_all_tableau" -> GatheredFromTableau(s, m.count)
    [] m.type = "sequence"     -> Swapped(s, m.to, m.from)
    [] m.type = "accordion"    -> Unfolded(s, m)

-----------------------------------------------------------------------------
(* is_next_legal_card: may b go on a under a build policy?                 *)
NextLegal(s, policy, a, b) ==
  /\ SuitsBuild(policy, a, b)
  /\ Converted(b.rank, s.base, R(s).max_rank) + 1
       = Converted(a.rank, s.base, R(s).max_rank)

Decks(r) == IF r.two_decks THEN 2 ELSE 1

SequenceDone(s, p) ==
  /\ Top(s, p) = Gap
  /\ \A j \in 3..Len(s.piles[p]) :
       NextLegal(s, R(s).sequence_build_pol, s.piles[p][j - 1], s.piles[p][j])

(* is_solved                                                               *)
IsSolved(s) ==
  LET r == R(s)
  IN CASE r.hole -> Len(s.piles[L(s).hole]) = 4 * r.max_rank * Decks(r)
       [] r.foundations_present ->
            \A f \in Range(L(s).foundations) : Len(s.piles[f]) = r.max_rank
       [] r.sequence_count > 0 -> \A p \in Range(L(s).sequences) : SequenceDone(s, p)
       [] OTHER -> Len(s.accordion) = 1

(* What is_solved asserts beside its answer.                               *)
SolvedConsistent(s) ==
  LET goal == {L(s).hole} \union Range(L(s).foundations)
  IN IF R(s).hole \/ R(s).foundations_present
     THEN IsSolved(s) <=> \A p \in L(s).piles \ goal : Empty(s, p)
     ELSE \A p \in Range(L(s).sequences) : Len(s.piles[p]) = R(s).max_rank
=============================================================================
