-------------------------------- MODULE Deal --------------------------------
(***************************************************************************)
(* The state that the seed constructor deals from a shuffled deck.  Single *)
(* cards are taken from the front of the deck, the piles from its back.    *)
(***************************************************************************)
EXTENDS Descriptors

NoPiles(r, layout) ==
  [rules |-> r, layout |-> layout, base |-> 1,
   piles |-> [p \in layout.piles |-> <<>>],
   tableau_piles |-> layout.tableau_piles, cells |-> layout.cells,
   reserve |-> layout.reserve, accordion |-> layout.accordion,
   store |-> <<>>]

(* The last cards of the deck to these piles, in turn.  All are placed     *)
(* before the lists of piles are put in order, which comes to the same.    *)
DealtTo(d, piles) ==
  LET n == Min({Len(piles), Len(d.deck)})
      places(p) == SelectSeq(Numbered(1, n), LAMBDA i : piles[i] = p)
      cards(p) == Reverse([i \in 1..Len(places(p)) |-> d.deck[Len(d.deck) + 1 - places(p)[i]]])
      lists == d.state.tableau_piles \o d.state.cells \o d.state.reserve
  IN [state |-> FoldLeft(LAMBDA s, p : Ordered(s, p, TRUE),
                         [d.state EXCEPT !.piles = [p \in DOMAIN @ |-> IF p \in Range(piles) THEN cards(p) \o @[p] ELSE @[p]]],
                         SelectSeq(lists, LAMBDA p : p \in Range(piles))),
      deck  |-> SubSeq(d.deck, 1, Len(d.deck) - n)]

Times(piles, n) == [i \in 1..n |-> piles[((i - 1) % Len(piles)) + 1]]

(* Card c out of the deck to this pile.                                    *)
PickedTo(d, p, c) ==
  [state |-> Place(d.state, p, c), deck |-> RemoveFirst(d.deck, c)]

(* The hole starts with a given card or, if hole_base is 0, the first one. *)
WithHole(d) ==
  LET r == R(d.state)
  IN IF ~ r.hole THEN d
     ELSE PickedTo(d, L(d.state).hole,
                   IF r.hole_base = 0 THEN Head(d.deck) ELSE Card(2, r.hole_base))

FoundationsFilled(d, suit) ==
  LET count == CASE R(d.state).foundations_init_cards = "none" -> 0
                 [] R(d.state).foundations_init_cards = "one"  -> 1
                 [] OTHER -> 4 * Decks(R(d.state))
  IN FoldLeft(LAMBDA x, i : PickedTo(x, L(x.state).foundations[i + suit],
                                     Card((i - 1 + suit) % 4, x.state.base)),
              d, Numbered(1, count))

(* The tableau row by row; in a diagonal deal each of the first rows is    *)
(* one pile shorter and starts on the right.                               *)
RowsOf(r, piles, cards) ==
  LET n == Len(piles)
      diagonal(i) == Reverse(SubSeq(piles, i, n))
      rows == IF r.diagonal_deal THEN FlattenSeq([i \in 1..n |-> diagonal(i)]) ELSE <<>>
  IN SubSeq(rows \o Times(piles, cards), 1, cards)

WithTableau(d) ==
  LET piles == L(d.state).tableau_piles
      down == R(d.state).face_up = "top"
      deck == [i \in 1..Len(d.deck) |-> [d.deck[i] EXCEPT !.down = down]]
  IN IF piles = <<>> THEN d
     ELSE DealtTo([d EXCEPT !.deck = deck], RowsOf(R(d.state), piles, Len(deck)))

WithSequences(d) ==
  LET gaps == [i \in 1..Len(d.deck) |-> IF d.deck[i].rank = 1 THEN Gap ELSE d.deck[i]]
      rows == L(d.state).sequences
  IN IF rows = <<>> THEN d
     ELSE DealtTo([d EXCEPT !.deck = gaps], Times(rows, Len(gaps)))

TopsUp(s) ==
  [s EXCEPT !.piles = [p \in DOMAIN @ |->
     IF @[p] = <<>> \/ L(s).tableau_piles = <<>> THEN @[p]
     ELSE [@[p] EXCEPT ![1].down = FALSE]]]

(* A base that the rules name is not looked at: it is the ace then.        *)
WithFoundations(d) ==
  IF R(d.state).foundations_base = 0
  THEN FoundationsFilled([d EXCEPT !.state.base = Head(d.deck).rank], Head(d.deck).suit)
  ELSE FoundationsFilled(d, 0)

WithCells(d) ==
  DealtTo(d, SubSeq(L(d.state).cells, 1, R(d.state).cells_pre_filled))

WithStock(d) == DealtTo(d, Times(<<L(d.state).stock>>, R(d.state).stock_size))
WithReserve(d) == DealtTo(d, Times(L(d.state).reserve, R(d.state).reserve_size))
WithAccordion(d) == DealtTo(d, L(d.state).accordion)

Stored(s) == [s EXCEPT !.store = InitialStore(s)]

DealOf(r, deck) ==
  LET held == WithHole([state |-> NoPiles(r, LayoutOf(r)), deck |-> deck])
      singles == WithReserve(WithStock(WithCells(WithFoundations(held))))
  IN Stored(TopsUp(WithTableau(WithAccordion(WithSequences(singles))).state))
=============================================================================
