-------------------------- MODULE CanonicalState ---------------------------
(***************************************************************************)
(* What each cache knows a state by: cached_game_state in the LRU cache,   *)
(* the payload in the others.                                              *)
(***************************************************************************)
EXTENDS Descriptors

(* add_card: with symmetric suits, a suit counts as far as building does.  *)
Canonical(s, c) ==
  IF ~ R(s).suit_symmetry \/ ~ (R(s).foundations_present \/ R(s).hole) THEN c
  ELSE CASE R(s).build_pol = "same-suit" -> c
         [] R(s).build_pol = "red-black" -> [c EXCEPT !.suit = Colour(c.suit)]
         [] OTHER                        -> [c EXCEPT !.suit = 0]

(* cached_game_state; pile_vec holds the bottom card first.                *)
CachedGameState(s) ==
  LET Pile(p) == [i \in 1..Len(s.piles[p]) |-> Canonical(s, Reverse(s.piles[p])[i])]
      Piles(list, after) == FoldLeft(LAMBDA d, p : d \o Pile(p) \o after, <<>>, list)
      Section(list) == IF list = <<>> THEN <<>> ELSE Append(Piles(list, <<>>), Divider)
      waste == IF ~ HasWaste(R(s)) THEN <<>>
               ELSE If(~ WasteSymmetry(s), Divider) \o Reverse(Pile(L(s).waste))
      stock == IF L(s).stock = NoPile THEN <<>>
               ELSE Append(Pile(L(s).stock) \o waste, Divider)
      hole == If(R(s).hole, Canonical(s, Top(s, L(s).hole)))
  IN hole \o Section(s.cells) \o stock \o Section(s.reserve)
       \o Piles(s.tableau_piles, <<Divider>>)
       \o Piles(L(s).sequences, <<Divider>>)
       \o [i \in 1..Len(s.accordion) |-> Canonical(s, Top(s, s.accordion[i]))]

KeyOf(s) ==
  CASE Family(R(s)) = "flat" ->
         <<s.store.descriptors, s.store.foundations, s.store.waste_ptr>>
    [] Family(R(s)) = "multiplicity" -> MultiplicityPayload(s)
    [] Family(R(s)) = "predecessor"  -> s.store.predecessors
    [] OTHER                         -> CachedGameState(s)

-----------------------------------------------------------------------------
(* For reference: what a state is as far as play goes.  Equal piles of a   *)
(* kind may change places, unless the stock deals to them; the waste and   *)
(* the stock of a game that redeals are one row of cards, cut at the       *)
(* waste; and in a game with a hole only ranks count.                      *)
Row(s, p) ==
  [i \in 1..Len(s.piles[p]) |->
     IF R(s).hole THEN [s.piles[p][i] EXCEPT !.suit = 0] ELSE s.piles[p][i]]

Bag(s, refs) ==
  LET rows == [p \in refs |-> Row(s, p)]
  IN {<<rows[p], Cardinality({q \in refs : rows[q] = rows[p]})>> : p \in refs}

Board(s) ==
  LET l == L(s)
  IN [foundations |-> Bag(s, Range(l.foundations)),
      hole      |-> IF l.hole = NoPile THEN <<>> ELSE <<Head(Row(s, l.hole))>>,
      cells     |-> Bag(s, Range(l.cells)),
      reserve   |-> Bag(s, Range(l.reserve)),
      row       |-> CASE l.stock = NoPile -> <<>>
                      [] l.waste = NoPile -> <<Row(s, l.stock)>>
                      [] OTHER -> <<Reverse(Row(s, l.waste)) \o Row(s, l.stock),
                                    EffectiveWaste(s)>>,
      tableau   |-> IF PileSymmetry(R(s)) THEN Bag(s, Range(l.tableau_piles))
                    ELSE {<<Row(s, p), p>> : p \in Range(l.tableau_piles)},
      sequences |-> [i \in 1..Len(l.sequences) |-> Row(s, l.sequences[i])],
      accordion |-> [i \in 1..Len(s.accordion) |-> Head(Row(s, s.accordion[i]))]]
=============================================================================
