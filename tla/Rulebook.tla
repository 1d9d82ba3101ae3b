------------------------------ MODULE Rulebook ------------------------------
(***************************************************************************)
(* The games as a player knows them: every single thing that may be done,  *)
(* in any order and as often as one likes.  The stock is dealt and turned  *)
(* over by hand, cards may go back where they came from, and nothing goes  *)
(* up by itself.  The solver's moves are to reach what these steps reach.  *)
(***************************************************************************)
EXTENDS LegalMoves

(* So many cards from one pile on another, and the next card turned up.    *)
Carried(s, from, to, n) ==
  LET pile == s.piles[from]
      rest == SubSeq(pile, n + 1, Len(pile))
      turned == IF rest = <<>> THEN rest ELSE [rest EXCEPT ![1].down = FALSE]
  IN [s EXCEPT !.piles[from] = turned, !.piles[to] = SubSeq(pile, 1, n) \o @]

(* The same, over the cards one by one.                                    *)
TurnedOver(s, from, to, n) ==
  [s EXCEPT !.piles[from] = SubSeq(@, n + 1, Len(@)),
            !.piles[to] = Reverse(SubSeq(s.piles[from], 1, n)) \o @]

NonEmpty(s, refs) == {p \in refs \ {NoPile} : ~ Empty(s, p)}

Tableau(s) == Range(L(s).tableau_piles)
Foundations(s) == Range(L(s).foundations)
Cells(s) == Range(L(s).cells)
Reserve(s) == Range(L(s).reserve)

(* Where cards can be taken from one by one, and where they can be put.    *)
Sources(s) ==
  NonEmpty(s, Tableau(s) \union Cells(s) \union Reserve(s) \union {L(s).waste}
                \union (IF R(s).foundations_removable THEN Foundations(s) ELSE {}))

SpaceKept(s, from) == SpaceIsForReserve(s) /\ from # L(s).waste

Accepts(s, from, to) ==
  LET c == Top(s, from)
  IN \/ /\ to \in Foundations(s) /\ from \notin Foundations(s)
        /\ ToTop(R(s)) /\ FoundationTakes(s, c, to)
     \/ to = L(s).hole /\ R(s).hole /\ HoleTakes(s, c)
     \/ to \in Cells(s) /\ from \notin Cells(s) /\ Empty(s, to)
     \/ /\ to \in Tableau(s) /\ R(s).build_pol # "no-build" /\ TableauTakes(s, c, to)
        /\ from \in Tableau(s) => R(s).move_built_group \in {"no", "yes"}
        /\ ~ SpaceKept(s, from)

Singles(s) ==
  {Carried(s, x[1], x[2], 1) :
     x \in {y \in Sources(s) \X L(s).piles : y[1] # y[2] /\ Accepts(s, y[1], y[2])}}

(* A group is as long as its cards follow each other, face up.  A space    *)
(* takes one if its policy allows.                                         *)
IsGroup(s, p, n) ==
  \A i \in 1..(n - 1) : /\ NextLegal(s, R(s).built_group_pol, s.piles[p][i + 1], s.piles[p][i])
                        /\ ~ s.piles[p][i + 1].down

GroupMayGo(s, p, n) ==
  CASE R(s).move_built_group = "no"         -> FALSE
    [] R(s).move_built_group = "whole-pile" -> n = Len(s.piles[p])
    [] R(s).move_built_group = "maximal-group"    -> n = Len(s.piles[p]) \/ ~ IsGroup(s, p, n + 1)
    [] OTHER                                -> TRUE

GroupAccepted(s, p, n, to) ==
  IF ~ Empty(s, to) THEN NextLegal(s, R(s).built_group_pol, Top(s, to), s.piles[p][n])
  ELSE \/ R(s).spaces_pol \in {"any", "auto-reserve-then-any"}
       \/ R(s).spaces_pol = "kings" /\ s.piles[p][n].rank = 13

Groups(s) ==
  UNION {UNION {
    {Carried(s, p, to, n) : to \in {t \in Tableau(s) \ {p} : GroupAccepted(s, p, n, t)}} :
      n \in {k \in 1..Len(s.piles[p]) : IsGroup(s, p, k) /\ GroupMayGo(s, p, k)}} :
      p \in IF SpaceIsForReserve(s) THEN {} ELSE Tableau(s)}

(* The stock: dealt to the waste, turned over, dealt to the tableau, or    *)
(* played into the hole.                                                   *)
StockSteps(s) ==
  LET stock == L(s).stock
      waste == L(s).waste
      r == R(s)
      n == Len(s.piles[stock])
      row == SubSeq(L(s).tableau_piles, 1, Min({n, Len(L(s).tableau_piles)}))
      deals == HasWaste(r) /\ n > 0
      redeals == HasWaste(r) /\ r.stock_redeal /\ n = 0
  IN IF stock = NoPile THEN {}
     ELSE (IF deals THEN {TurnedOver(s, stock, waste, Min({n, r.stock_deal_count}))} ELSE {})
       \union (IF redeals THEN {TurnedOver(s, waste, stock, Len(s.piles[waste]))} ELSE {})
       \union (IF r.stock_deal_t = "hole" /\ n > 0 THEN {Carried(s, stock, L(s).hole, 1)} ELSE {})
       \union (IF r.stock_deal_t = "tableau piles" /\ n > 0
               THEN {FoldLeft(LAMBDA t, p : Carried(t, stock, p, 1), s, row)} ELSE {})

(* Some games fill a space at once: from the reserve, or from the waste    *)
(* and then the stock.                                                     *)
Fills(s) ==
  LET from == CASE R(s).spaces_pol \in {"auto-reserve-then-waste", "auto-reserve-then-any"} ->
                     NonEmpty(s, Reserve(s))
                [] R(s).spaces_pol = "auto-waste-then-stock" ->
                     IF ~ Empty(s, L(s).waste) THEN {L(s).waste} ELSE NonEmpty(s, {L(s).stock})
                [] OTHER -> {}
  IN {Carried(s, x[1], x[2], 1) : x \in from \X {t \in Tableau(s) : Empty(s, t)}}

(* Complete piles go up in games that want that.                           *)
Complete(s) ==
  {Carried(s, x[1], x[2], R(s).max_rank) :
     x \in {y \in Tableau(s) \X Foundations(s) :
              R(s).foundations_only_comp_piles /\ IsOrderedPile(s, y[1]) /\ Empty(s, y[2])}}

(* A gap takes the card that belongs beside one of its neighbours.         *)
Gaps(s) ==
  LET n == R(s).max_rank
      at == {x \in Range(L(s).sequences) \X (1..n) : TRUE}
      At(x) == s.piles[x[1]][x[2]]
      Fits(c, gap) ==
        \/ R(s).sequence_direction # "R" /\ FitsLeft(s, gap[1], gap[2], c)
        \/ R(s).sequence_direction # "L" /\ FitsRight(s, gap[1], gap[2], c)
  IN {[s EXCEPT !.piles[x[1]][x[2]] = Gap, !.piles[g[1]][g[2]] = At(x)] :
        <<x, g>> \in {y \in at \X at : At(y[1]) # Gap /\ At(y[2]) = Gap /\ Fits(At(y[1]), y[2])}}

(* The piles of an accordion.                                              *)
Line(s) ==
  LET line == s.accordion
      pairs == {<<i, i + n>> : i \in 1..Len(line), n \in Range(R(s).accordion_moves)}
      legal == {x \in pairs :
                  /\ x[2] \in 1..Len(line)
                  /\ AccordionAllows(s, Top(s, line[x[2]]), Top(s, line[x[1]]))}
  IN {[Carried(s, line[x[1]], line[x[2]], Len(s.piles[line[x[1]]]))
         EXCEPT !.accordion = RemoveAt(line, x[1])] : x \in legal}

RuleSteps(s) ==
  IF Fills(s) # {} THEN Fills(s)
  ELSE Singles(s) \union Groups(s) \union StockSteps(s) \union Complete(s)
         \union Gaps(s) \union Line(s)
=============================================================================
