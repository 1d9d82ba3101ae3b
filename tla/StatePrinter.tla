---------------------------- MODULE StatePrinter ----------------------------
(***************************************************************************)
(* state_printer: a state as the solver shows it, a list of sections of    *)
(* rows of cells.  A cell is what to_string and the printer write for a    *)
(* card or for its absence.                                                *)
(***************************************************************************)
EXTENDS GameState

Sign(sign) == [sign |-> sign, card |-> Divider]

Missing == Sign("")              (* Between two tabs.                       *)
EmptyPile == Sign("[]")
HiddenCard == Sign("##")
GapSign == Sign("__")

(* card::to_string                                                         *)
Shown(c) == IF c.down THEN HiddenCard ELSE [sign |-> "card", card |-> c]

-----------------------------------------------------------------------------
(* The tabs at the end of a row are taken off.                             *)
Trimmed(row) ==
  LET filled == {i \in DOMAIN row : row[i] # Missing}
  IN SubSeq(row, 1, IF filled = {} THEN 0 ELSE Max(filled))

(* Mutant: blank cells between two piles are taken off as well.            *)
PilesRowClosed(piles, i) ==
  SelectSeq([k \in DOMAIN piles |->
               IF Len(piles[k]) >= i THEN Shown(piles[k][Len(piles[k]) + 1 - i])
               ELSE IF i = 1 THEN EmptyPile ELSE Missing],
            LAMBDA cell : cell # Missing)

(* A row of print_piles: the cards at height i, from the bottom up.        *)
PilesRow(piles, i) ==
  Trimmed([k \in DOMAIN piles |->
             IF Len(piles[k]) >= i THEN Shown(piles[k][Len(piles[k]) + 1 - i])
             ELSE IF i = 1 THEN EmptyPile ELSE Missing])

(* The first row is there even if all piles are empty.                     *)
PilesRows(piles) ==
  [i \in 1..Max({1} \union {Len(piles[k]) : k \in DOMAIN piles}) |-> PilesRow(piles, i)]

(* print_top_of_piles                                                      *)
TopsRows(piles) ==
  <<[k \in DOMAIN piles |-> IF piles[k] = <<>> THEN EmptyPile ELSE Shown(Head(piles[k]))]>>

(* print_sequences: each from its first card, the gap for the ace.         *)
SequencesRows(piles) ==
  [k \in DOMAIN piles |->
     LET pile == Reverse(piles[k])
     IN [i \in DOMAIN pile |-> IF pile[i] = Gap THEN GapSign ELSE Shown(pile[i])]]

-----------------------------------------------------------------------------
Of(s, refs) == [k \in DOMAIN refs |-> s.piles[refs[k]]]

Section(header, rows) == [header |-> header, rows |-> rows]

(* print: piles that the search has put in another order are shown in the  *)
(* order they were dealt in, those of an accordion as they now lie.        *)
Picture(s) ==
  LET r == R(s)
      l == L(s)
      If(present, header, rows) == IF present THEN <<Section(header, rows)>> ELSE <<>>
  IN If(r.foundations_present, "Foundations", TopsRows(Of(s, l.foundations)))
       \o If(r.cells > 0, "Cells", PilesRows(Of(s, l.cells)))
       \o If(r.tableau_pile_count > 0, "Tableau Piles", PilesRows(Of(s, l.tableau_piles)))
       \o If(r.reserve_size > 0, IF r.reserve_stacked THEN "Reserve (Stacked)" ELSE "Reserve",
             PilesRows(Of(s, l.reserve)))
       \o (IF r.stock_deal_t = "waste"
           THEN If(r.stock_size > 0, "Stock | Waste", PilesRows(Of(s, <<l.stock, l.waste>>)))
           ELSE If(r.stock_size > 0, "Stock", PilesRows(Of(s, <<l.stock>>))))
       \o If(r.hole, "Hole Card", TopsRows(Of(s, <<l.hole>>)))
       \o If(r.sequence_count > 0, "Sequences", SequencesRows(Of(s, l.sequences)))
       \o If(r.accordion_size > 0, "Accordion", TopsRows(Of(s, s.accordion)))
=============================================================================
