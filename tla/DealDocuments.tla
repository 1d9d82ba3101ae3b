--------------------------- MODULE DealDocuments ---------------------------
(***************************************************************************)
(* Deals as documents: what print_game_state_as_json writes of a state,    *)
(* and what deal_parser makes of a document.                               *)
(*                                                                         *)
(* A document is a function from the names of its sections to rows of      *)
(* texts, the first card of a pile lowest.  The text of a card is the      *)
(* card, down if its suit is a small letter; EmptyText is "", and Hashes   *)
(* is "##".                                                                *)
(***************************************************************************)
EXTENDS Deal
LOCAL INSTANCE TLC

EmptyText == Card(4, 0)
Hashes == Card(5, 0)

(* to_string.                                                              *)
TextOf(c, reveal) == IF c.down /\ ~ reveal THEN Hashes ELSE c

-----------------------------------------------------------------------------
(* print_game_state_as_json.                                               *)
Section(name, written, value) == IF written THEN name :> value ELSE <<>>

(* Mutant: the top card is written first.                                  *)
PileTextsTopFirst(s, p, reveal) ==
  [i \in 1..Len(s.piles[p]) |-> TextOf(s.piles[p][i], reveal)]

PileTexts(s, p, reveal) ==
  Reverse([i \in 1..Len(s.piles[p]) |-> TextOf(s.piles[p][i], reveal)])

TopText(s, p, reveal) == IF Empty(s, p) THEN EmptyText ELSE TextOf(Top(s, p), reveal)

Printed(s, reveal) ==
  LET Whole(refs) == [i \in 1..Len(refs) |-> PileTexts(s, refs[i], reveal)]
      Tops(refs) == [i \in 1..Len(refs) |-> TopText(s, refs[i], reveal)]
      l == L(s)
  IN Section("tableau piles", l.tableau_piles # <<>>, Whole(l.tableau_piles))
     @@ Section("foundations", l.foundations # <<>>, FlattenSeq(Whole(l.foundations)))
     @@ Section("cells", l.cells # <<>>, Tops(s.cells))
     @@ Section("reserve", l.reserve # <<>>,
                IF R(s).reserve_stacked THEN PileTexts(s, l.reserve[1], reveal) ELSE Tops(s.reserve))
     @@ Section("sequences", l.sequences # <<>>, Whole(l.sequences))
     @@ Section("accordion", l.accordion # <<>>, Tops(s.accordion))
     @@ Section("stock", l.stock # NoPile, PileTexts(s, l.stock, reveal))
     @@ Section("waste", l.waste # NoPile, PileTexts(s, l.waste, reveal))
     @@ Section("hole", l.hole # NoPile, <<TopText(s, l.hole, reveal)>>)

-----------------------------------------------------------------------------
(* Reading goes from section to section until something is wrong: is tells *)
(* what.  A "refused" document is a runtime_error; "not_a_card" is the     *)
(* invalid_argument of stoi; assert() aborts a build that keeps it; and    *)
(* what is "undefined" is an index past the end.                           *)
Stopped(d, why) == [d EXCEPT !.is = why]
Unless(d, wrong, why) == IF d.is = "read" /\ wrong THEN Stopped(d, why) ELSE d

(* card(const char * ): what is wrong with a text, if anything.            *)
Fault(text, asserts) ==
  CASE text \in {EmptyText, Hashes} -> "not_a_card"
    [] asserts /\ text.rank \notin 1..13 -> "abort"
    [] OTHER -> "none"

(* The rank is a field of four bits.                                       *)
CardOf(text, facesDown) == [text EXCEPT !.rank = @ % 16, !.down = @ /\ facesDown]

(* Each card is made, then placed.                                         *)
PlacedOn(d, p, texts, facesDown, asserts) ==
  IF d.is # "read" \/ texts = <<>> THEN d ELSE
  LET reached == IF p \in DOMAIN d.state.piles THEN texts ELSE <<Head(texts)>>
      faults == SelectSeq([i \in 1..Len(reached) |-> Fault(reached[i], asserts)],
                          LAMBDA f : f # "none")
      cards == [i \in 1..Len(texts) |-> CardOf(texts[i], facesDown)]
  IN CASE faults # <<>> -> Stopped(d, Head(faults))
       [] faults = <<>> /\ p \notin DOMAIN d.state.piles -> Stopped(d, "undefined")
       [] OTHER -> [d EXCEPT !.state = PlaceAll(@, p, cards)]

PlacedRows(d, piles, rows, facesDown, asserts) ==
  LET placed[i \in 0..Len(rows)] ==
        IF i = 0 THEN d ELSE PlacedOn(placed[i - 1], piles[i], rows[i], facesDown, asserts)
  IN placed[Len(rows)]

(* Mutant: nothing is read behind an empty text.                           *)
SinglesUntilEmpty(texts) ==
  [i \in 1..Len(texts) |->
     IF \E j \in 1..i : texts[j] = EmptyText THEN <<>> ELSE <<texts[i]>>]

(* Rows of one text each, but for empty texts.                             *)
Singles(texts) ==
  [i \in 1..Len(texts) |-> IF texts[i] = EmptyText THEN <<>> ELSE <<texts[i]>>]

PlacedSingly(d, piles, texts, asserts) == PlacedRows(d, piles, Singles(texts), FALSE, asserts)

(* A section that is missing is asserted to be there, or else reads as an  *)
(* empty array.                                                            *)
Row(doc, name) == IF name \in DOMAIN doc THEN doc[name] ELSE <<>>

Required(d, doc, name, asserts) ==
  Unless(d, asserts /\ name \notin DOMAIN doc, "abort")

Counted(d, doc, name, count, asserts) ==
  Unless(Required(d, doc, name, asserts), Len(Row(doc, name)) # count, "refused")

ParseTableauPiles(d, doc, asserts) ==
  LET piles == L(d.state).tableau_piles
  IN PlacedRows(Counted(d, doc, "tableau piles", Len(piles), asserts),
                piles, Row(doc, "tableau piles"), R(d.state).face_up # "all", asserts)

ParsePile(d, doc, name, p, asserts) == PlacedOn(d, p, Row(doc, name), FALSE, asserts)

ParseCells(d, doc, asserts) ==
  LET texts == Row(doc, "cells")
  IN PlacedSingly(Unless(d, Len(texts) \notin {0, R(d.state).cells}, "refused"),
                  L(d.state).cells, texts, asserts)

(* A reserve that is too long goes on to the piles that come next.         *)
ParseReserve(d, doc, asserts) ==
  LET texts == Row(doc, "reserve")
      first == L(d.state).reserve[1]
      piles == IF R(d.state).reserve_stacked THEN [i \in 1..Len(texts) |-> first]
               ELSE Numbered(first, Len(texts))
  IN PlacedSingly(Required(d, doc, "reserve", asserts), piles, texts, asserts)

ParseSequences(d, doc, asserts) ==
  LET rows == Row(doc, "sequences")
      gapped == [i \in 1..Len(rows) |->
                   [j \in 1..Len(rows[i]) |-> IF rows[i][j] = EmptyText THEN Gap ELSE rows[i][j]]]
  IN PlacedRows(Counted(d, doc, "sequences", Len(L(d.state).sequences), asserts),
                L(d.state).sequences, gapped, FALSE, asserts)

ParseAccordion(d, doc, asserts) ==
  PlacedSingly(Counted(d, doc, "accordion", Len(L(d.state).accordion), asserts),
               L(d.state).accordion, Row(doc, "accordion"), asserts)

(* A card of the foundations goes by its suit.  A random base is that of   *)
(* the foundation of the last one: with no card, of an empty pile.         *)
ParseFoundations(d, doc, asserts) ==
  LET texts == Row(doc, "foundations")
      foundations == L(d.state).foundations
      pileOf(text) == IF text.suit \in Suits THEN foundations[text.suit + 1] ELSE NoPile
      read == PlacedRows(d, [i \in 1..Len(texts) |-> pileOf(texts[i])],
                         [i \in 1..Len(texts) |-> <<texts[i]>>], FALSE, asserts)
      based == R(d.state).foundations_base = 0
  IN IF read.is # "read" \/ ~ based THEN read
     ELSE IF texts = <<>> THEN Stopped(read, "undefined")
     ELSE [read EXCEPT !.state.base = Last(read.state.piles[pileOf(Last(texts))]).rank]

FillFoundations(d) ==
  [d EXCEPT !.state =
     FoldLeft(LAMBDA s, i : Place(s, L(s).foundations[i], Card((i - 1) % 4, 1)),
              @, Numbered(1, Len(L(@).foundations)))]

FoundationsRead(d, doc, asserts) ==
  CASE d.is # "read" -> d
    [] d.is = "read" /\ "foundations" \in DOMAIN doc -> ParseFoundations(d, doc, asserts)
    [] OTHER -> IF R(d.state).foundations_init_cards = "all" THEN FillFoundations(d) ELSE d

(* deal_schema_json: every text is a card, but for the sections that may   *)
(* have gaps, and a rank may be 0.                                         *)
Nested == {"tableau piles", "sequences"}
MayBeEmpty == {"cells", "reserve", "sequences", "accordion"}
Sections == Nested \union MayBeEmpty \union {"foundations", "stock", "waste", "hole"}

Texts(doc, name) ==
  IF name \in Nested THEN UNION {Range(row) : row \in Range(doc[name])} ELSE Range(doc[name])

DealSchemaAccepts(doc) ==
  \A name \in DOMAIN doc :
    /\ name \in Sections
    /\ \A text \in Texts(doc, name) :
         IF text = EmptyText THEN name \in MayBeEmpty
         ELSE text.suit \in Suits /\ text.rank \in 0..13

(* parse, which puts a document through the schema last.                   *)
Parsed(state, doc, asserts) ==
  LET r == R(state)
      When(has, d, next) == IF has THEN next ELSE d
      tableau(d) == When(r.tableau_pile_count > 0, d, ParseTableauPiles(d, doc, asserts))
      hole(d) == When(r.hole, d, ParsePile(d, doc, "hole", L(state).hole, asserts))
      cells(d) == When(r.cells > 0, d, ParseCells(d, doc, asserts))
      stock(d) == When(r.stock_size > 0, d, ParsePile(d, doc, "stock", L(state).stock, asserts))
      waste(d) == When(r.stock_deal_t = "waste", d, ParsePile(d, doc, "waste", L(state).waste, asserts))
      reserve(d) == When(r.reserve_size > 0, d, ParseReserve(d, doc, asserts))
      sequences(d) == When(r.sequence_count > 0, d, ParseSequences(d, doc, asserts))
      accordion(d) == When(r.accordion_size > 0, d, ParseAccordion(d, doc, asserts))
      foundations(d) == When(r.foundations_present, d, FoundationsRead(d, doc, asserts))
      held == stock(cells(hole(tableau([is |-> "read", state |-> state]))))
  IN Unless(foundations(accordion(sequences(reserve(waste(held))))),
            ~ DealSchemaAccepts(doc), "refused")

(* The constructor that takes a document.                                  *)
ReadDeal(r, doc, asserts) ==
  LET d == Parsed(NoPiles(r, LayoutOf(r)), doc, asserts)
  IN IF d.is = "read" THEN [d EXCEPT !.state = Stored(@)] ELSE d
=============================================================================
