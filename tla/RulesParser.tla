---------------------------- MODULE RulesParser ----------------------------
(***************************************************************************)
(* rules_parser: what a rules document makes of the default rules.         *)
(*                                                                         *)
(* A document says, a function from <<section, key>> to a value, and has   *)
(* wrong, the set of the <<section, key>> whose value is of another type   *)
(* than its setting; <<section, "">> stands for the section itself.  Of    *)
(* the settings whose text is read as a number, garbled has those in which *)
(* stoi finds none.  The names of policies are those of the documents; a   *)
(* card of base "random" is rank 0; a move of an accordion is a number of  *)
(* piles, below 0 to the left.  All errors that are thrown as a            *)
(* runtime_error are alike: the document is refused.                       *)
(***************************************************************************)
EXTENDS SolRules, Integers, Sequences, FiniteSets
LOCAL INSTANCE TLC
LOCAL INSTANCE SequencesExt

Said(doc, key, default) == IF key \in DOMAIN doc.says THEN doc.says[key] ELSE default

(* static_cast<uint8_t>                                                    *)
Byte(n) == n % 256
Count(doc, key, default) == Byte(Said(doc, key, default))

SaysOf(doc, section) == \E key \in DOMAIN doc.says : key[1] = section

-----------------------------------------------------------------------------
(* modify_sol_rules, a section at a time: r are the rules so far.          *)

(* "same-as-build" is also what a section says that says nothing of it.    *)
Tableau(r, doc) ==
  LET S(key, default) == Said(doc, <<"tableau piles", key>>, default)
      build == S("build policy", r.build_pol)
      group == S("move built group policy", "same-as-build")
  IN [r EXCEPT
        !.tableau_pile_count = Count(doc, <<"tableau piles", "count">>, @),
        !.build_pol = build,
        !.spaces_pol = S("spaces policy", @),
        !.move_built_group = S("move built group", @),
        !.built_group_pol = IF ~ SaysOf(doc, "tableau piles") THEN @
                            ELSE IF group = "same-as-build" THEN build ELSE group,
        !.diagonal_deal = S("diagonal deal", @),
        !.face_up = S("face up cards", @)]

Foundations(r, doc) ==
  LET S(key, default) == Said(doc, <<"foundations", key>>, default)
  IN [r EXCEPT
        !.foundations_present = S("present", @),
        !.foundations_init_cards = S("initial cards", @),
        !.foundations_base = S("base card", @),
        !.foundations_removable = S("removable", @),
        !.foundations_only_comp_piles = S("complete piles", @)]

Hole(r, doc) ==
  [r EXCEPT
     !.hole = Said(doc, <<"hole", "present">>, @),
     !.hole_base = Said(doc, <<"hole", "base card">>, @),
     !.hole_build_loops = Said(doc, <<"hole", "build loops">>, @)]

Cells(r, doc) ==
  [r EXCEPT
     !.cells = Count(doc, <<"cells", "count">>, @),
     !.cells_pre_filled = Count(doc, <<"cells", "pre-filled">>, @)]

(* Any other deal type is to the tableau.                                  *)
Stock(r, doc) ==
  LET type == Said(doc, <<"stock", "deal type">>, r.stock_deal_t)
  IN [r EXCEPT
        !.stock_size = Count(doc, <<"stock", "size">>, @),
        !.stock_deal_t = IF type \in {"waste", "hole"} THEN type ELSE "tableau piles",
        !.stock_deal_count = Count(doc, <<"stock", "deal count">>, @),
        !.stock_redeal = Said(doc, <<"stock", "redeal">>, @)]

Reserve(r, doc) ==
  [r EXCEPT
     !.reserve_size = Count(doc, <<"reserve", "size">>, @),
     !.reserve_stacked = Said(doc, <<"reserve", "stacked">>, @)]

(* Moves and policies are added to those of the rules.                     *)
AccordionSays(r, doc) ==
  [r EXCEPT
     !.accordion_size = Count(doc, <<"accordion", "size">>, @),
     !.accordion_moves = @ \o Said(doc, <<"accordion", "moves">>, <<>>),
     !.accordion_pol = @ \union Said(doc, <<"accordion", "build policies">>, {})]

SequencesSay(r, doc) ==
  LET S(key, default) == Said(doc, <<"sequences", key>>, default)
  IN [r EXCEPT
        !.sequence_count = Count(doc, <<"sequences", "count">>, @),
        !.sequence_build_pol = S("build policy", @),
        !.sequence_fixed_suit = S("fixed suit", @),
        !.sequence_direction = S("direction", @)]

Deck(r, doc) ==
  [r EXCEPT !.max_rank = Count(doc, <<"", "max rank">>, @),
            !.two_decks = Said(doc, <<"", "two decks">>, @)]

Modified(doc) ==
  LET piles == Foundations(Tableau(DefaultRules, doc), doc)
      places == Reserve(Stock(Cells(Hole(piles, doc), doc), doc), doc)
      lines == SequencesSay(AccordionSays(places, doc), doc)
  IN Deck(lines, doc)

-----------------------------------------------------------------------------
(* What a setting may be that is a word, a number or a list; the others    *)
(* are Booleans.                                                           *)
Builds == {"any-suit", "red-black", "same-suit"}

SequenceWords ==
  <<"sequences", "build policy">> :> Builds @@ <<"sequences", "direction">> :> {"L", "R", "LR"}

Words ==
  <<"tableau piles", "build policy">> :> Builds \union {"no-build"}
  @@ <<"tableau piles", "spaces policy">> :>
       {"any", "no-build", "kings", "auto-reserve-then-any", "auto-reserve-then-waste",
        "auto-waste-then-stock"}
  @@ <<"tableau piles", "move built group">> :>
       {"yes", "no", "whole-pile", "maximal-group", "partial-if-card-above-buildable"}
  @@ <<"tableau piles", "move built group policy">> :>
       Builds \union {"no-build", "same-as-build"}
  @@ <<"tableau piles", "face up cards">> :> {"all", "top"}
  @@ <<"foundations", "initial cards">> :> {"none", "one", "all"}
  @@ <<"stock", "deal type">> :> {"waste", "tableau piles", "hole"}
  @@ SequenceWords

Smallest ==
  [key \in {<<"tableau piles", "count">>, <<"cells", "count">>, <<"cells", "pre-filled">>,
            <<"stock", "size">>, <<"reserve", "size">>, <<"accordion", "size">>,
            <<"sequences", "count">>} |-> 0]
  @@ <<"stock", "deal count">> :> 1 @@ <<"", "max rank">> :> 1

BaseCard == <<"foundations", "base card">>
Cards == {BaseCard, <<"hole", "base card">>}
Moves == <<"accordion", "moves">>
Policies == <<"accordion", "build policies">>

TwoDecks == <<"", "two decks">>

Booleans ==
  {<<"tableau piles", "diagonal deal">>, <<"foundations", "present">>,
   <<"foundations", "removable">>, <<"foundations", "only complete pile moves">>,
   <<"hole", "present">>, <<"hole", "build loops">>, <<"stock", "redeal">>,
   <<"reserve", "stacked">>, <<"sequences", "fixed suit">>, TwoDecks}

Settings == DOMAIN Words \union DOMAIN Smallest \union Cards \union Booleans \union {Moves, Policies}

LargestRank == 13

(* rules_schema_json: no number but a rank has a largest value, and only a *)
(* hole may have keys that it does not know.                               *)
Fits(key, value) ==
  /\ key \in Settings \/ key[1] = "hole"
  /\ key \in DOMAIN Words => value \in Words[key]
  /\ key \in DOMAIN Smallest => value >= Smallest[key]
  /\ key = <<"", "max rank">> => value <= LargestRank
  /\ key \in Cards => value \in 0..13
  /\ key = Moves => \A n \in ToSet(value) : n \in (-52..52) \ {0}
  /\ key = Policies => value \subseteq Builds \union {"same-rank"}

SchemaAccepts(doc) ==
  doc.wrong = {} /\ \A key \in DOMAIN doc.says : Fits(key, doc.says[key])

Goals(r) ==
  {goal \in {"hole", "foundations", "sequences", "accordion"} :
     CASE goal = "hole" -> r.hole
       [] goal = "foundations" -> r.foundations_present
       [] goal = "sequences" -> r.sequence_count > 0
       [] goal = "accordion" -> r.accordion_size > 0}

(* What modify_sol_rules refuses before the schema does.  It does not mind *)
(* a hole that is no object, a deal type that it does not know or a key    *)
(* that it does not know.                                                  *)
Refused(doc) ==
  (doc.wrong \ {<<"hole", "">>})
    \union {key \in (DOMAIN Words \ {<<"stock", "deal type">>}) \intersect DOMAIN doc.says :
              doc.says[key] \notin Words[key]}

ParserAccepts(doc) ==
  /\ Refused(doc) = {} /\ doc.garbled = {}
  /\ Modified(doc).max_rank <= 13
  /\ Cardinality(Goals(Modified(doc))) = 1

Accepted(doc) == ParserAccepts(doc) /\ SchemaAccepts(doc)

(* Two settings are numbers in a text, which stoi reads: what it throws of *)
(* another text is no runtime_error, and a build with assert() checks the  *)
(* rank.  Either ends modify_sol_rules at once, unless it refuses what it  *)
(* reads before.                                                           *)
ReadBefore(key) ==
  IF key = BaseCard THEN [sections |-> {"tableau piles"}, keys |-> {"present", "initial cards"}]
  ELSE [sections |-> {"tableau piles", "foundations", "hole", "cells", "stock", "reserve"},
        keys |-> {"size"}]

NoRank(doc) == {key \in {BaseCard} \intersect DOMAIN doc.says : doc.says[key] \notin 0..13}

Escapes(doc, asserts) ==
  \E key \in doc.garbled \union (IF asserts THEN NoRank(doc) ELSE {}) :
    \A refused \in Refused(doc) :
      /\ refused[1] \notin ReadBefore(key).sections
      /\ refused[1] = key[1] => refused[2] \notin ReadBefore(key).keys
=============================================================================
