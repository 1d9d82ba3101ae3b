----------------------------- MODULE DealCycle -----------------------------
(***************************************************************************)
(* A preset game from its name to its play: the rules are made from its    *)
(* document, a seed is dealt and printed (--deal-only), the printed deal,  *)
(* or one that was edited, is read by the run that solves it, and moves    *)
(* are made.                                                               *)
(***************************************************************************)
EXTENDS DealDocuments, LegalMoves, SolRules
LOCAL INSTANCE TLC

Presets == INSTANCE PresetGames
Parser == INSTANCE RulesParser

CONSTANTS
  Games,           (* The names of presets to play.                        *)
  Seeds,
  ShuffledDeck(_, _),    (* The shuffled deck of a game's rules and a seed.      *)
  Options,         (* Of the run that solves: streamliner, force_lru and   *)
                   (* cache_type.                                          *)
  AssertBuilds(_), (* Builds a game is run in: whether assert() is kept.   *)
  Reveals,         (* Whether face-down cards are printed (--reveal-hidden). *)
  Edits(_),        (* What may be done to a game's document by hand.       *)
  Steps            (* Bound: moves that are played.                        *)

VARIABLES
  game, seed, options, asserts,
  pc, rules, document,
  edit,            (* What was done to the document, if anything.          *)
  reading,         (* What came of reading it, and the state.              *)
  state, last,     (* The state, and the move that led there.              *)
  steps

vars == <<game, seed, options, asserts, pc, rules, document, edit, reading, state, last, steps>>

NothingRead == [is |-> "nothing", state |-> <<>>]

Deck == ShuffledDeck(rules, seed)
PrintingRules == Searched(rules, "none", FALSE, "hash-only")
SolvingRules == Searched(rules, options.streamliner, options.force_lru, options.cache_type)

-----------------------------------------------------------------------------
(* gen_rules                                                               *)
MakeRules ==
  /\ pc = "start"
  /\ LET doc == Presets!PresetDocuments[game]
     IN IF Parser!Accepted(doc) THEN rules' = Parser!Modified(doc) /\ pc' = "rules"
        ELSE rules' = rules /\ pc' = "refused"
  /\ UNCHANGED <<game, seed, options, asserts, document, edit, reading, state, last, steps>>

(* main, if deal_only: in the default binary, a state of FlatPolicy.       *)
PrintDeal ==
  /\ pc = "rules"
  /\ state' = DealOf([PrintingRules EXCEPT !.policy = "FLAT"], Deck)
  /\ \E reveal \in Reveals : document' = Printed(state', reveal)
  /\ pc' = "printed"
  /\ UNCHANGED <<game, seed, options, asserts, rules, edit, reading, last, steps>>

(* Environment: somebody changes the file.                                 *)
Rows(doc, name) == name \in DOMAIN doc /\ Len(doc[name]) > 0

Edited(doc, how) ==
  CASE how.is = "drop section" -> [name \in DOMAIN doc \ {how.name} |-> doc[name]]
    [] how.is = "drop last"    -> [doc EXCEPT ![how.name] = Front(@)]
    [] how.is = "blank"        -> [doc EXCEPT ![how.name][1] = EmptyText]
    [] how.is = "rank"         -> [doc EXCEPT ![how.name][1].rank = how.rank]
    [] how.is = "add"          -> [doc EXCEPT ![how.name] = Append(@, Card(0, 1))]
    [] how.is = "new section"  -> how.name :> <<Card(0, 1)>> @@ doc

EditDeal ==
  /\ pc = "printed" /\ edit = <<>>
  /\ \E how \in Edits(game) :
       /\ (how.is = "new section") # Rows(document, how.name)
       /\ how.is \in {"blank", "rank", "add", "new section"} => how.name \notin Nested
       /\ edit' = <<how>> /\ document' = Edited(document, how)
  /\ UNCHANGED <<game, seed, options, asserts, pc, rules, reading, state, last, steps>>

(* solve_game with the document.                                           *)
ReadBack ==
  /\ pc = "printed"
  /\ reading' = ReadDeal(SolvingRules, document, asserts)
  /\ IF reading'.is = "read" THEN state' = reading'.state /\ pc' = "read"
     ELSE state' = state /\ pc' = "failed"
  /\ UNCHANGED <<game, seed, options, asserts, rules, document, edit, last, steps>>

(* A turn of dfs that goes down: the dominance move, or else one of the    *)
(* legal moves, a different one at each step.                              *)
NextMoves ==
  LET forced == DominanceMovesOf(state)
  IN IF forced # <<>> THEN <<Head(forced)>> ELSE LegalMovesOf(state, last)

Play ==
  /\ pc = "read" /\ edit = <<>> /\ steps < Steps
  /\ ~ IsSolved(state) /\ NextMoves # <<>>
  /\ LET m == NextMoves[((seed + steps * steps) % Len(NextMoves)) + 1]
     IN state' = MakeMove(state, m) /\ last' = m
  /\ steps' = steps + 1
  /\ UNCHANGED <<game, seed, options, asserts, pc, rules, document, edit, reading>>

Init ==
  /\ game \in Games /\ seed \in Seeds /\ options \in Options /\ asserts \in AssertBuilds(game)
  /\ pc = "start" /\ rules = DefaultRules /\ document = <<>> /\ edit = <<>>
  /\ reading = NothingRead /\ state = <<>> /\ last = NullMoveOfGame /\ steps = 0

Next == MakeRules \/ PrintDeal \/ EditDeal \/ ReadBack \/ Play

Spec == Init /\ [][Next]_vars

-----------------------------------------------------------------------------
(* How often each card occurs, face down or up.                            *)
Tally(cards) ==
  LET Up(c) == Card(c.suit, c.rank)
  IN [c \in {Up(d) : d \in Range(cards)} |->
        Cardinality({i \in 1..Len(cards) : Up(cards[i]) = c})]

CardsOf(s) == FlattenSeq([i \in 1..Cardinality(DOMAIN s.piles) |-> s.piles[i - 1]])

(* What the deck holds: an accordion takes its size from the back of the   *)
(* deck, and aces are gaps in sequences.                                   *)
DealtCards ==
  CASE rules.accordion_size > 0 -> SubSeq(Deck, Len(Deck) - rules.accordion_size + 1, Len(Deck))
    [] rules.sequence_count > 0 ->
         [i \in 1..Len(Deck) |-> IF Deck[i].rank = 1 THEN Gap ELSE Deck[i]]
    [] OTHER -> Deck

(* A preset comes through its files.  Its document passes the parser and   *)
(* the schema, so that every name that assess_sol_type lets through has    *)
(* rules.  Its deal, and every position that moves lead to, has each card  *)
(* of the deck in just one place: the sizes of stock, reserve, cells and   *)
(* foundations leave no card over and none twice.  And --deal-only         *)
(* --reveal-hidden, then solving the file, is solving the seed: the state  *)
(* read is the state dealt, with all that its policy keeps beside the      *)
(* piles; a deal whose hidden cards were not revealed is not read at all.  *)
PresetHasRules == pc # "refused"

EachCardOnce ==
  pc \in {"printed", "read"} /\ edit = <<>> => Tally(CardsOf(state)) = Tally(DealtCards)

HasHidden(doc) == \E name \in DOMAIN doc : Hashes \in Texts(doc, name)

ReadsBack ==
  pc \in {"read", "failed"} /\ steps = 0 /\ edit = <<>> =>
    IF HasHidden(document) THEN reading.is = "not_a_card"
    ELSE reading = [is |-> "read", state |-> DealOf(SolvingRules, Deck)]

DealIsReadBack == PresetHasRules /\ EachCardOnce /\ ReadsBack

(* After every move on a full deck, what the policy keeps for its cache to *)
(* compare is what it would read off the piles; and whatever move the      *)
(* search may make next, undo_move takes it back, cards face down and all. *)
(* The flat descriptors of an accordion, which its cache does not compare, *)
(* are left out: moves do not keep them right.                             *)
StoreIsRight == pc = "read" => ComparedIsScratch(state)

UndoGivesBack ==
  pc = "read" /\ edit = <<>> =>
    \A i \in 1..Len(NextMoves) :
      LET undone == UndoMove(MakeMove(state, NextMoves[i]), NextMoves[i])
      IN undone.piles = state.piles /\ Compared(undone) = Compared(state)

PlayIsKept == StoreIsRight /\ UndoGivesBack

(* A document that was edited is refused, or fails, or its state holds the *)
(* cards that are written in the sections of the game, no other and none   *)
(* left out; aces fill foundations that it does not mention.               *)
WrittenCards ==
  LET read == DOMAIN document \intersect DOMAIN Printed(state, TRUE)
      names == SelectSeq(<<"tableau piles", "foundations", "cells", "reserve", "sequences",
                           "accordion", "stock", "waste", "hole">>, LAMBDA name : name \in read)
      written(name) == IF name \in Nested THEN FlattenSeq(document[name]) ELSE document[name]
      aces == IF "foundations" \notin DOMAIN document /\ rules.foundations_init_cards = "all"
              THEN [i \in 1..4 * Decks(rules) |-> Card(i % 4, 1)] ELSE <<>>
  IN SelectSeq(aces \o FlattenSeq([i \in 1..Len(names) |-> written(names[i])]),
               LAMBDA text : text # EmptyText)

EditIsRead ==
  pc = "read" /\ edit # <<>> => Tally(CardsOf(state)) = Tally(WrittenCards)
=============================================================================
