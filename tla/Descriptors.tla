---------------------------- MODULE Descriptors ----------------------------
(***************************************************************************)
(* What a policy keeps beside the piles to recognise a state by: the       *)
(* descriptors of flat_descriptor_engine, those of                         *)
(* multiplicity_descriptor_engine, or the predecessors of an accordion.    *)
(* A move changes the few descriptors it should; the scratch operators     *)
(* read them all off the piles again.                                      *)
(***************************************************************************)
EXTENDS GameState

(* The waste and the stock are one row of cards when the waste is turned   *)
(* back after a whole number of deals.                                     *)
WasteSymmetry(s) ==
  R(s).stock_redeal /\ Len(s.piles[L(s).waste]) % R(s).stock_deal_count = 0

(* The cards of a deck by their ids, and the cards that changed.           *)
DeckIds(s) == {suit * 13 + rank - 1 : suit \in Suits, rank \in 1..R(s).max_rank}

Change(c, d) == [id |-> CardId(c), descriptor |-> d]

Updated(descriptors, changes) ==
  FoldLeft(LAMBDA ds, ch : [ds EXCEPT ![ch.id] = ch.descriptor], descriptors, changes)

Described(descriptors, changes) ==
  [id \in DOMAIN descriptors |->
     LET of == {ch \in changes : ch.id = id}
     IN IF of = {} THEN descriptors[id] ELSE (CHOOSE ch \in of : TRUE).descriptor]

If(condition, x) == IF condition THEN <<x>> ELSE <<>>

-----------------------------------------------------------------------------
(* Flat descriptors.  parent_table: a card that lies on a card it may be   *)
(* built on is described by which of its parents that is.                  *)
ParentNames == <<"PARENT_0", "PARENT_1", "PARENT_2", "PARENT_3">>

ParentSuits(policy, suit) ==
  CASE policy = "no-build"  -> <<>>
    [] policy = "same-suit" -> <<suit>>
    [] policy = "red-black" -> IF Colour(suit) = 0 THEN <<1, 3>> ELSE <<0, 2>>
    [] OTHER                -> <<0, 1, 2, 3>>

(* Mutant: the parents of a card are told apart by colour only.            *)
OnParentByColour(s, c, parent) ==
  IF NextLegal(s, R(s).build_pol, parent, c) /\ R(s).build_pol # "no-build"
  THEN ParentNames[Colour(parent.suit) + 1] ELSE "ROOT"

OnParent(s, c, parent) ==
  LET suits == ParentSuits(R(s).build_pol, c.suit)
      is == {i \in 1..Len(suits) : suits[i] = parent.suit}
  IN IF is # {} /\ NextLegal(s, "any-suit", parent, c)
     THEN ParentNames[CHOOSE i \in is : TRUE] ELSE "ROOT"

(* determine_destination_descriptor, for the top card of a pile.           *)
FlatDestination(s, p) ==
  LET pile == s.piles[p]
  IN CASE p \in Range(L(s).cells) -> "IN_CELL"
       [] IsTableau(s, p) ->
            IF Len(pile) = 1 THEN "IN_SPACE"
            ELSE IF pile[2].down THEN "STARTING" ELSE OnParent(s, pile[1], pile[2])
       [] OTHER -> "STARTING"

(* The card at place i of a pile, when the bottom of a group came there.   *)
FlatGroupBottom(s, p, i) ==
  IF i = Len(s.piles[p]) THEN "IN_SPACE"
  ELSE OnParent(s, s.piles[p][i], s.piles[p][i + 1])

(* A card that goes back on a face-down one lay there from the start, or   *)
(* was turned up there.                                                    *)
FlatReturned(s, p, i, otherwise) ==
  LET pile == s.piles[p]
  IN IF IsTableau(s, p) /\ Len(pile) > i /\ pile[i + 1].down
     THEN IF CardId(pile[i]) \in s.store.face_up_at_init
          THEN "STARTING" ELSE "STARTING_FACE_UP"
     ELSE otherwise

FlatTurnedUp(s, p) ==
  IF Len(s.piles[p]) = 1 THEN "IN_SPACE" ELSE "STARTING_FACE_UP"

TopRank(s, f) == IF Empty(s, f) THEN 0 ELSE Top(s, f).rank

EffectiveWaste(s) == IF WasteSymmetry(s) THEN 0 ELSE Len(s.piles[L(s).waste])

(* The headers after a move between these piles.                           *)
FlatHeaders(s, touched) ==
  [s.store EXCEPT
     !.foundations =
        [f \in DOMAIN @ |-> IF f \in touched THEN TopRank(s, f) ELSE @[f]],
     !.waste_ptr =
        IF L(s).waste \in touched THEN EffectiveWaste(s) ELSE @]

Touched(s, m) ==
  {m.from, m.to} \union (IF m.type = "stock_k_plus" THEN {L(s).waste} ELSE {})

(* The flat part of make_move and undo_move: s holds the piles they left,  *)
(* moved is the card, or the bottom of the group, that was moved.          *)
FlatMade(s, m, moved) ==
  LET at == IF m.type \in {"built_group", "accordion"} THEN FlatGroupBottom(s, m.to, m.count)
            ELSE FlatDestination(s, m.to)
      turned == If(m.reveal_move, Change(Top(s, m.from), FlatTurnedUp(s, m.from)))
  IN [FlatHeaders(s, Touched(s, m)) EXCEPT
        !.descriptors = Updated(@, <<Change(moved, at)>> \o turned)]

FlatGroupReturned(s, p, i) == FlatReturned(s, p, i, FlatGroupBottom(s, p, i))

FlatUndone(s, m, moved) ==
  LET i == m.count
      at == CASE m.type = "stock_k_plus" -> "STARTING"
              [] m.type = "regular" ->
                   FlatReturned(s, m.from, 1, FlatDestination(s, m.from))
              [] OTHER -> FlatGroupReturned(s, m.from, i)
      hidden == If(m.reveal_move, Change(s.piles[m.from][i + 1], "STARTING"))
  IN [FlatHeaders(s, Touched(s, m)) EXCEPT
        !.descriptors = Updated(@, <<Change(moved, at)>> \o hidden)]

(* What the piles say; above: a card that is face up on one that is not.   *)
FlatFields(s, above) ==
  LET At(p, i) ==
        LET pile == s.piles[p]
        IN CASE pile[i].down -> "STARTING"
             [] i < Len(pile) /\ ~ pile[i].down /\ pile[i + 1].down -> above
             [] OTHER -> FlatGroupBottom(s, p, i)
      tableau == UNION {{Change(s.piles[p][i], At(p, i)) : i \in 1..Len(s.piles[p])} :
                          p \in Range(L(s).tableau_piles)}
      cells == {Change(Top(s, p), "IN_CELL") :
                  p \in {q \in Range(L(s).cells) : ~ Empty(s, q)}}
  IN [descriptors |-> Described([id \in DeckIds(s) |-> "STARTING"], tableau \union cells),
      foundations |-> [f \in Range(L(s).foundations) |-> TopRank(s, f)],
      waste_ptr   |-> IF HasWaste(R(s)) THEN EffectiveWaste(s) ELSE 0]

FaceUpCards(s) ==
  {CardId(c) : c \in {d \in UNION {Range(s.piles[p]) : p \in L(s).piles} : ~ d.down}}

(* init and init_face_up_table.                                            *)
FlatInitial(s) == FlatFields(s, "STARTING") @@ [face_up_at_init |-> FaceUpCards(s)]

(* recompute_payload_from_scratch.                                         *)
FlatScratch(s) == FlatFields(s, "ROOT")

(* assert_payload_consistent: only where all cards are face up.            *)
FlatConsistent(s) ==
  R(s).face_up = "all" =>
    \A field \in {"descriptors", "foundations", "waste_ptr"} :
      s.store[field] = FlatScratch(s)[field]

(* check_face_down_consistent, but for the descriptors; those.             *)
FaceDownBelow(pile) ==
  /\ pile # <<>> => ~ Head(pile).down
  /\ \A i \in 2..Len(pile) : pile[i - 1].down => pile[i].down

FaceDownUnknown(s, pile) ==
  \A i \in 1..Len(pile) : pile[i].down => s.store.descriptors[CardId(pile[i])] = "STARTING"

-----------------------------------------------------------------------------
(* Multiplicity descriptors: a card lies on another (on, a set of at most  *)
(* one id), or else in a kind of place.                                    *)
InCell == 0
Permanent == 1
InStock == 2
InWaste == 3
InReserve == 4
HoleTop == 5
InSpace == 6

Locative(kind) == [on |-> {}, kind |-> kind, down |-> FALSE]

PileSymmetry(r) == r.stock_size = 0 \/ r.stock_deal_t # "tableau piles"

(* mult_desc_at, for the card at place i of a pile.                        *)
MultiplicityAt(s, p, i) ==
  LET l == L(s)
      pile == s.piles[p]
  IN CASE IsFoundation(s, p)   -> Locative(Permanent)
       [] p = l.hole           -> Locative(IF i = 1 THEN HoleTop ELSE Permanent)
       [] p \in Range(l.cells) -> Locative(InCell)
       [] p = l.stock          -> Locative(InStock)
       [] p = l.waste -> Locative(IF i = 1 /\ ~ WasteSymmetry(s) THEN InWaste ELSE InStock)
       [] p \in Range(l.reserve) -> Locative(InReserve)
       [] OTHER ->
            [on   |-> IF i = Len(pile) THEN {} ELSE {CardId(pile[i + 1])},
             kind |-> IF i < Len(pile) THEN 0 ELSE IF PileSymmetry(R(s)) THEN InSpace
                      ELSE InSpace + p - l.tableau_piles[1],
             down |-> pile[i].down]

(* recompute_all.                                                          *)
MultiplicityScratch(s) ==
  LET places == UNION {{<<p, i>> : i \in 1..Len(s.piles[p])} : p \in L(s).piles}
      at == {Change(s.piles[x[1]][x[2]], MultiplicityAt(s, x[1], x[2])) : x \in places}
  IN [descriptors |-> Described([id \in DeckIds(s) |-> Locative(Permanent)], at)]

(* verify_against_scratch.                                                 *)
MultiplicityConsistent(s) == s.store = MultiplicityScratch(s)

MultiplicityTop(s, p) == Change(Top(s, p), MultiplicityAt(s, p, 1))

(* The top of the hole gives way to another; undo makes it the top again.  *)
HoleCovered(s, m) ==
  If(m.to = L(s).hole /\ Len(s.piles[m.to]) > 1,
     Change(s.piles[m.to][2], Locative(Permanent)))

HoleUncovered(s, m) ==
  If(m.to = L(s).hole /\ ~ Empty(s, m.to), MultiplicityTop(s, m.to))

(* The cards on top of the waste, when a card of the stock is played or    *)
(* goes back: the old one, when it is neither that card nor still there,   *)
(* and the new one.                                                        *)
WasteTop(s) == If(~ Empty(s, L(s).waste), CardId(Top(s, L(s).waste)))

WasteTopCovered(before, s, moved) ==
  If(WasteTop(before) \notin {<<>>, WasteTop(s), <<CardId(moved)>>},
     Change(Top(before, L(s).waste), Locative(InStock)))

WasteTopFound(s, known) ==
  If(WasteTop(s) \notin {<<>>, known}, MultiplicityTop(s, L(s).waste))

(* The changes of make_move, from the piles before to the piles s after.   *)
MultiplicityMade(before, s, m, moved) ==
  LET place == IF m.type = "built_group" THEN m.count ELSE 1
      to == <<Change(moved, MultiplicityAt(s, m.to, place))>>
      changes ==
        to \o (CASE m.type = "stock_k_plus" ->
                      WasteTopCovered(before, s, moved)
                        \o WasteTopFound(s, WasteTop(before)) \o HoleCovered(s, m)
                 [] m.type = "regular"      -> HoleCovered(s, m)
                 [] OTHER                   -> <<>>)
           \o If(m.reveal_move, MultiplicityTop(s, m.from))
  IN IF m.type = "stock_to_all_tableau" THEN MultiplicityScratch(s)
     ELSE [s.store EXCEPT !.descriptors = Updated(@, changes)]

(* The changes of undo_move.                                               *)
MultiplicityUndone(before, s, m, moved) ==
  LET below == m.count + 1
      back ==
        IF m.type = "stock_k_plus"
        THEN <<Change(moved, IF WasteTop(s) = <<CardId(moved)>>
                             THEN MultiplicityAt(s, L(s).waste, 1)
                             ELSE Locative(InStock))>>
               \o WasteTopFound(s, <<CardId(moved)>>)
               \o WasteTopCovered(before, s, moved)
        ELSE <<Change(moved, MultiplicityAt(s, m.from, m.count))>>
      changes ==
        back \o (IF m.type = "built_group" THEN <<>> ELSE HoleUncovered(s, m))
             \o If(m.reveal_move, Change(s.piles[m.from][below], MultiplicityAt(s, m.from, below)))
  IN IF m.type = "stock_to_all_tableau" THEN MultiplicityScratch(s)
     ELSE [s.store EXCEPT !.descriptors = Updated(@, changes)]

-----------------------------------------------------------------------------
(* The payload of multiplicity: cards that symmetric suits make alike form *)
(* a class, in which only the slots count, and how often each is taken.    *)
SymmetryMode(r) ==
  CASE ~ r.suit_symmetry \/ (~ r.hole /\ r.build_pol = "same-suit") -> "none"
    [] ~ r.hole /\ r.build_pol = "red-black" -> "colour"
    [] OTHER -> "suit irrelevant"

ClassSize(mode) == CASE mode = "none" -> 1 [] mode = "colour" -> 2 [] OTHER -> 4

(* class_of: by card, by rank and colour, by rank.                         *)
ClassOf(mode, id) ==
  CASE mode = "none"   -> id
    [] mode = "colour" -> 2 * (id % 13) + Colour(id \div 13)
    [] OTHER           -> id % 13

ClassMembers(mode, ids, id) == {x \in ids : ClassOf(mode, x) = ClassOf(mode, id)}

(* collapsed_pos: where the cards with the slot of this one begin, when    *)
(* the class is sorted by slots.                                           *)
CollapsedPos(mode, slots, id) ==
  ClassOf(mode, id) * ClassSize(mode)
    + Cardinality({x \in ClassMembers(mode, DOMAIN slots, id) : slots[x] < slots[id]})

Slot(mode, slots, d) ==
  LET value == IF d.on = {} THEN 52 + d.kind
               ELSE CollapsedPos(mode, slots, CHOOSE q \in d.on : TRUE)
  IN IF d.down THEN 255 - value ELSE value

(* recompute_from_descriptors: slots are worked out anew until they settle. *)
RECURSIVE Settled(_, _, _)
Settled(mode, descriptors, slots) ==
  LET next == [id \in DOMAIN slots |-> Slot(mode, slots, descriptors[id])]
  IN IF next = slots THEN slots ELSE Settled(mode, descriptors, next)

MultiplicityPayload(s) ==
  LET mode == SymmetryMode(R(s))
      ds == s.store.descriptors
      slots == Settled(mode, ds, [id \in DOMAIN ds |-> IF ds[id].on = {} THEN 52 + ds[id].kind ELSE 0])
  IN {<<ClassOf(mode, id), slots[id],
        Cardinality({x \in ClassMembers(mode, DOMAIN ds, id) : slots[x] = slots[id]})>> :
        id \in DOMAIN ds}

-----------------------------------------------------------------------------
(* predecessor_state: what an accordion knows of each card is the top card *)
(* of the pile to its left, if it is a top card itself.  PredecessorPolicy *)
(* keeps the flat descriptors as well, by the moves of built groups.       *)
Final == 52
Starting == 57
Pile0 == 58

TopIds(s) == [i \in 1..Len(s.accordion) |-> CardId(Top(s, s.accordion[i]))]

(* init_predecessor_state.                                                 *)
PredecessorScratch(s) ==
  LET full == SelectSeq(s.accordion, LAMBDA p : ~ Empty(s, p))
      tops == [i \in 1..Len(full) |-> CardId(Top(s, full[i]))]
      dealt == {CardId(c) : c \in UNION {Range(s.piles[p]) : p \in Range(s.accordion)}}
  IN [id \in 0..51 |->
        IF id \notin dealt THEN Starting
        ELSE IF id \notin Range(tops) THEN Final
        ELSE IF id = tops[1] THEN Pile0 ELSE tops[IndexOf(tops, id) - 1]]

(* update_predecessor, noted in the frame of the move.                     *)
Pointed(st, id, predecessor) ==
  [predecessors |-> [st.predecessors EXCEPT ![id] = predecessor],
   frame |-> Append(st.frame, [id |-> id, old |-> st.predecessors[id]])]

(* Mutant: the pile to the right of the one that left is not told.         *)
RightKept(st, tops, from, to, left) == st

(* The pile to the right of the one that leaves points to its left         *)
(* neighbour, unless that is where it goes.                                *)
RightPointed(st, tops, from, to, left) ==
  IF from = Len(tops) \/ from - 1 = to THEN st ELSE Pointed(st, tops[from + 1], left)

(* make_accordion_move, before the piles move.                             *)
PredecessorMade(s, m) ==
  LET tops == TopIds(s)
      from == IndexOf(s.accordion, m.from)
      to == IndexOf(s.accordion, m.to)
      old == s.store.predecessors
      st1 == Pointed([predecessors |-> old, frame |-> <<>>], tops[to], Final)
      st2 == Pointed(st1, tops[from], old[tops[to]])
      st3 == RightPointed(st2, tops, from, to, old[tops[from]])
      beyond == to < Len(tops) /\ to + 1 # from
      st4 == IF beyond /\ st3.predecessors[tops[to + 1]] = tops[to]
             THEN Pointed(st3, tops[to + 1], tops[from]) ELSE st3
  IN [s.store EXCEPT !.predecessors = st4.predecessors, !.frames = Append(@, st4.frame)]

(* undo_accordion_move replays the last frame backwards.                   *)
PredecessorUndone(s) ==
  LET frames == s.store.frames
  IN [s.store EXCEPT
        !.predecessors = FoldLeft(LAMBDA ps, e : [ps EXCEPT ![e.id] = e.old], @,
                                  Reverse(Last(frames))),
        !.frames = Front(@)]

PredecessorInitial(s) ==
  FlatInitial(s) @@ [predecessors |-> PredecessorScratch(s), frames |-> <<>>]

PredecessorsConsistent(s) == s.store.predecessors = PredecessorScratch(s)

-----------------------------------------------------------------------------
(* make_move and undo_move.                                                *)
Family(r) ==
  CASE r.policy \in {"FLAT", "HASH_ONLY"}       -> "flat"
    [] r.policy \in {"MULTIPLICITY", "BITMAP"}  -> "multiplicity"
    [] r.policy = "PREDECESSOR"                 -> "predecessor"
    [] OTHER                                    -> "none"

WithStore(s, store) == [s EXCEPT !.store = store]

PlayedCard(before, m) ==
  IF m.type # "stock_k_plus" THEN before.piles[m.from][m.count]
  ELSE IF m.count > 0 THEN before.piles[L(before).stock][m.count]
       ELSE before.piles[L(before).waste][1 - m.count]

StoreMade(s, t, m) ==
  CASE Family(R(s)) = "flat" -> WithStore(t, FlatMade(t, m, PlayedCard(s, m)))
    [] Family(R(s)) = "multiplicity" ->
         WithStore(t, MultiplicityMade(s, t, m, PlayedCard(s, m)))
    [] Family(R(s)) = "predecessor" ->
         WithStore(t, FlatMade(WithStore(t, PredecessorMade(s, m)), m, PlayedCard(s, m)))
    [] OTHER -> t

MakeMove(s, m) == StoreMade(s, PilesAfter(s, m), m)

StoreUndone(s, t, m) ==
  CASE Family(R(s)) = "flat" -> WithStore(t, FlatUndone(t, m, PlayedCard(t, m)))
    [] Family(R(s)) = "multiplicity" ->
         WithStore(t, MultiplicityUndone(s, t, m, PlayedCard(t, m)))
    [] Family(R(s)) = "predecessor" ->
         WithStore(t, FlatUndone(WithStore(t, PredecessorUndone(s)), m, PlayedCard(t, m)))
    [] OTHER -> t

UndoMove(s, m) == StoreUndone(s, PilesBefore(s, m), m)

InitialStore(s) ==
  CASE Family(R(s)) = "flat"         -> FlatInitial(s)
    [] Family(R(s)) = "multiplicity" -> MultiplicityScratch(s)
    [] Family(R(s)) = "predecessor"  -> PredecessorInitial(s)
    [] OTHER                         -> <<>>

(* The assertions and the comments of make_accordion_move: what the moves  *)
(* left is what the piles say.                                             *)
StoreIsScratch(s) ==
  CASE Family(R(s)) = "flat"         -> FlatConsistent(s)
    [] Family(R(s)) = "multiplicity" -> MultiplicityConsistent(s)
    [] Family(R(s)) = "predecessor"  -> PredecessorsConsistent(s) /\ FlatConsistent(s)
    [] OTHER                         -> TRUE

(* The same of what the cache of the policy compares: an accordion's looks *)
(* at the predecessors only, not at the flat descriptors beside them.      *)
ComparedIsScratch(s) ==
  IF Family(R(s)) = "predecessor" THEN PredecessorsConsistent(s) ELSE StoreIsScratch(s)

Compared(s) ==
  IF Family(R(s)) = "predecessor" THEN <<s.store.predecessors, s.store.frames>> ELSE s.store
=============================================================================
