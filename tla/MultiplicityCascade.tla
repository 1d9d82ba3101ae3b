------------------------ MODULE MultiplicityCascade ------------------------
(***************************************************************************)
(* multiplicity_descriptor_engine: the payload that boards share which     *)
(* symmetric suits make alike, worked out from scratch and kept up by each *)
(* move.                                                                   *)
(*                                                                         *)
(* Cards of one class are stored by their slots alone.  A slot says where  *)
(* a card lies: in a kind of place, or on a card that is named by its      *)
(* position in the payload.  As positions follow from slots, a slot that   *)
(* changes may move others, and theirs others yet.                         *)
(*                                                                         *)
(* The deck has 4 * DeckRanks cards, of which the code's has 52.  A        *)
(* random number for a slot of a class is the slot, so that a sum of a     *)
(* class is the bag of its slots, and the hash is all sums.                *)
(***************************************************************************)
EXTENDS Integers, Sequences, FiniteSetsExt

CONSTANTS
  DeckRanks,
  Boards,          (* Boards to begin with: a mode, piles from the bottom  *)
                   (* up with the number of their first cards that are     *)
                   (* hidden, and the cards of cells, stock and tops.      *)
  MaxIterations,   (* 20 in the code, by an assertion.                     *)
  MaxDepth         (* Bound: the moves that are not undone.                *)

(* The deck, and what lies on the piles at first: no card is twice there.  *)
ASSUME CascadeAssumption ==
  /\ DeckRanks \in Nat \ {0}
  /\ \A b \in Boards :
       /\ b.mode \in {"none", "colour", "suit irrelevant"}
       /\ b.piles \in Seq([cards : Seq(0..4 * DeckRanks - 1), hidden : Nat])
       /\ \A i, j \in DOMAIN b.piles :
            \A k \in DOMAIN b.piles[i].cards, l \in DOMAIN b.piles[j].cards :
              b.piles[i].cards[k] = b.piles[j].cards[l] => i = j /\ k = l

VARIABLES
  mode,            (* "none", "colour" or "suit irrelevant".               *)
  descriptors, card_slot,
  canonical_pos,   (* Where each card is in the payload: class_members,    *)
                   (* the cards of each class in their order, inverted.    *)
  children,        (* The card on each card, or -1.                        *)
  class_sum, store,
  todo,            (* The changes of a move that are yet to be made.       *)
  waiting,         (* The cards that a loop has yet to look at.            *)
  dirty, next_dirty, changed,
  stage, iter,     (* At "idle" a move may come.                           *)
  frames           (* The moves that are not undone: what they changed.    *)

hash_and_store == <<class_sum, store>>
cascade == <<dirty, next_dirty, changed>>
cascade_vars ==
  <<mode, descriptors, frames, card_slot, canonical_pos, children, hash_and_store,
    todo, waiting, cascade, stage, iter>>

-----------------------------------------------------------------------------
(* static_class_structure: four suits, of which two have each colour.      *)
N == 4 * DeckRanks
Ids == 0..N - 1

ClassOf(id) ==
  CASE mode = "none"   -> id
    [] mode = "colour" -> 2 * (id % DeckRanks) + ((id \div DeckRanks) % 2)
    [] OTHER           -> id % DeckRanks

Classes == {ClassOf(id) : id \in Ids}
MembersOf(cls) == {id \in Ids : ClassOf(id) = cls}
ClassSize == CASE mode = "none" -> 1 [] mode = "colour" -> 2 [] OTHER -> 4
ClassStart(cls) == cls * ClassSize

(* sort_class: where a card is when its class is in order.                 *)
Before(x, y) == card_slot[x] < card_slot[y] \/ (card_slot[x] = card_slot[y] /\ x < y)
SortedPos(id) ==
  ClassStart(ClassOf(id)) + Cardinality({x \in MembersOf(ClassOf(id)) : Before(x, id)})
SortClasses(classes) ==
  canonical_pos' =
    [id \in Ids |-> IF ClassOf(id) \in classes THEN SortedPos(id) ELSE canonical_pos[id]]

(* A descriptor: lies on the card of a set of at most one, or in a place.  *)
Locative(kind, down) == [on |-> {}, kind |-> kind, down |-> down]
Predecessor(q, down) == [on |-> {q}, kind |-> 0, down |-> down]
IsPredecessor(d) == d.on # {}
Parent(d) == CHOOSE q \in d.on : TRUE

InCell == 0
Permanent == 1
InStock == 2
InWaste == 3
InHole == 5
InSpace == 6

(* recompute_all, before the slots: a card that is nowhere else is on a    *)
(* foundation.                                                             *)
OnPile(p, c) ==
  LET k == CHOOSE k \in DOMAIN p.cards : p.cards[k] = c
  IN IF k = 1 THEN Locative(InSpace, p.hidden > 0)
     ELSE Predecessor(p.cards[k - 1], k <= p.hidden)

PilesOf(b, c) == {i \in DOMAIN b.piles : c \in Range(b.piles[i].cards)}

Placed(b, c) ==
  IF PilesOf(b, c) # {} THEN OnPile(b.piles[CHOOSE i \in PilesOf(b, c) : TRUE], c)
  ELSE CASE c \in b.cells     -> Locative(InCell, FALSE)
         [] c \in b.stock     -> Locative(InStock, FALSE)
         [] c \in b.waste_top -> Locative(InWaste, FALSE)
         [] c \in b.hole_top  -> Locative(InHole, FALSE)
         [] OTHER             -> Locative(Permanent, FALSE)

BoardDescriptors(b) == [c \in Ids |-> Placed(b, c)]

Reflected(value, d) == IF d.down THEN 255 - value ELSE value

RawSlot(d) ==
  Reflected(IF IsPredecessor(d) THEN canonical_pos[Parent(d)] ELSE N + d.kind, d)

(* The first of these cards, in the order their class had last.            *)
FirstOf(cards) ==
  CHOOSE c \in cards : \A x \in cards : canonical_pos[c] <= canonical_pos[x]

(* collapsed_pos: the first member of a card's class that shares its slot. *)
CollapsedPos(q) ==
  canonical_pos[FirstOf({m \in MembersOf(ClassOf(q)) : card_slot[m] = card_slot[q]})]

SlotOn(d) == Reflected(CollapsedPos(Parent(d)), d)

ClassSum(slots, cls) ==
  [v \in {slots[m] : m \in MembersOf(cls)} |->
     Cardinality({m \in MembersOf(cls) : slots[m] = v})]

Stored(slots, cls) ==
  [j \in 1..ClassSize |->
     slots[CHOOSE m \in MembersOf(cls) : canonical_pos[m] = ClassStart(cls) + j - 1]]

ChildrenOf(ds) ==
  [q \in Ids |->
     IF \E c \in Ids : ds[c].on = {q} THEN CHOOSE c \in Ids : ds[c].on = {q} ELSE -1]

(* A slot is given to a card, and it is noted if that is news.             *)
Changed(c, new) == IF new = card_slot[c] THEN {} ELSE {c}
SetSlot(c, new) ==
  card_slot' = [card_slot EXCEPT ![c] = new] /\ changed' = changed \union Changed(c, new)

-----------------------------------------------------------------------------
(* recompute_from_descriptors.  Without symmetry every class is one card,  *)
(* and nothing has to settle.                                              *)
Written(slots) ==
  /\ class_sum' = [cls \in Classes |-> ClassSum(slots, cls)]
  /\ store' = [cls \in Classes |-> Stored(slots, cls)]
  /\ children' = ChildrenOf(descriptors)
  /\ stage' = "idle"

Recompute ==
  /\ stage = "recompute"
  /\ card_slot' = [c \in Ids |-> RawSlot(descriptors[c])]
  /\ IF mode = "none" THEN Written(card_slot')
     ELSE stage' = "sort" /\ UNCHANGED <<hash_and_store, children>>
  /\ UNCHANGED <<mode, descriptors, frames, canonical_pos, todo, waiting, cascade, iter>>

(* A round of the fixpoint: the classes are sorted, and then the slots of  *)
(* the cards that lie on others are looked at in turn.                     *)
Sort ==
  /\ stage = "sort" /\ iter < MaxIterations
  /\ SortClasses(Classes)
  /\ waiting' = {c \in Ids : IsPredecessor(descriptors[c])} /\ changed' = {}
  /\ stage' = "settle"
  /\ UNCHANGED <<mode, descriptors, frames, card_slot, children, hash_and_store, todo,
                 dirty, next_dirty, iter>>

SettleCard ==
  /\ stage = "settle" /\ waiting # {}
  /\ SetSlot(Min(waiting), SlotOn(descriptors[Min(waiting)]))
  /\ waiting' = waiting \ {Min(waiting)}
  /\ UNCHANGED <<mode, descriptors, frames, canonical_pos, children, hash_and_store, todo,
                 dirty, next_dirty, stage, iter>>

NextRound ==
  /\ stage = "settle" /\ waiting = {} /\ changed # {}
  /\ stage' = "sort" /\ iter' = iter + 1
  /\ UNCHANGED <<mode, descriptors, frames, card_slot, canonical_pos, children, hash_and_store,
                 todo, waiting, cascade>>

Write ==
  /\ stage = "settle" /\ waiting = {} /\ changed = {}
  /\ Written(card_slot) /\ iter' = 0
  /\ UNCHANGED <<mode, descriptors, frames, card_slot, canonical_pos, todo, waiting, cascade>>

-----------------------------------------------------------------------------
(* incremental_update and incremental_update_none: a change of the list.   *)
Change(c, d) == [id |-> c, is |-> d]

Described(c, d) ==
  LET was == descriptors[c]
      freed == IF IsPredecessor(was) THEN [children EXCEPT ![Parent(was)] = -1] ELSE children
  IN /\ descriptors' = [descriptors EXCEPT ![c] = d]
     /\ children' = IF IsPredecessor(d) THEN [freed EXCEPT ![Parent(d)] = c] ELSE freed
     /\ todo' = Tail(todo)

DescribeNone ==
  /\ stage = "update" /\ mode = "none"
  /\ LET c == Head(todo).id
         d == Head(todo).is
     IN /\ Described(c, d)
        /\ card_slot' = [card_slot EXCEPT ![c] = RawSlot(d)]
        /\ class_sum' = [class_sum EXCEPT ![c] = ClassSum(card_slot', c)]
        /\ store' = [store EXCEPT ![c] = Stored(card_slot', c)]
  /\ stage' = IF Tail(todo) = <<>> THEN "idle" ELSE stage
  /\ UNCHANGED <<mode, frames, canonical_pos, waiting, cascade, iter>>

(* Mutant: the new slot is that of the raw position.                       *)
NewSlotRaw(d) == RawSlot(d)
NewSlot(d) == IF IsPredecessor(d) THEN SlotOn(d) ELSE RawSlot(d)

Describe ==
  /\ stage = "update" /\ mode # "none"
  /\ LET c == Head(todo).id
         d == Head(todo).is
     IN /\ Described(c, d)
        /\ SetSlot(c, NewSlot(d))
        /\ dirty' = dirty \union {ClassOf(x) : x \in Changed(c, NewSlot(d))}
  /\ stage' = IF Tail(todo) = <<>> THEN "cascade" ELSE stage
  /\ UNCHANGED <<mode, frames, canonical_pos, hash_and_store, waiting, next_dirty, iter>>

(* A dirty class is sorted, and then the children of its members are       *)
(* looked at in turn.                                                      *)
CascadeClass ==
  /\ stage = "cascade" /\ waiting = {} /\ dirty # {} /\ iter < MaxIterations
  /\ SortClasses({Min(dirty)}) /\ dirty' = dirty \ {Min(dirty)}
  /\ waiting' = {m \in MembersOf(Min(dirty)) :
                children[m] # -1 /\ IsPredecessor(descriptors[children[m]])}
  /\ UNCHANGED <<mode, descriptors, frames, card_slot, children, hash_and_store, todo,
                 next_dirty, changed, stage, iter>>

(* Mutant: a child is moved by where its parent is, not by where its like  *)
(* are.                                                                    *)
ChildSlotOfPosition(m) == RawSlot(descriptors[children[m]])
ChildSlot(m) == SlotOn(descriptors[children[m]])

MoveChild ==
  /\ stage = "cascade" /\ waiting # {}
  /\ LET m == FirstOf(waiting)
     IN /\ SetSlot(children[m], ChildSlot(m)) /\ waiting' = waiting \ {m}
        /\ next_dirty' =
             next_dirty \union {ClassOf(x) : x \in Changed(children[m], ChildSlot(m))}
  /\ UNCHANGED <<mode, descriptors, frames, canonical_pos, children, hash_and_store, todo,
                 dirty, stage, iter>>

CascadeOn ==
  /\ stage = "cascade" /\ waiting = {} /\ dirty = {} /\ next_dirty # {}
  /\ dirty' = next_dirty /\ next_dirty' = {} /\ iter' = iter + 1
  /\ UNCHANGED <<mode, descriptors, frames, card_slot, canonical_pos, children, hash_and_store,
                 todo, waiting, changed, stage>>

(* The payload and the sums of the classes of the cards that changed.      *)
WriteBack ==
  /\ stage = "cascade" /\ waiting = {} /\ dirty = {} /\ next_dirty = {}
  /\ LET affected == {ClassOf(c) : c \in changed}
     IN /\ class_sum' = [cls \in Classes |-> IF cls \in affected
                           THEN ClassSum(card_slot, cls) ELSE class_sum[cls]]
        /\ store' = [cls \in Classes |-> IF cls \in affected
                       THEN Stored(card_slot, cls) ELSE store[cls]]
  /\ changed' = {} /\ iter' = 0 /\ stage' = "idle"
  /\ UNCHANGED <<mode, descriptors, frames, card_slot, canonical_pos, children, todo, waiting,
                 dirty, next_dirty>>

-----------------------------------------------------------------------------
(* The moves of a game, by what they change.                               *)
InTableau(d) == IsPredecessor(d) \/ d.kind = InSpace
Tops == {c \in Ids : InTableau(descriptors[c]) /\ children[c] = -1}

(* A card with those on it.                                                *)
Group(c) ==
  LET upTo[n \in 0..N] ==
        IF n = 0 THEN {}
        ELSE {children[x] : x \in {y \in {c} \union upTo[n - 1] : children[y] # -1}}
  IN {c} \union upTo[N]

(* A group goes onto a pile or to a space, a card of its own also to a     *)
(* cell, to a foundation, or to the hole.  A card it uncovers is turned up. *)
Places(c) ==
  {Predecessor(t, FALSE) : t \in Tops \ Group(c)} \union {Locative(InSpace, FALSE)}
    \union (IF children[c] = -1
            THEN {Locative(k, FALSE) : k \in {InCell, Permanent, InHole}} ELSE {})

In(kind) == {c \in Ids : descriptors[c] = Locative(kind, FALSE)}

Relocated(cards, kind) ==
  IF cards = {} THEN <<>> ELSE <<Change(CHOOSE c \in cards : TRUE, Locative(kind, FALSE))>>

Covered(d) == IF d.kind = InHole THEN Relocated(In(InHole), Permanent) ELSE <<>>

TurnedUp(d) ==
  IF ~ IsPredecessor(d) \/ ~ descriptors[Parent(d)].down THEN <<>>
  ELSE <<Change(Parent(d), [descriptors[Parent(d)] EXCEPT !.down = FALSE])>>

Free(c) ==
  ~ descriptors[c].down /\ (InTableau(descriptors[c]) \/ descriptors[c].kind = InCell)

FromTableau ==
  UNION {{<<Change(c, d)>> \o Covered(d) \o TurnedUp(descriptors[c]) :
            d \in Places(c) \ {descriptors[c]}} :
         c \in {x \in Ids : Free(x)}}

(* A card of the stock or the waste is played: the top of the waste stays, *)
(* or another card of the stock is the top then, or none.                  *)
Exposing(c, top) ==
  {<<Change(c, d)>> \o Relocated(In(InWaste) \ ({c} \union top), InStock)
     \o Relocated(top \ In(InWaste), InWaste) \o Covered(d) : d \in Places(c)}

FromStock ==
  LET drawn == In(InStock) \union In(InWaste)
  IN UNION {UNION {Exposing(c, top) : top \in {{}} \union {{w} : w \in drawn \ {c}}} : c \in drawn}

Undoes(changes) ==
  [k \in DOMAIN changes |-> Change(changes[k].id, descriptors[changes[k].id])]

Update(changes) ==
  /\ todo' = changes /\ stage' = "update"
  /\ UNCHANGED <<mode, descriptors, card_slot, canonical_pos, children, hash_and_store, waiting,
                 cascade, iter>>

Move ==
  /\ stage = "idle" /\ Len(frames) < MaxDepth
  /\ \E changes \in FromTableau \union FromStock :
       /\ Update(changes)
       /\ frames' = Append(frames, [changes |-> Undoes(changes), all |-> <<>>])

(* A deal to all piles, and its undo, are worked out from scratch.         *)
Overridden(ds, new) == [c \in Ids |-> IF c \in DOMAIN new THEN new[c] ELSE ds[c]]

Reset(new) ==
  /\ descriptors' = Overridden(descriptors, new)
  /\ stage' = "recompute"
  /\ UNCHANGED <<mode, card_slot, canonical_pos, children, hash_and_store, todo, waiting,
                 cascade, iter>>

DealToAll ==
  /\ stage = "idle" /\ Len(frames) < MaxDepth /\ Tops # {}
  /\ \E dealt \in {f \in [Tops -> In(InStock)] : IsInjective(f)} :
       LET cards == {dealt[t] : t \in Tops}
       IN /\ Reset([c \in cards |-> Predecessor(CHOOSE t \in Tops : dealt[t] = c, FALSE)])
          /\ frames' =
               Append(frames, [changes |-> <<>>, all |-> [c \in cards |-> descriptors[c]]])

Undo ==
  /\ stage = "idle" /\ frames # <<>>
  /\ LET last == frames[Len(frames)]
     IN IF last.changes = <<>> THEN Reset(last.all) ELSE Update(last.changes)
  /\ frames' = SubSeq(frames, 1, Len(frames) - 1)

CascadeInit ==
  /\ \E b \in Boards : mode = b.mode /\ descriptors = BoardDescriptors(b)
  /\ canonical_pos =
       [id \in Ids |->
          ClassStart(ClassOf(id)) + Cardinality({x \in MembersOf(ClassOf(id)) : x < id})]
  /\ card_slot = [c \in Ids |-> 0] /\ children = [c \in Ids |-> -1]
  /\ class_sum = [cls \in Classes |-> <<>>] /\ store = [cls \in Classes |-> <<>>]
  /\ todo = <<>> /\ waiting = {} /\ dirty = {} /\ next_dirty = {} /\ changed = {}
  /\ stage = "recompute" /\ iter = 0 /\ frames = <<>>

CascadeNext ==
  \/ Recompute \/ Sort \/ SettleCard \/ NextRound \/ Write
  \/ DescribeNone \/ Describe \/ CascadeClass \/ MoveChild \/ CascadeOn \/ WriteBack
  \/ Move \/ DealToAll \/ Undo

CascadeSpec == CascadeInit /\ [][CascadeNext]_cascade_vars

-----------------------------------------------------------------------------
(* verify_against_scratch: between moves every slot is the one that the    *)
(* descriptors and the other slots give, a card counting before those of   *)
(* its class that have a greater slot; payload and sums are of these       *)
(* slots, and children is the inverse of what lies on what.                *)
Position(q) ==
  ClassStart(ClassOf(q))
    + Cardinality({x \in MembersOf(ClassOf(q)) : card_slot[x] < card_slot[q]})

SlotsSettled ==
  \A c \in Ids :
    LET d == descriptors[c]
    IN card_slot[c] = Reflected(IF IsPredecessor(d) THEN Position(Parent(d)) ELSE N + d.kind, d)

PayloadIsOfSlots ==
  \A cls \in Classes :
    /\ \A j \in 1..ClassSize - 1 : store[cls][j] <= store[cls][j + 1]
    /\ class_sum[cls] = ClassSum(card_slot, cls)
    /\ \A v \in DOMAIN class_sum[cls] :
         Cardinality({j \in 1..ClassSize : store[cls][j] = v}) = class_sum[cls][v]

IncrementalIsScratch ==
  stage = "idle" => SlotsSettled /\ PayloadIsOfSlots /\ children = ChildrenOf(descriptors)
=============================================================================
