---------------------------- MODULE CompactState ----------------------------
(***************************************************************************)
(* flat_descriptor_engine over a compact_state: 32 bytes, with a nibble    *)
(* for each foundation and each card, that are compared as they are and    *)
(* copied to the slots of the cache.                                       *)
(***************************************************************************)
EXTENDS Integers

CONSTANTS
  Cards, Suits, Ranks, Pointers, Values, Rules,
                   (* As in HashDescriptorStore.                           *)
  Depths           (* Depths that are set.                                 *)

(* Decks of one kind: use_new_cache.  STARTING is written for every card.  *)
ASSUME FieldsAssumption ==
  /\ Cards \subseteq 0..51 /\ Suits \subseteq 0..3 /\ Ranks \subseteq 0..13
  /\ Pointers \subseteq 0..52 /\ Values \subseteq 0..9
  /\ 0 \in Cards /\ 0 \in Ranks /\ 0 \in Pointers /\ 0 \in Values
  /\ Rules \subseteq [hole : BOOLEAN, waste : BOOLEAN]

UINT16_MAX == 65535
uint16_t == 0..UINT16_MAX

ASSUME DepthsAssumption == Depths \subseteq uint16_t /\ 0 \in Depths

VARIABLES
  rules,           (* Of the game, fixed.                                  *)
  data, hash_value,
  slot,            (* The entry of a cluster that was written last.        *)
  written          (* History: the fields that were written to it.         *)

vars == <<rules, data, hash_value, slot, written>>

Byte == 0..255
Place == 0..31
Bytes == [Place -> Byte]

-----------------------------------------------------------------------------
(* Half a byte: the low one is at an even place.                           *)
Nibble(byte, place) == IF place % 2 = 0 THEN byte % 16 ELSE byte \div 16

(* Mutant: the other half is cleared.                                      *)
WithNibbleAlone(byte, place, v) == IF place % 2 = 0 THEN v ELSE 16 * v

WithNibble(byte, place, v) ==
  IF place % 2 = 0 THEN 16 * (byte \div 16) + v ELSE (byte % 16) + 16 * v

clear == [i \in Place |-> 0]

set_occupied(d, occ) == [d EXCEPT ![0] = IF occ THEN 1 ELSE 0]
is_occupied(d) == d[0] # 0

set_depth(d, depth) == [d EXCEPT ![1] = depth % 256, ![2] = (depth \div 256) % 256]
get_depth(d) == d[1] + 256 * d[2]

(* Values that do not fit are not written.                                 *)
set_foundation(d, s, r) ==
  IF s >= 4 \/ r > 13 THEN d ELSE [d EXCEPT ![3 + s \div 2] = WithNibble(@, s, r)]
get_foundation(d, s) == IF s >= 4 THEN 0 ELSE Nibble(d[3 + s \div 2], s)

set_hole_top(d, c) ==
  IF c >= 52 THEN d ELSE [d EXCEPT ![3] = 64 * (@ \div 64) + c]
get_hole_top(d) == d[3] % 64

set_waste_ptr(d, p) == IF p >= 64 THEN d ELSE [d EXCEPT ![5] = p]
get_waste_ptr(d) == d[5]

set_descriptor(d, c, v) ==
  IF c >= 52 \/ v > 15 THEN d ELSE [d EXCEPT ![6 + c \div 2] = WithNibble(@, c, v)]
get_descriptor(d, c) == IF c >= 52 THEN 0 ELSE Nibble(d[6 + c \div 2], c)

(* Mutant: the depth is compared as well.                                  *)
matches_depth(a, b) == \A i \in 1..31 : a[i] = b[i]

matches(a, b) == \A i \in 3..31 : a[i] = b[i]

-----------------------------------------------------------------------------
(* The fields, as a hash_descriptor_store has them.                        *)
Desc == [c \in Cards |-> get_descriptor(data, c)]
Foundations == [s \in Suits |-> IF rules.hole THEN 0 ELSE get_foundation(data, s)]
HoleTop == IF rules.hole THEN get_hole_top(data) ELSE 0

Store == INSTANCE HashDescriptorStore
           WITH desc <- Desc, foundations <- Foundations,
                waste_ptr <- get_waste_ptr(data), hole_top <- HoleTop

Fields == <<Desc, Foundations, get_waste_ptr(data), HoleTop>>

-----------------------------------------------------------------------------
update_card(c, v) ==
  /\ data' = set_descriptor(data, c, v)
  /\ hash_value' = Store!Rekeyed(hash_value, Store!card_key(c, get_descriptor(data, c)),
                                 Store!card_key(c, v))
  /\ UNCHANGED <<rules, slot, written>>

update_foundation(s, r) ==
  /\ ~ rules.hole
  /\ data' = set_foundation(data, s, r)
  /\ hash_value' = Store!Rekeyed(hash_value, Store!foundation_key(s, get_foundation(data, s)),
                                 Store!foundation_key(s, r))
  /\ UNCHANGED <<rules, slot, written>>

update_waste_ptr(p) ==
  /\ rules.waste
  /\ data' = set_waste_ptr(data, p)
  /\ hash_value' = Store!Rekeyed(hash_value, Store!waste_key(get_waste_ptr(data)),
                                 Store!waste_key(p))
  /\ UNCHANGED <<rules, slot, written>>

update_hole_top(c) ==
  /\ rules.hole
  /\ data' = set_hole_top(data, c)
  /\ hash_value' = Store!Rekeyed(hash_value, Store!hole_top_key(get_hole_top(data)),
                                 Store!hole_top_key(c))
  /\ UNCHANGED <<rules, slot, written>>

(* set_payload_depth, before each insertion.                               *)
set_payload_depth(depth) ==
  /\ data' = set_depth(data, depth)
  /\ UNCHANGED <<rules, hash_value, slot, written>>

(* write_slot of CompactStatePolicy.                                       *)
write_slot ==
  /\ slot' = set_occupied(data, TRUE)
  /\ written' = [fields |-> Fields, depth |-> get_depth(data)]
  /\ UNCHANGED <<rules, data, hash_value>>

(* init, before the cards of the tableau and the cells are updated.        *)
Init ==
  /\ rules \in Rules
  /\ \E top \in Ranks, p \in Pointers, c \in Cards :
      LET tops == [s \in 0..3 |-> IF s \in Suits THEN top ELSE 0]
          WithTops(d) == set_foundation(set_foundation(set_foundation(set_foundation(
                           d, 0, tops[0]), 1, tops[1]), 2, tops[2]), 3, tops[3])
          headed == IF rules.hole THEN set_hole_top(clear, c) ELSE WithTops(clear)
      IN /\ data = IF rules.waste THEN set_waste_ptr(headed, p) ELSE headed
         /\ hash_value = Store!HashOf(rules, Desc, Foundations, get_waste_ptr(data), HoleTop)
         /\ slot = set_occupied(data, TRUE)
         /\ written = [fields |-> Fields, depth |-> get_depth(data)]

Next ==
  \/ \E c \in Cards, v \in Values : update_card(c, v)
  \/ \E s \in Suits, r \in Ranks : update_foundation(s, r)
  \/ \E p \in Pointers : update_waste_ptr(p)
  \/ \E c \in Cards : update_hole_top(c)
  \/ \E depth \in Depths : set_payload_depth(depth)
  \/ write_slot

Spec == Init /\ [][Next]_vars

-----------------------------------------------------------------------------
TypeOK == data \in Bytes /\ slot \in Bytes /\ get_depth(data) \in Depths

(* With two fields to a byte, a write to one never shows in another: the   *)
(* engine over bytes does what it does over a field for each.              *)
IsHashDescriptorStore == Store!Spec

(* A slot matches the payload of the state just when the fields it was     *)
(* written with are those of now, whatever the depths, and remembers its   *)
(* own depth.                                                              *)
SlotMatchesItsState ==
  /\ is_occupied(slot)
  /\ matches(slot, data) <=> written.fields = Fields
  /\ get_depth(slot) = written.depth

(* Every field keeps its type, and a slot of the cache matches the payload *)
(* it was written from and no other: the depth is none of it.  The hash is *)
(* that of the payload.                                                    *)
SlotsAreRight == TypeOK /\ SlotMatchesItsState /\ Store!HashIsRecomputed
=============================================================================
