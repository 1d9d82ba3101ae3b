------------------------ MODULE HashDescriptorStore ------------------------
(***************************************************************************)
(* flat_descriptor_engine over a hash_descriptor_store: every field has a  *)
(* byte of its own, and the hash is kept by exclusive or with the key of   *)
(* the old value and the key of the new.  A hash is the set of the keys    *)
(* that are in it; a random number is its index in the tables.             *)
(***************************************************************************)
EXTENDS Integers, FiniteSetsExt

CONSTANTS
  Cards,           (* Card ids.                                            *)
  Suits,
  Ranks,           (* 0 for an empty foundation.                           *)
  Pointers,        (* Effective waste pointers.                            *)
  Values,          (* Descriptors of a card; STARTING is 0.                *)
  Rules            (* hole: the game has a hole, and no foundations.       *)
                   (* waste: its stock is dealt to a waste.                *)

VARIABLES
  rules,
  desc, foundations, waste_ptr, hole_top,   (* The store.                  *)
  hash_value

vars == <<rules, desc, foundations, waste_ptr, hole_top, hash_value>>

STARTING == 0

-----------------------------------------------------------------------------
(* The keys of zobrist_hash; an index past its table has none.             *)
card_key(c, d) == IF c >= 52 \/ d >= 16 THEN {} ELSE {<<"card", c, d>>}
foundation_key(s, r) == IF s >= 4 \/ r >= 14 THEN {} ELSE {<<"foundation", s, r>>}
waste_key(p) == IF p >= 64 THEN {} ELSE {<<"waste", p, 0>>}
hole_top_key(c) == IF c >= 52 THEN {} ELSE {<<"hole", c, 0>>}

Rekeyed(hash, old, new) == SymDiff(SymDiff(hash, old), new)

(* recompute_hash, of the fields that are given.                           *)
HashOf(r, cards, tops, pointer, top) ==
  (UNION {card_key(c, cards[c]) : c \in Cards})
    \union (IF r.hole THEN hole_top_key(top)
            ELSE UNION {foundation_key(s, tops[s]) : s \in Suits})
    \union (IF r.waste THEN waste_key(pointer) ELSE {})

-----------------------------------------------------------------------------
update_card(c, d) ==
  /\ desc' = [desc EXCEPT ![c] = d]
  /\ hash_value' = Rekeyed(hash_value, card_key(c, desc[c]), card_key(c, d))
  /\ UNCHANGED <<rules, foundations, waste_ptr, hole_top>>

update_foundation(s, r) ==
  /\ ~ rules.hole
  /\ foundations' = [foundations EXCEPT ![s] = r]
  /\ hash_value' = Rekeyed(hash_value, foundation_key(s, foundations[s]), foundation_key(s, r))
  /\ UNCHANGED <<rules, desc, waste_ptr, hole_top>>

update_waste_ptr(p) ==
  /\ rules.waste
  /\ waste_ptr' = p
  /\ hash_value' = Rekeyed(hash_value, waste_key(waste_ptr), waste_key(p))
  /\ UNCHANGED <<rules, desc, foundations, hole_top>>

update_hole_top(c) ==
  /\ rules.hole
  /\ hole_top' = c
  /\ hash_value' = Rekeyed(hash_value, hole_top_key(hole_top), hole_top_key(c))
  /\ UNCHANGED <<rules, desc, foundations, waste_ptr>>

(* init, before the cards of the tableau and the cells are updated.        *)
Init ==
  /\ rules \in Rules
  /\ desc = [c \in Cards |-> STARTING]
  /\ foundations \in [Suits -> IF rules.hole THEN {0} ELSE Ranks]
  /\ waste_ptr \in IF rules.waste THEN Pointers ELSE {0}
  /\ hole_top \in IF rules.hole THEN Cards ELSE {0}
  /\ hash_value = HashOf(rules, desc, foundations, waste_ptr, hole_top)

Next ==
  \/ \E c \in Cards, d \in Values : update_card(c, d)
  \/ \E s \in Suits, r \in Ranks : update_foundation(s, r)
  \/ \E p \in Pointers : update_waste_ptr(p)
  \/ \E c \in Cards : update_hole_top(c)

Spec == Init /\ [][Next]_vars

-----------------------------------------------------------------------------
TypeOK ==
  /\ rules \in Rules /\ desc \in [Cards -> Values] /\ foundations \in [Suits -> Ranks]
  /\ waste_ptr \in Pointers /\ hole_top \in Cards

(* recompute_hash: however the fields came to be what they are, in any     *)
(* order and back again, the hash is that of the fields.                   *)
HashIsRecomputed ==
  hash_value = HashOf(rules, desc, foundations, waste_ptr, hole_top)
=============================================================================
