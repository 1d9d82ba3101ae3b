---------------------------- MODULE FlatCluster ----------------------------
(***************************************************************************)
(* The two-slot bucket of generic_flat_cache and its replacement policies. *)
(* A slot holds the payload of a state and the depth it was searched at;   *)
(* guard is the field other_hash of the first slot, which the guarded      *)
(* policies compare before they look at the second slot.  The guard of the *)
(* second slot is written and never read, and is left out.                 *)
(***************************************************************************)
LOCAL INSTANCE Naturals

CONSTANTS
  Policy,         (* FLAT, HASH_ONLY, PREDECESSOR or MULTIPLICITY.         *)
  Hash(_),        (* The Zobrist hash of a canonical state.                *)
  HashSpace,      (* Hashes are below it (2^64).                           *)
  MaxEntries      (* The capacity asked for.                               *)

NumClusters == IF MaxEntries \div 2 > 1 THEN MaxEntries \div 2 ELSE 1

(* Mutant: 0 is kept as it is.                                             *)
NotNormalised(h) == h

(* normalise: hash 0 stands for an empty slot of the hash-only cache.      *)
Normalised(h) == IF h = 0 THEN 1 ELSE h

HashOf(k) == IF Policy = "HASH_ONLY" THEN Normalised(Hash(k)) ELSE Hash(k)
PayloadOf(k) == IF Policy = "HASH_ONLY" THEN HashOf(k) ELSE k

(* cluster_index: the upper half of the product of hash and size.          *)
ClusterIndex(k) == (HashOf(k) * NumClusters) \div HashSpace

-----------------------------------------------------------------------------
(* HAS_HASH_GUARD and insert_strategy of the policy                        *)
HasHashGuard(policy) == policy \in {"PREDECESSOR", "MULTIPLICITY"}
DepthPreferred(policy) == policy # "HASH_ONLY"

(* is_occupied of a slot just written: the hash-only cache has no flag, a  *)
(* slot is empty while it holds 0.                                         *)
Entry(payload, depth) ==
  [occupied |-> Policy = "HASH_ONLY" => payload # 0,
   payload |-> payload, depth |-> depth]

EmptyCluster(payload) ==
  LET free == [occupied |-> FALSE, payload |-> payload, depth |-> 0]
  IN [slot0 |-> free, slot1 |-> free, guard |-> 0]

Matches(slot, payload) == slot.occupied /\ slot.payload = payload

(* Mutant: the guard alone is trusted.                                     *)
GuardAnswers(cl, payload, hash) ==
  IF HasHashGuard(Policy) THEN cl.slot1.occupied /\ cl.guard = hash
                  ELSE Matches(cl.slot1, payload)

(* check_slot1: with a guard, the second slot answers only for the guard's *)
(* hash.                                                                   *)
Slot1Answers(cl, payload, hash) ==
  /\ Matches(cl.slot1, payload)
  /\ HasHashGuard(Policy) => cl.guard = hash

ClusterContains(cl, payload, hash) ==
  Matches(cl.slot0, payload) \/ Slot1Answers(cl, payload, hash)

(* The guard of the multiplicity policy lies within the payload that       *)
(* write_slot copies, where it is zero.                                    *)
WriteSlot0(cl, entry) ==
  [cl EXCEPT !.slot0 = entry,
             !.guard = IF Policy = "MULTIPLICITY" THEN 0 ELSE @]

(* Mutant: the guard is not set.                                           *)
WriteSlot1Unguarded(cl, entry, hash) == [cl EXCEPT !.slot1 = entry]

(* set_slot1_guard keeps the hash of what goes to the second slot.         *)
WriteSlot1(cl, entry, hash) ==
  [cl EXCEPT !.slot1 = entry,
             !.guard = IF HasHashGuard(Policy) THEN hash ELSE @]

(* The first slot moves to the second; the guard does not follow it.       *)
Cascade(cl, entry) == WriteSlot0([cl EXCEPT !.slot1 = cl.slot0], entry)

(* Mutant: the deeper state gets the first slot.                           *)
ReplaceShallower(cl, entry, hash) ==
  CASE ~ cl.slot0.occupied -> [WriteSlot0(cl, entry) EXCEPT !.guard = 0]
    [] cl.slot0.occupied /\ DepthPreferred(Policy) /\ entry.depth >= cl.slot0.depth ->
         Cascade(cl, entry)
    [] OTHER -> WriteSlot1(cl, entry, hash)

(* do_replacement                                                          *)
Replace(cl, entry, hash) ==
  CASE ~ cl.slot0.occupied -> [WriteSlot0(cl, entry) EXCEPT !.guard = 0]
    [] cl.slot0.occupied /\ DepthPreferred(Policy) /\ entry.depth <= cl.slot0.depth ->
         Cascade(cl, entry)
    [] OTHER -> WriteSlot1(cl, entry, hash)

(* An entry is lost when both slots are taken.                             *)
Evicts(cl) == cl.slot0.occupied /\ cl.slot1.occupied

ClusterInsert(cl, payload, hash, depth) ==
  IF ClusterContains(cl, payload, hash)
  THEN [cluster |-> cl, new |-> FALSE, occupied |-> 0, evicted |-> 0]
  ELSE [cluster  |-> Replace(cl, Entry(payload, depth), hash),
        new      |-> TRUE,
        occupied |-> IF Evicts(cl) THEN 0 ELSE 1,
        evicted  |-> IF Evicts(cl) THEN 1 ELSE 0]
=============================================================================
