----------------------------- MODULE FlatCache -----------------------------
(***************************************************************************)
(* generic_flat_cache<Policy>: an open-addressed table of two-slot         *)
(* buckets that the solver fills for as long as it runs.  Nothing it holds *)
(* is protected but by the replacement policy, so what it guarantees to    *)
(* the search is the subject of the properties.                            *)
(***************************************************************************)
EXTENDS Naturals, FiniteSets

CONSTANTS
  Policies,       (* The policies the template is instantiated with.       *)
  Hash(_),        (* The Zobrist hash of a canonical state.                *)
  HashSpace,      (* Hashes are below it (2^64).                           *)
  MaxEntries,     (* The capacity asked for.                               *)
  Key,            (* Canonical states: payloads of the exact policies.     *)
  Depth,          (* The depths a payload can carry.                       *)
  MaxInserts      (* Bound: states inserted between two calls of clear.    *)

ASSUME CacheAssumption ==
  /\ Policies \subseteq {"FLAT", "HASH_ONLY", "PREDECESSOR", "MULTIPLICITY"}
  /\ HashSpace \in Nat \ {0, 1} /\ MaxEntries \in Nat
  /\ \A k \in Key : Hash(k) \in 0..(HashSpace - 1)
  /\ Depth \subseteq Nat /\ 0 \in Depth

VARIABLES
  policy,         (* The policy of this cache, fixed from the start.       *)
  clusters, occupied_count, eviction_count,
  inserted,       (* History: the keys inserted since the last clear.      *)
  stored          (* History: the new ones with the depths they came with. *)

cache_vars == <<policy, clusters, occupied_count, eviction_count, inserted, stored>>

INSTANCE FlatCluster WITH Policy <- policy

Cluster == 0..(NumClusters - 1)

Contains(k) ==
  ClusterContains(clusters[ClusterIndex(k)], PayloadOf(k), HashOf(k))

Empty == [i \in Cluster |-> EmptyCluster(0)]

-----------------------------------------------------------------------------
CacheInit ==
  /\ policy \in Policies
  /\ clusters = Empty
  /\ occupied_count = 0 /\ eviction_count = 0
  /\ inserted = {} /\ stored = {}

Insert(k, d) ==
  LET i == ClusterIndex(k)
      r == ClusterInsert(clusters[i], PayloadOf(k), HashOf(k), d)
  IN /\ occupied_count + eviction_count < MaxInserts
     /\ clusters' = [clusters EXCEPT ![i] = r.cluster]
     /\ occupied_count' = occupied_count + r.occupied
     /\ eviction_count' = eviction_count + r.evicted
     /\ inserted' = inserted \union {k}
     /\ stored' = IF r.new THEN stored \union {<<k, d>>} ELSE stored
     /\ UNCHANGED policy

Clear ==
  /\ clusters' = Empty
  /\ occupied_count' = 0 /\ eviction_count' = 0
  /\ inserted' = {} /\ stored' = {}
  /\ UNCHANGED policy

CacheNext == (\E k \in Key, d \in Depth : Insert(k, d)) \/ Clear

CacheSpec == CacheInit /\ [][CacheNext]_cache_vars

-----------------------------------------------------------------------------
Slot(payloads) ==
  [occupied : BOOLEAN, payload : payloads, depth : Depth]

CacheTypeOK ==
  LET slot == Slot({0} \union {PayloadOf(k) : k \in Key})
  IN /\ policy \in Policies
     /\ clusters \in [Cluster -> [slot0 : slot, slot1 : slot,
                                  guard : 0..HashSpace]]
     /\ occupied_count \in Nat /\ eviction_count \in Nat
     /\ inserted \in SUBSET Key
     /\ stored \in SUBSET (Key \X Depth)

(* The cache answers "seen" only for the payload of a state it was given:  *)
(* no slot, moved or overwritten, and no stale guard makes up a state.     *)
NoFalsePositive ==
  \A k \in Key : Contains(k) => \E j \in inserted : PayloadOf(j) = PayloadOf(k)

(* A bucket never holds one state twice, even when its guard hides the     *)
(* copy in the second slot from the search for it.                         *)
SlotsDiffer ==
  \A i \in Cluster :
    clusters[i].slot0.occupied /\ clusters[i].slot1.occupied =>
      clusters[i].slot0.payload # clusters[i].slot1.payload

(* Under a depth-preferred policy the first slot of a bucket holds the     *)
(* shallowest state that the bucket was given since the last clear.        *)
ShallowestKept ==
  DepthPreferred(policy) =>
    \A s \in stored :
      /\ clusters[ClusterIndex(s[1])].slot0.occupied
      /\ clusters[ClusterIndex(s[1])].slot0.depth <= s[2]

(* The slots in use.                                                       *)
OccupiedSlots ==
  {p \in Cluster \X {0, 1} :
     IF p[2] = 0 THEN clusters[p[1]].slot0.occupied
                 ELSE clusters[p[1]].slot1.occupied}

(* size() is the number of slots in use, through cascades and evictions.   *)
SizeIsRight == occupied_count = Cardinality(OccupiedSlots)

(* Every slot is what the policy promises: typed, of two states that       *)
(* differ, the shallowest first, and counted.                              *)
BucketsAreRight == CacheTypeOK /\ SlotsDiffer /\ ShallowestKept /\ SizeIsRight

(* Without a guard, and while nothing was evicted, every state given is    *)
(* found again, hash 0 included: the count of evictions is honest.         *)
NothingForgotten ==
  ~ HasHashGuard(policy) /\ eviction_count = 0 => \A k \in inserted : Contains(k)

(* A state just given is found, whatever the cascade left in the guard.    *)
InsertedIsFound ==
  [][\A k \in Key, d \in Depth : Insert(k, d) => Contains(k)']_cache_vars
=============================================================================
