---------------------------- MODULE SolverCache ----------------------------
(***************************************************************************)
(* The cache that solver_impl<Policy> searches with: lru_cache,            *)
(* generic_flat_cache or bitmap_cache, whichever Policy::cache_type is.    *)
(* A state enters it as its key (cached_game_state, payload or hash).      *)
(***************************************************************************)
EXTENDS FlatCluster
LOCAL INSTANCE Naturals
LOCAL INSTANCE Sequences

(* computes_hash: all but the LRU cache know states by their hash.         *)
ComputesHash == Policy # "LRU"

-----------------------------------------------------------------------------
(* lru_cache: a list of cached states, most recent first, with at most max *)
(* of them kept.  An item is live while its state is on the search path; a *)
(* live item is never evicted.  The hashed index of the container is the   *)
(* set of the keys of the list, and an iterator to an item is its key.     *)

(* Mutant: an item is never live.                                          *)
DeadItem(key, live) == [key |-> key, live |-> FALSE]

LRUItem(key, live) == [key |-> key, live |-> live]

EmptyLRU(max) == [items |-> <<>>, max |-> max, removed |-> 0]

LRUSize(c) == Len(c.items)

LRUContains(c, key) == \E i \in DOMAIN c.items : c.items[i].key = key

LRULive(c) == {c.items[i].key : i \in {j \in DOMAIN c.items : c.items[j].live}}

(* relocate(begin, it)                                                     *)
MoveToFront(items, key) ==
  LET i == CHOOSE i \in DOMAIN items : items[i].key = key
  IN <<items[i]>> \o SubSeq(items, 1, i - 1) \o SubSeq(items, i + 1, Len(items))

(* The least recently used item that is not live, the one to go.           *)
Victim(items) ==
  CHOOSE i \in DOMAIN items :
    /\ ~ items[i].live
    /\ \A j \in DOMAIN items : ~ items[j].live => j <= i

(* The live items behind the victim go to the front one by one, each in    *)
(* front of the one before it, and the victim is popped.                   *)
EvictOne(items) ==
  LET v == Victim(items)
  IN SubSeq(items, v + 1, Len(items)) \o SubSeq(items, 1, v - 1)

(* insert_with_iterator: full when it throws, which leaves the new item in *)
(* the list.                                                               *)
LRUInsert(c, key) ==
  LET pushed == <<LRUItem(key, TRUE)>> \o c.items
  IN CASE LRUContains(c, key) ->
            [cache |-> [c EXCEPT !.items = MoveToFront(@, key)],
             new |-> FALSE, full |-> FALSE]
       [] ~ LRUContains(c, key) /\ Len(pushed) <= c.max ->
            [cache |-> [c EXCEPT !.items = pushed],
             new |-> TRUE, full |-> FALSE]
       [] ~ LRUContains(c, key) /\ Len(pushed) > c.max
            /\ \A i \in DOMAIN pushed : pushed[i].live ->
            [cache |-> [c EXCEPT !.items = pushed],
             new |-> TRUE, full |-> TRUE]
       [] OTHER ->
            [cache |-> [c EXCEPT !.items = EvictOne(pushed),
                                 !.removed = @ + 1],
             new |-> TRUE, full |-> FALSE]

SetNonLive(c, keys) ==
  [c EXCEPT !.items =
     [i \in DOMAIN c.items |->
        IF c.items[i].key \in keys THEN LRUItem(c.items[i].key, FALSE)
                                   ELSE c.items[i]]]

-----------------------------------------------------------------------------
(* bitmap_cache: one bit for each hash, modulo a power of two.             *)
NumBits ==
  IF MaxEntries = 0 THEN 0
  ELSE LET powers == {2 ^ i : i \in 0..MaxEntries}
       IN CHOOSE b \in powers : b <= MaxEntries /\ MaxEntries < 2 * b

BitOf(key) == Hash(key) % NumBits

BitmapContains(c, key) == NumBits # 0 /\ BitOf(key) \in c.bits

(* Mutant: the bit is counted whether it was set before or not.            *)
BitmapInsertAlways(c, key) ==
  [cache |-> [bits |-> c.bits \union {BitOf(key)},
              insert_count |-> c.insert_count + 1],
   new   |-> ~ BitmapContains(c, key),
   full  |-> FALSE]

(* probe_and_insert; a table of no bits takes every state for a new one.   *)
BitmapInsert(c, key) ==
  [cache |-> IF NumBits = 0 \/ BitmapContains(c, key) THEN c
             ELSE [bits |-> c.bits \union {BitOf(key)},
                   insert_count |-> c.insert_count + 1],
   new   |-> ~ BitmapContains(c, key),
   full  |-> FALSE]

EmptyBitmap == [bits |-> {}, insert_count |-> 0]
BitmapSize(c) == c.insert_count

-----------------------------------------------------------------------------
(* generic_flat_cache::insert_t                                            *)
FlatInsert(c, key, depth) ==
  LET i == ClusterIndex(key)
      r == ClusterInsert(c.clusters[i], PayloadOf(key), HashOf(key), depth)
  IN [cache |-> [clusters       |-> [c.clusters EXCEPT ![i] = r.cluster],
                 occupied_count |-> c.occupied_count + r.occupied,
                 eviction_count |-> c.eviction_count + r.evicted],
      new   |-> r.new,
      full  |-> FALSE]

FlatContains(c, key) ==
  ClusterContains(c.clusters[ClusterIndex(key)], PayloadOf(key), HashOf(key))

-----------------------------------------------------------------------------
EmptyCache(max) ==
  CASE Policy = "LRU"    -> EmptyLRU(max)
    [] Policy = "BITMAP" -> EmptyBitmap
    [] OTHER -> [clusters |-> [i \in 0..(NumClusters - 1) |-> EmptyCluster(0)],
                 occupied_count |-> 0, eviction_count |-> 0]

CacheInsert(c, key, depth) ==
  CASE Policy = "LRU"    -> LRUInsert(c, key)
    [] Policy = "BITMAP" -> BitmapInsert(c, key)
    [] OTHER             -> FlatInsert(c, key, depth)

CacheContains(c, key) ==
  CASE Policy = "LRU"    -> LRUContains(c, key)
    [] Policy = "BITMAP" -> BitmapContains(c, key)
    [] OTHER             -> FlatContains(c, key)

CacheSize(c) ==
  CASE Policy = "LRU"    -> LRUSize(c)
    [] Policy = "BITMAP" -> BitmapSize(c)
    [] OTHER             -> c.occupied_count

StatesRemoved(c) ==
  CASE Policy = "LRU"    -> c.removed
    [] Policy = "BITMAP" -> 0
    [] OTHER             -> c.eviction_count
=============================================================================
