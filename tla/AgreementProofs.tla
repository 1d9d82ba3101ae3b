-------------------------- MODULE AgreementProofs --------------------------
(***************************************************************************)
(* What holds of two searches of one deal, and that they agree until one   *)
(* forgets: for every sound game, for caches of every size and for budgets *)
(* of every kind.                                                          *)
(***************************************************************************)
EXTENDS TraceAgreement, TraceProofs, TLAPS

-----------------------------------------------------------------------------
(* Two searches of one deal: what is proved of a search holds of the other *)
(* one with its policy.                                                    *)
InHashOnly ==
  INSTANCE TraceProofs WITH
    Policy <- "HASH_ONLY", state <- state2, frontier <- frontier2, cache <- cache2,
    res <- res2, iter <- iter2, result <- result2, expanded <- expanded2,
    trace <- trace2

InBitmap ==
  INSTANCE TraceProofs WITH
    Policy <- "BITMAP", state <- state2, frontier <- frontier2, cache <- cache2,
    res <- res2, iter <- iter2, result <- result2, expanded <- expanded2,
    trace <- trace2

LEMMA HashOnlyInserted ==
  HashOnly!Inserted = InHashOnly!Inserted
<1>1. \A c, k, d : HashOnly!CacheInsert(c, k, d) = InHashOnly!CacheInsert(c, k, d)
  <2>1. /\ \A k : HashOnly!HashOf(k) = InHashOnly!HashOf(k)
        /\ HashOnly!NumClusters = InHashOnly!NumClusters
    BY DEF
      HashOnly!HashOf, InHashOnly!HashOf, HashOnly!Normalised, InHashOnly!Normalised,
      HashOnly!NumClusters, InHashOnly!NumClusters
  <2>2. /\ \A k : HashOnly!PayloadOf(k) = InHashOnly!PayloadOf(k)
        /\ \A k : HashOnly!ClusterIndex(k) = InHashOnly!ClusterIndex(k)
    BY <2>1 DEF
      HashOnly!PayloadOf, InHashOnly!PayloadOf, HashOnly!ClusterIndex,
      InHashOnly!ClusterIndex
  <2>3. \A cl, p, h : HashOnly!ClusterContains(cl, p, h) = InHashOnly!ClusterContains(cl, p, h)
    BY DEF
      HashOnly!ClusterContains, InHashOnly!ClusterContains, HashOnly!Matches,
      InHashOnly!Matches, HashOnly!Slot1Answers, InHashOnly!Slot1Answers,
      HashOnly!HasHashGuard, InHashOnly!HasHashGuard
  <2>4. /\ \A cl, e : HashOnly!WriteSlot0(cl, e) = InHashOnly!WriteSlot0(cl, e)
        /\ \A cl, e, h : HashOnly!WriteSlot1(cl, e, h) = InHashOnly!WriteSlot1(cl, e, h)
    BY DEF
      HashOnly!WriteSlot0, InHashOnly!WriteSlot0, HashOnly!WriteSlot1,
      InHashOnly!WriteSlot1, HashOnly!HasHashGuard, InHashOnly!HasHashGuard
  <2>5. \A cl, e : HashOnly!Cascade(cl, e) = InHashOnly!Cascade(cl, e)
    BY <2>4 DEF
      HashOnly!Cascade, InHashOnly!Cascade
  <2>6. \A cl, e, h : HashOnly!Replace(cl, e, h) = InHashOnly!Replace(cl, e, h)
    BY <2>4, <2>5 DEF
      HashOnly!Replace, InHashOnly!Replace, HashOnly!DepthPreferred,
      InHashOnly!DepthPreferred
  <2>7. /\ \A p, d : HashOnly!Entry(p, d) = InHashOnly!Entry(p, d)
        /\ \A cl : HashOnly!Evicts(cl) = InHashOnly!Evicts(cl)
    BY DEF
      HashOnly!Entry, InHashOnly!Entry, HashOnly!Evicts, InHashOnly!Evicts
  <2>8. \A cl, p, h, d : HashOnly!ClusterInsert(cl, p, h, d) = InHashOnly!ClusterInsert(cl, p, h, d)
    BY <2>3, <2>6, <2>7 DEF
      HashOnly!ClusterInsert, InHashOnly!ClusterInsert
  <2>9. \A c, k, d : HashOnly!FlatInsert(c, k, d) = InHashOnly!FlatInsert(c, k, d)
    BY <2>1, <2>2, <2>8, ZenonT(60) DEF
      HashOnly!FlatInsert, InHashOnly!FlatInsert
  <2> QED BY <2>9 DEF HashOnly!CacheInsert, InHashOnly!CacheInsert
<1> QED BY <1>1 DEF HashOnly!Inserted, InHashOnly!Inserted

LEMMA HashOnlyTurns ==
  /\ HashOnly!Dominate = InHashOnly!Dominate /\ HashOnly!Expand = InHashOnly!Expand
  /\ HashOnly!DeadEnd = InHashOnly!DeadEnd /\ HashOnly!Duplicate = InHashOnly!Duplicate
  /\ HashOnly!MemLimit = InHashOnly!MemLimit
<1>1. HashOnly!Inserted = InHashOnly!Inserted
  BY HashOnlyInserted
<1>2. HashOnly!Turn = InHashOnly!Turn
  BY DEF
    HashOnly!Turn, InHashOnly!Turn, HashOnly!InBudget, InHashOnly!InBudget,
    HashOnly!Running, InHashOnly!Running, HashOnly!OverStates, InHashOnly!OverStates,
    HashOnly!TimeUp, InHashOnly!TimeUp, HashOnly!Signalled, InHashOnly!Signalled,
    HashOnly!LooksAtClock, InHashOnly!LooksAtClock
<1>3. \A f, own, c, fresh : HashOnly!Backtrack(f, own, c, fresh) = InHashOnly!Backtrack(f, own, c, fresh)
  <2>1. HashOnly!OpenNodes = InHashOnly!OpenNodes
    BY DEF
      HashOnly!OpenNodes, InHashOnly!OpenNodes
  <2>2. /\ HashOnly!Target = InHashOnly!Target
        /\ HashOnly!Undone = InHashOnly!Undone
        /\ HashOnly!AtRoot = InHashOnly!AtRoot
        /\ HashOnly!ComputesHash = InHashOnly!ComputesHash
    BY <2>1 DEF
      HashOnly!Target, InHashOnly!Target, HashOnly!Undone, InHashOnly!Undone,
      HashOnly!AtRoot, InHashOnly!AtRoot, HashOnly!ComputesHash, InHashOnly!ComputesHash
  <2>3. HashOnly!StateAt = InHashOnly!StateAt
    BY <2>2 DEF
      HashOnly!StateAt, InHashOnly!StateAt
  <2>4. \A own : HashOnly!LeftBehind(own) = InHashOnly!LeftBehind(own)
    BY <2>2 DEF
      HashOnly!LeftBehind, InHashOnly!LeftBehind
  <2>5. \A c, keys : HashOnly!SetNonLive(c, keys) = InHashOnly!SetNonLive(c, keys)
    BY DEF
      HashOnly!SetNonLive, InHashOnly!SetNonLive, HashOnly!LRUItem, InHashOnly!LRUItem
  <2>6. \A f, to : HashOnly!Descended(f, to) = InHashOnly!Descended(f, to)
    BY DEF
      HashOnly!Descended, InHashOnly!Descended, HashOnly!NewNode, InHashOnly!NewNode
  <2>7. \A pops, m, fresh : HashOnly!Counted(pops, m, fresh) = InHashOnly!Counted(pops, m, fresh)
    BY DEF
      HashOnly!Counted, InHashOnly!Counted
  <2> QED BY <2>1, <2>2, <2>3, <2>4, <2>5, <2>6, <2>7, SMTT(60) DEF
    HashOnly!Backtrack, InHashOnly!Backtrack
<1>4. \A f, moves : HashOnly!GoDown(f, moves) = InHashOnly!GoDown(f, moves)
  BY DEF
    HashOnly!GoDown, InHashOnly!GoDown, HashOnly!Descended, InHashOnly!Descended,
    HashOnly!Counted, InHashOnly!Counted, HashOnly!NewNode, InHashOnly!NewNode
<1>5. HashOnly!Marked = InHashOnly!Marked /\ HashOnly!Moves = InHashOnly!Moves
  BY DEF
    HashOnly!Marked, InHashOnly!Marked, HashOnly!Moves, InHashOnly!Moves,
    HashOnly!ComputesHash, InHashOnly!ComputesHash, HashOnly!Current, InHashOnly!Current
<1> QED BY <1>1, <1>2, <1>3, <1>4, <1>5 DEF
    HashOnly!Dominate, InHashOnly!Dominate, HashOnly!Expand, InHashOnly!Expand,
    HashOnly!DeadEnd, InHashOnly!DeadEnd, HashOnly!Duplicate, InHashOnly!Duplicate,
    HashOnly!MemLimit, InHashOnly!MemLimit

LEMMA HashOnlyEvents ==
  /\ \A es, queried, fresh :
       HashOnly!Emits(es, queried, fresh) = InHashOnly!Emits(es, queried, fresh)
  /\ \A is, at : HashOnly!Plain(is, at) = InHashOnly!Plain(is, at)
  /\ \A m, to, depth : HashOnly!Down(m, to, depth) = InHashOnly!Down(m, to, depth)
  /\ HashOnly!Asked = InHashOnly!Asked /\ HashOnly!Missed = InHashOnly!Missed /\ HashOnly!Back = InHashOnly!Back
<1>1. \A es, queried, fresh :
        HashOnly!Emits(es, queried, fresh) = InHashOnly!Emits(es, queried, fresh)
  BY DEF HashOnly!Emits, InHashOnly!Emits, HashOnly!BreaksIn, InHashOnly!BreaksIn, HashOnly!Finds, InHashOnly!Finds,
         HashOnly!ComputesHash, InHashOnly!ComputesHash, HashOnly!Writes, InHashOnly!Writes
<1>2. /\ \A is, m, n, at : HashOnly!Event(is, m, n, at) = InHashOnly!Event(is, m, n, at)
      /\ \A is, at : HashOnly!Plain(is, at) = InHashOnly!Plain(is, at)
      /\ \A m, to, depth : HashOnly!Down(m, to, depth) = InHashOnly!Down(m, to, depth)
  BY DEF HashOnly!Event, InHashOnly!Event, HashOnly!Plain, InHashOnly!Plain, HashOnly!Down, InHashOnly!Down
<1>3. HashOnly!Asked = InHashOnly!Asked
  <2>1. \A c : HashOnly!StatesRemoved(c) = InHashOnly!StatesRemoved(c)
    BY DEF HashOnly!StatesRemoved, InHashOnly!StatesRemoved
  <2> QED BY <1>2, <2>1, HashOnlyInserted DEF HashOnly!Asked, InHashOnly!Asked
<1>4. HashOnly!Missed = InHashOnly!Missed
  BY <1>2 DEF HashOnly!Missed, InHashOnly!Missed, HashOnly!Moves, InHashOnly!Moves, HashOnly!Current, InHashOnly!Current
<1>5. HashOnly!Back = InHashOnly!Back
  <2>1. HashOnly!OpenNodes = InHashOnly!OpenNodes /\ HashOnly!Target = InHashOnly!Target
    BY DEF HashOnly!Target, InHashOnly!Target, HashOnly!OpenNodes, InHashOnly!OpenNodes
  <2>2. HashOnly!Undone = InHashOnly!Undone
    BY DEF HashOnly!Undone, InHashOnly!Undone
  <2>3. HashOnly!StateAt = InHashOnly!StateAt
    BY <2>1, <2>2 DEF HashOnly!StateAt, InHashOnly!StateAt
  <2>4. \A i : HashOnly!UpTo(i) = InHashOnly!UpTo(i)
    BY <1>2, <2>2 DEF HashOnly!UpTo, InHashOnly!UpTo
  <2>5. HashOnly!Ups = InHashOnly!Ups
    BY <2>1, <2>4 DEF HashOnly!Ups, InHashOnly!Ups
  <2> QED BY <1>2, <2>1, <2>3, <2>5 DEF HashOnly!Back, InHashOnly!Back,
      HashOnly!Last, InHashOnly!Last
<1> QED BY <1>1, <1>2, <1>3, <1>4, <1>5

LEMMA HashOnlyDfs ==
  ASSUME HashOnly!TracedDfs
  PROVE  InHashOnly!TracedDfs /\ InHashOnly!Dfs
<1>1. /\ HashOnly!TimeOut = InHashOnly!TimeOut /\ HashOnly!Terminate = InHashOnly!Terminate
      /\ HashOnly!Solve = InHashOnly!Solve
  BY DEF
    HashOnly!TimeOut, InHashOnly!TimeOut, HashOnly!Terminate, InHashOnly!Terminate,
    HashOnly!Solve, InHashOnly!Solve, HashOnly!Running, InHashOnly!Running,
    HashOnly!OverStates, InHashOnly!OverStates, HashOnly!TimeUp, InHashOnly!TimeUp,
    HashOnly!search, InHashOnly!search, HashOnly!Signalled, InHashOnly!Signalled,
    HashOnly!LooksAtClock, InHashOnly!LooksAtClock
<1>2. HashOnly!Unhalted = InHashOnly!Unhalted
  BY DEF HashOnly!Unhalted, InHashOnly!Unhalted
<1>3. /\ HashOnly!TracedDominate => InHashOnly!TracedDominate
      /\ HashOnly!TracedExpand => InHashOnly!TracedExpand
      /\ HashOnly!TracedDeadEnd => InHashOnly!TracedDeadEnd
      /\ HashOnly!TracedDuplicate => InHashOnly!TracedDuplicate
      /\ HashOnly!TracedMemLimit => InHashOnly!TracedMemLimit
      /\ HashOnly!TracedEnd => InHashOnly!TracedEnd
  <2>1. HashOnly!Moves = InHashOnly!Moves
    BY DEF HashOnly!Moves, InHashOnly!Moves, HashOnly!Current, InHashOnly!Current
  <2>2. HashOnly!TracedDominate => InHashOnly!TracedDominate
    BY <1>1, <1>2, <2>1, HashOnlyTurns, HashOnlyEvents DEF HashOnly!TracedDominate, InHashOnly!TracedDominate
  <2>3. HashOnly!TracedExpand => InHashOnly!TracedExpand
    BY <1>1, <1>2, <2>1, HashOnlyTurns, HashOnlyEvents DEF HashOnly!TracedExpand, InHashOnly!TracedExpand,
      HashOnly!Last, InHashOnly!Last
  <2>4. HashOnly!TracedDeadEnd => InHashOnly!TracedDeadEnd
    BY <1>1, <1>2, <2>1, HashOnlyTurns, HashOnlyEvents DEF HashOnly!TracedDeadEnd, InHashOnly!TracedDeadEnd
  <2>5. HashOnly!TracedDuplicate => InHashOnly!TracedDuplicate
    BY <1>1, <1>2, <2>1, HashOnlyTurns, HashOnlyEvents DEF HashOnly!TracedDuplicate, InHashOnly!TracedDuplicate
  <2>6. HashOnly!TracedMemLimit => InHashOnly!TracedMemLimit
    BY <1>1, <1>2, <2>1, HashOnlyTurns, HashOnlyEvents DEF HashOnly!TracedMemLimit, InHashOnly!TracedMemLimit
  <2>7. HashOnly!TracedEnd => InHashOnly!TracedEnd
    BY <1>1, <1>2, <2>1, HashOnlyTurns, HashOnlyEvents DEF HashOnly!TracedEnd, InHashOnly!TracedEnd
  <2> QED BY <2>2, <2>3, <2>4, <2>5, <2>6, <2>7
<1>4. InHashOnly!TracedDfs
  BY <1>3 DEF HashOnly!TracedDfs, InHashOnly!TracedDfs
<1>5. InHashOnly!Dfs
  BY <1>4 DEF
    InHashOnly!TracedDfs, InHashOnly!TracedDominate, InHashOnly!TracedExpand, InHashOnly!TracedDeadEnd,
    InHashOnly!TracedDuplicate, InHashOnly!TracedMemLimit, InHashOnly!TracedEnd, InHashOnly!Dfs, InHashOnly!Uncut
<1> QED BY <1>4, <1>5

LEMMA HashOnlyInit ==
  ASSUME HashOnly!TracedInit
  PROVE  InHashOnly!TracedInit /\ InHashOnly!Init
  BY DEF HashOnly!TracedInit, InHashOnly!TracedInit,
    HashOnly!Init, InHashOnly!Init, HashOnly!NewNode, InHashOnly!NewNode,
    HashOnly!EmptyCache, InHashOnly!EmptyCache, HashOnly!Count0, InHashOnly!Count0,
    HashOnly!NumClusters, InHashOnly!NumClusters, HashOnly!EmptyCluster,
    InHashOnly!EmptyCluster

LEMMA HashOnlySays ==
  /\ HashOnly!UniqueStatesAddUp = InHashOnly!UniqueStatesAddUp
  /\ HashOnly!SolvedIsShown = InHashOnly!SolvedIsShown
<1>1. HashOnly!UniqueStatesAddUp = InHashOnly!UniqueStatesAddUp
  BY DEF
    HashOnly!UniqueStatesAddUp, InHashOnly!UniqueStatesAddUp, HashOnly!CacheSize,
    InHashOnly!CacheSize, HashOnly!StatesRemoved, InHashOnly!StatesRemoved
<1>2. HashOnly!SolvedIsShown = InHashOnly!SolvedIsShown
  BY DEF
    HashOnly!SolvedIsShown, InHashOnly!SolvedIsShown, HashOnly!Abstract!SolvedIsShown,
    InHashOnly!Abstract!SolvedIsShown, HashOnly!Abstract!Play, InHashOnly!Abstract!Play,
    HashOnly!Abstract!Current, InHashOnly!Abstract!Current, HashOnly!Abstract!AllMoves,
    InHashOnly!Abstract!AllMoves, HashOnly!Abstract!MovesIn, InHashOnly!Abstract!MovesIn,
    HashOnly!Nodes, InHashOnly!Nodes, HashOnly!Path, InHashOnly!Path, HashOnly!Played,
    InHashOnly!Played
<1> QED BY <1>1, <1>2

LEMMA BitmapInserted ==
  Bitmap!Inserted = InBitmap!Inserted
<1>1. \A c, k, d : Bitmap!CacheInsert(c, k, d) = InBitmap!CacheInsert(c, k, d)
  BY DEF
    Bitmap!CacheInsert, InBitmap!CacheInsert, Bitmap!BitmapInsert, InBitmap!BitmapInsert,
    Bitmap!LRUItem, InBitmap!LRUItem, Bitmap!NumBits, InBitmap!NumBits,
    Bitmap!BitmapContains, InBitmap!BitmapContains, Bitmap!BitOf, InBitmap!BitOf,
    Bitmap!HashOf, InBitmap!HashOf
<1> QED BY <1>1 DEF Bitmap!Inserted, InBitmap!Inserted

LEMMA BitmapTurns ==
  /\ Bitmap!Dominate = InBitmap!Dominate /\ Bitmap!Expand = InBitmap!Expand
  /\ Bitmap!DeadEnd = InBitmap!DeadEnd /\ Bitmap!Duplicate = InBitmap!Duplicate
  /\ Bitmap!MemLimit = InBitmap!MemLimit
<1>1. Bitmap!Inserted = InBitmap!Inserted
  BY BitmapInserted
<1>2. Bitmap!Turn = InBitmap!Turn
  BY DEF
    Bitmap!Turn, InBitmap!Turn, Bitmap!InBudget, InBitmap!InBudget, Bitmap!Running,
    InBitmap!Running, Bitmap!OverStates, InBitmap!OverStates, Bitmap!TimeUp,
    InBitmap!TimeUp, Bitmap!Signalled, InBitmap!Signalled, Bitmap!LooksAtClock,
    InBitmap!LooksAtClock
<1>3. \A f, own, c, fresh : Bitmap!Backtrack(f, own, c, fresh) = InBitmap!Backtrack(f, own, c, fresh)
  <2>1. Bitmap!OpenNodes = InBitmap!OpenNodes
    BY DEF
      Bitmap!OpenNodes, InBitmap!OpenNodes
  <2>2. /\ Bitmap!Target = InBitmap!Target
        /\ Bitmap!Undone = InBitmap!Undone
        /\ Bitmap!AtRoot = InBitmap!AtRoot
        /\ Bitmap!ComputesHash = InBitmap!ComputesHash
    BY <2>1 DEF
      Bitmap!Target, InBitmap!Target, Bitmap!Undone, InBitmap!Undone, Bitmap!AtRoot,
      InBitmap!AtRoot, Bitmap!ComputesHash, InBitmap!ComputesHash
  <2>3. Bitmap!StateAt = InBitmap!StateAt
    BY <2>2 DEF
      Bitmap!StateAt, InBitmap!StateAt
  <2>4. \A own : Bitmap!LeftBehind(own) = InBitmap!LeftBehind(own)
    BY <2>2 DEF
      Bitmap!LeftBehind, InBitmap!LeftBehind
  <2>5. \A c, keys : Bitmap!SetNonLive(c, keys) = InBitmap!SetNonLive(c, keys)
    BY DEF
      Bitmap!SetNonLive, InBitmap!SetNonLive, Bitmap!LRUItem, InBitmap!LRUItem
  <2>6. \A f, to : Bitmap!Descended(f, to) = InBitmap!Descended(f, to)
    BY DEF
      Bitmap!Descended, InBitmap!Descended, Bitmap!NewNode, InBitmap!NewNode
  <2>7. \A pops, m, fresh : Bitmap!Counted(pops, m, fresh) = InBitmap!Counted(pops, m, fresh)
    BY DEF
      Bitmap!Counted, InBitmap!Counted
  <2> QED BY <2>1, <2>2, <2>3, <2>4, <2>5, <2>6, <2>7, SMTT(60) DEF
    Bitmap!Backtrack, InBitmap!Backtrack
<1>4. \A f, moves : Bitmap!GoDown(f, moves) = InBitmap!GoDown(f, moves)
  BY DEF
    Bitmap!GoDown, InBitmap!GoDown, Bitmap!Descended, InBitmap!Descended, Bitmap!Counted,
    InBitmap!Counted, Bitmap!NewNode, InBitmap!NewNode
<1>5. Bitmap!Marked = InBitmap!Marked /\ Bitmap!Moves = InBitmap!Moves
  BY DEF
    Bitmap!Marked, InBitmap!Marked, Bitmap!Moves, InBitmap!Moves, Bitmap!ComputesHash,
    InBitmap!ComputesHash, Bitmap!Current, InBitmap!Current
<1> QED BY <1>1, <1>2, <1>3, <1>4, <1>5 DEF
    Bitmap!Dominate, InBitmap!Dominate, Bitmap!Expand, InBitmap!Expand, Bitmap!DeadEnd,
    InBitmap!DeadEnd, Bitmap!Duplicate, InBitmap!Duplicate, Bitmap!MemLimit,
    InBitmap!MemLimit

LEMMA BitmapEvents ==
  /\ \A es, queried, fresh :
       Bitmap!Emits(es, queried, fresh) = InBitmap!Emits(es, queried, fresh)
  /\ \A is, at : Bitmap!Plain(is, at) = InBitmap!Plain(is, at)
  /\ \A m, to, depth : Bitmap!Down(m, to, depth) = InBitmap!Down(m, to, depth)
  /\ Bitmap!Asked = InBitmap!Asked /\ Bitmap!Missed = InBitmap!Missed /\ Bitmap!Back = InBitmap!Back
<1>1. \A es, queried, fresh :
        Bitmap!Emits(es, queried, fresh) = InBitmap!Emits(es, queried, fresh)
  BY DEF Bitmap!Emits, InBitmap!Emits, Bitmap!BreaksIn, InBitmap!BreaksIn, Bitmap!Finds, InBitmap!Finds,
         Bitmap!ComputesHash, InBitmap!ComputesHash, Bitmap!Writes, InBitmap!Writes
<1>2. /\ \A is, m, n, at : Bitmap!Event(is, m, n, at) = InBitmap!Event(is, m, n, at)
      /\ \A is, at : Bitmap!Plain(is, at) = InBitmap!Plain(is, at)
      /\ \A m, to, depth : Bitmap!Down(m, to, depth) = InBitmap!Down(m, to, depth)
  BY DEF Bitmap!Event, InBitmap!Event, Bitmap!Plain, InBitmap!Plain, Bitmap!Down, InBitmap!Down
<1>3. Bitmap!Asked = InBitmap!Asked
  <2>1. \A c : Bitmap!StatesRemoved(c) = InBitmap!StatesRemoved(c)
    BY DEF Bitmap!StatesRemoved, InBitmap!StatesRemoved
  <2> QED BY <1>2, <2>1, BitmapInserted DEF Bitmap!Asked, InBitmap!Asked
<1>4. Bitmap!Missed = InBitmap!Missed
  BY <1>2 DEF Bitmap!Missed, InBitmap!Missed, Bitmap!Moves, InBitmap!Moves, Bitmap!Current, InBitmap!Current
<1>5. Bitmap!Back = InBitmap!Back
  <2>1. Bitmap!OpenNodes = InBitmap!OpenNodes /\ Bitmap!Target = InBitmap!Target
    BY DEF Bitmap!Target, InBitmap!Target, Bitmap!OpenNodes, InBitmap!OpenNodes
  <2>2. Bitmap!Undone = InBitmap!Undone
    BY DEF Bitmap!Undone, InBitmap!Undone
  <2>3. Bitmap!StateAt = InBitmap!StateAt
    BY <2>1, <2>2 DEF Bitmap!StateAt, InBitmap!StateAt
  <2>4. \A i : Bitmap!UpTo(i) = InBitmap!UpTo(i)
    BY <1>2, <2>2 DEF Bitmap!UpTo, InBitmap!UpTo
  <2>5. Bitmap!Ups = InBitmap!Ups
    BY <2>1, <2>4 DEF Bitmap!Ups, InBitmap!Ups
  <2> QED BY <1>2, <2>1, <2>3, <2>5 DEF Bitmap!Back, InBitmap!Back,
      Bitmap!Last, InBitmap!Last
<1> QED BY <1>1, <1>2, <1>3, <1>4, <1>5

LEMMA BitmapDfs ==
  ASSUME Bitmap!TracedDfs
  PROVE  InBitmap!TracedDfs /\ InBitmap!Dfs
<1>1. /\ Bitmap!TimeOut = InBitmap!TimeOut /\ Bitmap!Terminate = InBitmap!Terminate
      /\ Bitmap!Solve = InBitmap!Solve
  BY DEF
    Bitmap!TimeOut, InBitmap!TimeOut, Bitmap!Terminate, InBitmap!Terminate, Bitmap!Solve,
    InBitmap!Solve, Bitmap!Running, InBitmap!Running, Bitmap!OverStates,
    InBitmap!OverStates, Bitmap!TimeUp, InBitmap!TimeUp, Bitmap!search, InBitmap!search,
    Bitmap!Signalled, InBitmap!Signalled, Bitmap!LooksAtClock, InBitmap!LooksAtClock
<1>2. Bitmap!Unhalted = InBitmap!Unhalted
  BY DEF Bitmap!Unhalted, InBitmap!Unhalted
<1>3. /\ Bitmap!TracedDominate => InBitmap!TracedDominate
      /\ Bitmap!TracedExpand => InBitmap!TracedExpand
      /\ Bitmap!TracedDeadEnd => InBitmap!TracedDeadEnd
      /\ Bitmap!TracedDuplicate => InBitmap!TracedDuplicate
      /\ Bitmap!TracedMemLimit => InBitmap!TracedMemLimit
      /\ Bitmap!TracedEnd => InBitmap!TracedEnd
  <2>1. Bitmap!Moves = InBitmap!Moves
    BY DEF Bitmap!Moves, InBitmap!Moves, Bitmap!Current, InBitmap!Current
  <2>2. Bitmap!TracedDominate => InBitmap!TracedDominate
    BY <1>1, <1>2, <2>1, BitmapTurns, BitmapEvents DEF Bitmap!TracedDominate, InBitmap!TracedDominate
  <2>3. Bitmap!TracedExpand => InBitmap!TracedExpand
    BY <1>1, <1>2, <2>1, BitmapTurns, BitmapEvents DEF Bitmap!TracedExpand, InBitmap!TracedExpand,
      Bitmap!Last, InBitmap!Last
  <2>4. Bitmap!TracedDeadEnd => InBitmap!TracedDeadEnd
    BY <1>1, <1>2, <2>1, BitmapTurns, BitmapEvents DEF Bitmap!TracedDeadEnd, InBitmap!TracedDeadEnd
  <2>5. Bitmap!TracedDuplicate => InBitmap!TracedDuplicate
    BY <1>1, <1>2, <2>1, BitmapTurns, BitmapEvents DEF Bitmap!TracedDuplicate, InBitmap!TracedDuplicate
  <2>6. Bitmap!TracedMemLimit => InBitmap!TracedMemLimit
    BY <1>1, <1>2, <2>1, BitmapTurns, BitmapEvents DEF Bitmap!TracedMemLimit, InBitmap!TracedMemLimit
  <2>7. Bitmap!TracedEnd => InBitmap!TracedEnd
    BY <1>1, <1>2, <2>1, BitmapTurns, BitmapEvents DEF Bitmap!TracedEnd, InBitmap!TracedEnd
  <2> QED BY <2>2, <2>3, <2>4, <2>5, <2>6, <2>7
<1>4. InBitmap!TracedDfs
  BY <1>3 DEF Bitmap!TracedDfs, InBitmap!TracedDfs
<1>5. InBitmap!Dfs
  BY <1>4 DEF
    InBitmap!TracedDfs, InBitmap!TracedDominate, InBitmap!TracedExpand, InBitmap!TracedDeadEnd,
    InBitmap!TracedDuplicate, InBitmap!TracedMemLimit, InBitmap!TracedEnd, InBitmap!Dfs, InBitmap!Uncut
<1> QED BY <1>4, <1>5

LEMMA BitmapInit ==
  ASSUME Bitmap!TracedInit
  PROVE  InBitmap!TracedInit /\ InBitmap!Init
  BY DEF Bitmap!TracedInit, InBitmap!TracedInit,
    Bitmap!Init, InBitmap!Init, Bitmap!NewNode, InBitmap!NewNode, Bitmap!EmptyCache,
    InBitmap!EmptyCache, Bitmap!Count0, InBitmap!Count0, Bitmap!EmptyBitmap,
    InBitmap!EmptyBitmap

LEMMA BitmapSays ==
  /\ Bitmap!UniqueStatesAddUp = InBitmap!UniqueStatesAddUp
  /\ Bitmap!SolvedIsShown = InBitmap!SolvedIsShown
<1>1. Bitmap!UniqueStatesAddUp = InBitmap!UniqueStatesAddUp
  BY DEF
    Bitmap!UniqueStatesAddUp, InBitmap!UniqueStatesAddUp, Bitmap!CacheSize,
    InBitmap!CacheSize, Bitmap!StatesRemoved, InBitmap!StatesRemoved, Bitmap!BitmapSize,
    InBitmap!BitmapSize
<1>2. Bitmap!SolvedIsShown = InBitmap!SolvedIsShown
  BY DEF
    Bitmap!SolvedIsShown, InBitmap!SolvedIsShown, Bitmap!Abstract!SolvedIsShown,
    InBitmap!Abstract!SolvedIsShown, Bitmap!Abstract!Play, InBitmap!Abstract!Play,
    Bitmap!Abstract!Current, InBitmap!Abstract!Current, Bitmap!Abstract!AllMoves,
    InBitmap!Abstract!AllMoves, Bitmap!Abstract!MovesIn, InBitmap!Abstract!MovesIn,
    Bitmap!Nodes, InBitmap!Nodes, Bitmap!Path, InBitmap!Path, Bitmap!Played,
    InBitmap!Played
<1> QED BY <1>1, <1>2

-----------------------------------------------------------------------------
(* The second search, which is not asked to halt, leaves the first as it   *)
(* is.                                                                     *)
LEMMA HashOnlyGoesOn ==
  ASSUME SecondRuns, HashOnly!TracedDfs
  PROVE  UNCHANGED <<request, halted, shown>>
<1>1. ASSUME NEW es, NEW queried, NEW fresh, HashOnly!Emits(es, queried, fresh)
      PROVE  UNCHANGED <<halted, shown>>
  <2>1. \A e : HashOnly!BreaksIn(e) = {}
    BY DEF SecondRuns, HashOnly!BreaksIn
  <2>2. ~ HashOnly!Finds(fresh)
    BY DEF SecondRuns, HashOnly!Finds
  <2> QED BY <1>1, <2>1, <2>2 DEF HashOnly!Emits
<1>2. HashOnly!Unhalted /\ \E es, queried, fresh : HashOnly!Emits(es, queried, fresh)
  BY DEF HashOnly!TracedDfs, HashOnly!TracedDominate, HashOnly!TracedExpand,
         HashOnly!TracedDeadEnd, HashOnly!TracedDuplicate, HashOnly!TracedMemLimit,
         HashOnly!TracedEnd
<1> QED BY <1>1, <1>2 DEF HashOnly!Unhalted

LEMMA BitmapGoesOn ==
  ASSUME SecondRuns, Bitmap!TracedDfs
  PROVE  UNCHANGED <<request, halted, shown>>
<1>1. ASSUME NEW es, NEW queried, NEW fresh, Bitmap!Emits(es, queried, fresh)
      PROVE  UNCHANGED <<halted, shown>>
  <2>1. \A e : Bitmap!BreaksIn(e) = {}
    BY DEF SecondRuns, Bitmap!BreaksIn
  <2>2. ~ Bitmap!Finds(fresh)
    BY DEF SecondRuns, Bitmap!Finds
  <2> QED BY <1>1, <2>1, <2>2 DEF Bitmap!Emits
<1>2. Bitmap!Unhalted /\ \E es, queried, fresh : Bitmap!Emits(es, queried, fresh)
  BY DEF Bitmap!TracedDfs, Bitmap!TracedDominate, Bitmap!TracedExpand,
         Bitmap!TracedDeadEnd, Bitmap!TracedDuplicate, Bitmap!TracedMemLimit,
         Bitmap!TracedEnd
<1> QED BY <1>1, <1>2 DEF Bitmap!Unhalted

(* What is assumed of the game does not depend on the policy.              *)
LEMMA HashOnlyGame ==
  /\ \A s \in State : \A m \in InHashOnly!MovesOf(s) : Undo(Apply(s, m), m) = s
  /\ CheckInterval \in Nat \ {0} /\ MaxEntries \in Nat /\ DepthMax \in Nat
  /\ StateCaps \subseteq Nat
  /\ \A r \in Requests :
       /\ r.enabled \in BOOLEAN
       /\ r.break_at \subseteq Nat /\ \A m, n \in r.break_at : m = n
  BY UndoAssumption, SizeAssumption, RequestsAssumption DEF InHashOnly!MovesOf, MovesOf, InHashOnly!Range, Range

LEMMA BitmapGame ==
  /\ \A s \in State : \A m \in InBitmap!MovesOf(s) : Undo(Apply(s, m), m) = s
  /\ CheckInterval \in Nat \ {0} /\ MaxEntries \in Nat /\ DepthMax \in Nat
  /\ StateCaps \subseteq Nat
  /\ \A r \in Requests :
       /\ r.enabled \in BOOLEAN
       /\ r.break_at \subseteq Nat /\ \A m, n \in r.break_at : m = n
  BY UndoAssumption, SizeAssumption, RequestsAssumption DEF InBitmap!MovesOf, MovesOf, InBitmap!Range, Range

LEMMA AgreementSteps ==
  ASSUME OnTime, [AgreementNext]_<<traced_vars, other, search2>>
  PROVE  \/ [TracedNext]_traced_vars /\ UNCHANGED <<other, search2>>
         \/ /\ SecondRuns /\ UNCHANGED <<traced_vars, other>>
            /\ \/ other = "HASH_ONLY" /\ InHashOnly!TracedDfs /\ InHashOnly!Dfs
               \/ other = "BITMAP" /\ InBitmap!TracedDfs /\ InBitmap!Dfs
<1>1. CASE TracedNext /\ UNCHANGED <<other, search2>>
  BY <1>1
<1>2. CASE UNCHANGED <<traced_vars, other, search2>>
  BY <1>2
<1>3. CASE /\ SecondRuns
           /\ \/ other = "HASH_ONLY" /\ HashOnly!TracedDfs
              \/ other = "BITMAP" /\ Bitmap!TracedDfs
           /\ UNCHANGED <<search, iter, result, expanded, trace, other>>
  <2>1. /\ UNCHANGED <<request, halted, shown>>
        /\ \/ other = "HASH_ONLY" /\ InHashOnly!TracedDfs /\ InHashOnly!Dfs
           \/ other = "BITMAP" /\ InBitmap!TracedDfs /\ InBitmap!Dfs
    BY <1>3, HashOnlyGoesOn, BitmapGoesOn, HashOnlyDfs, BitmapDfs
  <2>2. UNCHANGED <<init_state, max_states, late, sigint, overdue>>
    <3>1. InHashOnly!OnTime /\ InBitmap!OnTime
      BY DEF OnTime, InHashOnly!OnTime, InBitmap!OnTime
    <3>2. ~ late /\ ~ sigint
      BY <1>3 DEF SecondRuns
    <3>3. CASE InHashOnly!Dfs
      BY <3>1, <3>2, <3>3, HashOnlyGame, InHashOnly!DfsKeeps
    <3>4. CASE InBitmap!Dfs
      BY <3>1, <3>2, <3>4, BitmapGame, InBitmap!DfsKeeps
    <3> QED BY <2>1, <3>3, <3>4
  <2>3. UNCHANGED <<traced_vars, other>>
    BY <1>3, <2>1, <2>2 DEF traced_vars, vars, tracing
  <2> QED BY <1>3, <2>1, <2>3
<1> QED BY <1>1, <1>2, <1>3 DEF AgreementNext

LEMMA InitOnTime ==
  ASSUME Init
  PROVE  OnTime
  BY DEF Init, OnTime

(* Searching the deal again, with the flags of the process and the budgets *)
(* that the first search had, does not change what that search left.       *)
THEOREM SecondSearchLeavesTheFirst ==
  AgreementSpec => TracedSpec
<1>1. AgreementInit => TracedInit /\ OnTime
  BY InitOnTime DEF AgreementInit, TracedInit
<1>2. OnTime /\ [AgreementNext]_<<traced_vars, other, search2>>
        => [TracedNext]_traced_vars /\ OnTime'
  <2>1. SUFFICES ASSUME OnTime, [AgreementNext]_<<traced_vars, other, search2>>
                 PROVE  [TracedNext]_traced_vars /\ OnTime'
    OBVIOUS
  <2>2. [TracedNext]_traced_vars
    BY <2>1, AgreementSteps
  <2> QED BY <2>1, <2>2, TracedIsNext, NextOnTime
<1> QED BY <1>1, <1>2, PTL DEF AgreementSpec, TracedSpec

LEMMA MovesOfBoth ==
  /\ \A f : InHashOnly!Range(f) = Range(f)
  /\ \A f : InBitmap!Range(f) = Range(f)
  /\ \A s : InHashOnly!MovesOf(s) = MovesOf(s)
  /\ \A s : InBitmap!MovesOf(s) = MovesOf(s)
<1>1. \A f : InHashOnly!Range(f) = Range(f)
  BY DEF Range, InHashOnly!Range
<1>2. \A f : InBitmap!Range(f) = Range(f)
  BY DEF Range, InBitmap!Range
<1>3. \A s : InHashOnly!MovesOf(s) = MovesOf(s)
  BY <1>1 DEF MovesOf, InHashOnly!MovesOf
<1>4. \A s : InBitmap!MovesOf(s) = MovesOf(s)
  BY <1>2 DEF MovesOf, InBitmap!MovesOf
<1> QED BY <1>1, <1>2, <1>3, <1>4

LEMMA SoundOfBoth ==
  ASSUME GameIsSound
  PROVE  InHashOnly!GameIsSound /\ InBitmap!GameIsSound
<1>1. InHashOnly!GameIsSound
  BY MovesOfBoth DEF GameIsSound, InHashOnly!GameIsSound
<1>2. InBitmap!GameIsSound
  BY MovesOfBoth DEF GameIsSound, InBitmap!GameIsSound
<1> QED BY <1>1, <1>2

LEMMA GameOfBoth ==
  ASSUME GameIsSound, MovesAreMarked
  PROVE  /\ InHashOnly!GameIsSound /\ InHashOnly!MovesAreMarked
         /\ InBitmap!GameIsSound /\ InBitmap!MovesAreMarked
<1>1. InHashOnly!MovesAreMarked
  BY MovesOfBoth DEF MovesAreMarked, InHashOnly!MovesAreMarked
<1>2. InBitmap!MovesAreMarked
  BY MovesOfBoth DEF MovesAreMarked, InBitmap!MovesAreMarked
<1> QED BY <1>1, <1>2, SoundOfBoth

(* What the second search keeps, also while the first runs with the same   *)
(* flags.                                                                  *)
SecondInv ==
  /\ OnTime
  /\ result = "NONE" => iter2 = 0
  /\ other = "HASH_ONLY" => InHashOnly!ForgetfulInv
  /\ other = "BITMAP" => InBitmap!ForgetfulInv

LEMMA InitSecond ==
  ASSUME GameIsSound, MovesAreMarked, AgreementInit
  PROVE  SecondInv
<1>1. OnTime
  BY InitOnTime DEF AgreementInit, TracedInit
<1>2. \/ other = "HASH_ONLY" /\ InHashOnly!Init
      \/ other = "BITMAP" /\ InBitmap!Init
  BY HashOnlyInit, BitmapInit DEF AgreementInit
<1>3. CASE other = "HASH_ONLY" /\ InHashOnly!Init
  <2>1. iter2 = 0
    BY <1>3 DEF InHashOnly!Init
  <2>2. InHashOnly!ForgetfulInv
    BY <1>3, HashOnlyGame, GameOfBoth, InHashOnly!InitForgetful
  <2> QED BY <1>1, <1>3, <2>1, <2>2 DEF SecondInv
<1>4. CASE other = "BITMAP" /\ InBitmap!Init
  <2>1. iter2 = 0
    BY <1>4 DEF InBitmap!Init
  <2>2. InBitmap!ForgetfulInv
    BY <1>4, BitmapGame, GameOfBoth, InBitmap!InitForgetful
  <2> QED BY <1>1, <1>4, <2>1, <2>2 DEF SecondInv
<1> QED BY <1>2, <1>3, <1>4

LEMMA NextSecond ==
  ASSUME GameIsSound, MovesAreMarked, NumBits # 0, BooksInv', SecondInv,
         [AgreementNext]_<<traced_vars, other, search2>>
  PROVE  SecondInv'
<1>1. OnTime'
  <2>1. [TracedNext]_traced_vars
    BY AgreementSteps DEF SecondInv
  <2> QED BY <2>1, TracedIsNext, NextOnTime DEF SecondInv
<1>2. CASE UNCHANGED <<traced_vars, other, search2>>
  <2>1. /\ UNCHANGED <<init_state, max_states, late, sigint, overdue, result, other>>
        /\ UNCHANGED <<state2, frontier2, cache2, res2, iter2, result2, expanded2>>
    BY <1>2 DEF traced_vars, vars, search2
  <2>2. other = "HASH_ONLY" => InHashOnly!ForgetfulInv'
    <3>1. SUFFICES ASSUME other = "HASH_ONLY" PROVE InHashOnly!ForgetfulInv'
      OBVIOUS
    <3>2. UNCHANGED InHashOnly!vars
      BY <2>1 DEF InHashOnly!vars, InHashOnly!search
    <3> QED BY <3>1, <3>2, HashOnlyGame, GameOfBoth, InHashOnly!NextForgetful DEF SecondInv
  <2>3. other = "BITMAP" => InBitmap!ForgetfulInv'
    <3>1. SUFFICES ASSUME other = "BITMAP" PROVE InBitmap!ForgetfulInv'
      OBVIOUS
    <3>2. UNCHANGED InBitmap!vars
      BY <2>1 DEF InBitmap!vars, InBitmap!search
    <3>3. InBitmap!NumBits # 0
      BY DEF NumBits, InBitmap!NumBits
    <3> QED BY <3>1, <3>2, <3>3, BitmapGame, GameOfBoth, InBitmap!NextForgetful DEF SecondInv
  <2> QED BY <1>1, <2>1, <2>2, <2>3 DEF SecondInv
<1>3. CASE TracedNext /\ UNCHANGED <<other, search2>>
  <2>1. /\ UNCHANGED <<init_state, max_states, other>> /\ result = "NONE"
        /\ UNCHANGED <<state2, frontier2, cache2, res2, iter2, result2, expanded2>>
    <3>1. Next
      BY <1>3 DEF TracedNext, TracedDfs, TracedDominate, TracedExpand, TracedDeadEnd,
                  TracedDuplicate, TracedMemLimit, TracedEnd, TracedEnvironment,
                  Next, Dfs, Uncut
    <3>2. UNCHANGED <<init_state, max_states>> /\ result = "NONE"
      BY <3>1 DEF Next, Dfs, Uncut, Dominate, Expand, DeadEnd, Duplicate, MemLimit, Turn,
                  InBudget, Running, TimeOut, Terminate, Solve, Clock, Signal
    <3> QED BY <1>3, <3>2 DEF search2
  <2>2. iter2 = 0
    BY <2>1 DEF SecondInv
  <2>3. /\ late' \in BOOLEAN /\ sigint' \in BOOLEAN
        /\ overdue' \in Nat /\ overdue' < CheckInterval
    <3>1. /\ late' \in BOOLEAN /\ sigint' \in BOOLEAN /\ overdue' \in Nat
          /\ iter' \in 0..(CheckInterval - 1)
          /\ overdue' = 0 \/ overdue' < iter' \/ (iter' = 0 /\ overdue' < CheckInterval)
      BY DEF BooksInv, BudgetInv
    <3> QED BY <3>1, SizeAssumption
  <2>4. other = "HASH_ONLY" => InHashOnly!ForgetfulInv'
    <3>1. SUFFICES ASSUME other = "HASH_ONLY" PROVE InHashOnly!ForgetfulInv'
      OBVIOUS
    <3>2. UNCHANGED InHashOnly!search
      BY <2>1 DEF InHashOnly!search
    <3> QED BY <2>1, <2>2, <2>3, <3>1, <3>2, HashOnlyGame, InHashOnly!WaitForgetful
            DEF SecondInv
  <2>5. other = "BITMAP" => InBitmap!ForgetfulInv'
    <3>1. SUFFICES ASSUME other = "BITMAP" PROVE InBitmap!ForgetfulInv'
      OBVIOUS
    <3>2. UNCHANGED InBitmap!search
      BY <2>1 DEF InBitmap!search
    <3> QED BY <2>1, <2>2, <2>3, <3>1, <3>2, BitmapGame, InBitmap!WaitForgetful
            DEF SecondInv
  <2> QED BY <1>1, <2>1, <2>2, <2>4, <2>5 DEF SecondInv
<1>4. CASE /\ SecondRuns /\ UNCHANGED <<traced_vars, other>>
           /\ \/ other = "HASH_ONLY" /\ InHashOnly!Dfs
              \/ other = "BITMAP" /\ InBitmap!Dfs
  <2>1. result' # "NONE" /\ other' = other
    BY <1>4 DEF SecondRuns, traced_vars, vars
  <2>2. CASE other = "HASH_ONLY" /\ InHashOnly!Dfs
    <3>1. InHashOnly!Next
      BY <2>2 DEF InHashOnly!Next
    <3>2. InHashOnly!ForgetfulInv'
      BY <2>2, <3>1, HashOnlyGame, GameOfBoth, InHashOnly!NextForgetful DEF SecondInv
    <3> QED BY <1>1, <2>1, <2>2, <3>2 DEF SecondInv
  <2>3. CASE other = "BITMAP" /\ InBitmap!Dfs
    <3>1. InBitmap!Next
      BY <2>3 DEF InBitmap!Next
    <3>2. InBitmap!NumBits # 0
      BY DEF NumBits, InBitmap!NumBits
    <3>3. InBitmap!ForgetfulInv'
      BY <2>3, <3>1, <3>2, BitmapGame, GameOfBoth, InBitmap!NextForgetful DEF SecondInv
    <3> QED BY <1>1, <2>1, <2>3, <3>3 DEF SecondInv
  <2> QED BY <1>4, <2>2, <2>3
<1> QED BY <1>2, <1>3, <1>4, AgreementSteps DEF SecondInv

(* Both of two searches of one deal, the second with the hash-only cache   *)
(* or the bitmap, count as unique states those that their caches took and  *)
(* those of their dominance moves, and report no solution that is none,    *)
(* whatever states the second takes for one another; and the first halts   *)
(* where it was asked to.                                                  *)
THEOREM EachSearchStaysSound ==
  ASSUME GameIsSound, MovesAreMarked, NumBits # 0
  PROVE  AgreementSpec => []EachSearchIsSound
<1>1. AgreementSpec => TracedSpec
  BY SecondSearchLeavesTheFirst
<1>2. TracedSpec => []HaltsWhereAsked
  BY TracedSearchHaltsRight
<1>3. TracedSpec => Spec
  BY TracingChangesNothing
<1>4. Spec => []UniqueStatesAddUp
  BY UniqueStatesStayCounted
<1>5. Spec => []SolvedIsShown
  BY SolvedStaysShown
<1>6. Spec => []BooksInv
  BY BooksInvariant
<1>7. AgreementInit => SecondInv
  BY InitSecond
<1>8. BooksInv' /\ SecondInv /\ [AgreementNext]_<<traced_vars, other, search2>> => SecondInv'
  BY NextSecond
<1>9. SecondInv =>
        /\ other = "HASH_ONLY" => HashOnly!UniqueStatesAddUp /\ HashOnly!SolvedIsShown
        /\ other = "BITMAP" => Bitmap!UniqueStatesAddUp /\ Bitmap!SolvedIsShown
  <2>1. ASSUME InHashOnly!ForgetfulInv
        PROVE  HashOnly!UniqueStatesAddUp /\ HashOnly!SolvedIsShown
    <3>1. InHashOnly!UniqueStatesAddUp
      BY <2>1 DEF InHashOnly!ForgetfulInv, InHashOnly!UniqueInv
    <3>2. InHashOnly!SolvedIsShown
      BY <2>1, HashOnlyGame, GameOfBoth, InHashOnly!ShownFollows DEF InHashOnly!ForgetfulInv
    <3> QED BY <3>1, <3>2, HashOnlySays
  <2>2. ASSUME InBitmap!ForgetfulInv
        PROVE  Bitmap!UniqueStatesAddUp /\ Bitmap!SolvedIsShown
    <3>1. InBitmap!UniqueStatesAddUp
      BY <2>2 DEF InBitmap!ForgetfulInv, InBitmap!UniqueInv
    <3>2. InBitmap!SolvedIsShown
      BY <2>2, BitmapGame, GameOfBoth, InBitmap!ShownFollows DEF InBitmap!ForgetfulInv
    <3> QED BY <3>1, <3>2, BitmapSays
  <2> QED BY <2>1, <2>2 DEF SecondInv
<1>10. /\ HaltsWhereAsked /\ UniqueStatesAddUp /\ SolvedIsShown
       /\ other = "HASH_ONLY" => HashOnly!UniqueStatesAddUp /\ HashOnly!SolvedIsShown
       /\ other = "BITMAP" => Bitmap!UniqueStatesAddUp /\ Bitmap!SolvedIsShown
       => EachSearchIsSound
  BY DEF EachSearchIsSound
<1> QED BY <1>1, <1>2, <1>3, <1>4, <1>5, <1>6, <1>7, <1>8, <1>9, <1>10, PTL DEF AgreementSpec
-----------------------------------------------------------------------------
(* The ideal search of a deal is the same one for every policy.            *)
LEMMA HashOnlyPlays ==
  \A d, h, n : Plays(d, h, n) <=> InHashOnly!Plays(d, h, n)
<1>1. /\ \A f : OpenIn(f) = InHashOnly!OpenIn(f) /\ TargetIn(f) = InHashOnly!TargetIn(f)
      /\ \A f : LastChild(f) = InHashOnly!LastChild(f) /\ Below(f) = InHashOnly!Below(f)
      /\ \A f, moves : WithMoves(f, moves) = InHashOnly!WithMoves(f, moves)
      /\ \A is : Note(is) = InHashOnly!Note(is)
      /\ \A m, d : DownLines(m, d) = InHashOnly!DownLines(m, d)
  BY DEF
    OpenIn, InHashOnly!OpenIn, TargetIn, InHashOnly!TargetIn, LastChild,
    InHashOnly!LastChild, Below, InHashOnly!Below, OtherChildren,
    InHashOnly!OtherChildren, NewNode, InHashOnly!NewNode, WithMoves,
    InHashOnly!WithMoves, Note, InHashOnly!Note, DownLines, InHashOnly!DownLines
<1>2. \A f : ToTarget(f) = InHashOnly!ToTarget(f) /\ UpLines(f) = InHashOnly!UpLines(f)
  BY <1>1 DEF ToTarget, InHashOnly!ToTarget, UpLines, InHashOnly!UpLines
<1>3. \A f : BackLines(f) = InHashOnly!BackLines(f) /\ BackTo(f) = InHashOnly!BackTo(f)
  BY <1>1, <1>2 DEF BackLines, InHashOnly!BackLines, BackTo, InHashOnly!BackTo
<1>4. \A d, f : Reached(d, f) = InHashOnly!Reached(d, f) /\ Offered(d, f) = InHashOnly!Offered(d, f)
  BY DEF
    Reached, InHashOnly!Reached, Offered, InHashOnly!Offered, PathOf, InHashOnly!PathOf,
    Played, InHashOnly!Played
<1>5. /\ \A moves : MissLines(moves) = InHashOnly!MissLines(moves)
      /\ \A f : HitLines(f) = InHashOnly!HitLines(f) /\ StuckLines(f) = InHashOnly!StuckLines(f)
      /\ \A f, moves : FreshLines(f, moves) = InHashOnly!FreshLines(f, moves)
  BY <1>1, <1>3 DEF
    MissLines, InHashOnly!MissLines, HitLines, InHashOnly!HitLines, StuckLines,
    InHashOnly!StuckLines, FreshLines, InHashOnly!FreshLines
<1>6. \A d, f, given : Said(d, f, given) = InHashOnly!Said(d, f, given)
  BY <1>1, <1>4, <1>5 DEF Said, InHashOnly!Said
<1>7. \A d, f, given : /\ Goes(d, f, given) = InHashOnly!Goes(d, f, given)
                       /\ Gives(d, f, given) = InHashOnly!Gives(d, f, given)
  BY <1>1, <1>3, <1>4 DEF Goes, InHashOnly!Goes, Gives, InHashOnly!Gives
<1>8. \A d, c : NextOf(d, c) = InHashOnly!NextOf(d, c)
  BY <1>6, <1>7 DEF NextOf, InHashOnly!NextOf
<1>9. Start = InHashOnly!Start
  BY DEF Start, InHashOnly!Start, NewNode, InHashOnly!NewNode
<1>10. /\ \A l : IsSeq(l) = InHashOnly!IsSeq(l)
       /\ \A a, b : Begins(a, b) = InHashOnly!Begins(a, b)
  BY DEF IsSeq, InHashOnly!IsSeq, Begins, InHashOnly!Begins
<1> QED BY <1>8, <1>9, <1>10 DEF Plays, InHashOnly!Plays

LEMMA BitmapPlays ==
  \A d, h, n : Plays(d, h, n) <=> InBitmap!Plays(d, h, n)
<1>1. /\ \A f : OpenIn(f) = InBitmap!OpenIn(f) /\ TargetIn(f) = InBitmap!TargetIn(f)
      /\ \A f : LastChild(f) = InBitmap!LastChild(f) /\ Below(f) = InBitmap!Below(f)
      /\ \A f, moves : WithMoves(f, moves) = InBitmap!WithMoves(f, moves)
      /\ \A is : Note(is) = InBitmap!Note(is)
      /\ \A m, d : DownLines(m, d) = InBitmap!DownLines(m, d)
  BY DEF
    OpenIn, InBitmap!OpenIn, TargetIn, InBitmap!TargetIn, LastChild, InBitmap!LastChild,
    Below, InBitmap!Below, OtherChildren, InBitmap!OtherChildren, NewNode,
    InBitmap!NewNode, WithMoves, InBitmap!WithMoves, Note, InBitmap!Note, DownLines,
    InBitmap!DownLines
<1>2. \A f : ToTarget(f) = InBitmap!ToTarget(f) /\ UpLines(f) = InBitmap!UpLines(f)
  BY <1>1 DEF ToTarget, InBitmap!ToTarget, UpLines, InBitmap!UpLines
<1>3. \A f : BackLines(f) = InBitmap!BackLines(f) /\ BackTo(f) = InBitmap!BackTo(f)
  BY <1>1, <1>2 DEF BackLines, InBitmap!BackLines, BackTo, InBitmap!BackTo
<1>4. \A d, f : Reached(d, f) = InBitmap!Reached(d, f) /\ Offered(d, f) = InBitmap!Offered(d, f)
  BY DEF
    Reached, InBitmap!Reached, Offered, InBitmap!Offered, PathOf, InBitmap!PathOf,
    Played, InBitmap!Played
<1>5. /\ \A moves : MissLines(moves) = InBitmap!MissLines(moves)
      /\ \A f : HitLines(f) = InBitmap!HitLines(f) /\ StuckLines(f) = InBitmap!StuckLines(f)
      /\ \A f, moves : FreshLines(f, moves) = InBitmap!FreshLines(f, moves)
  BY <1>1, <1>3 DEF
    MissLines, InBitmap!MissLines, HitLines, InBitmap!HitLines, StuckLines,
    InBitmap!StuckLines, FreshLines, InBitmap!FreshLines
<1>6. \A d, f, given : Said(d, f, given) = InBitmap!Said(d, f, given)
  BY <1>1, <1>4, <1>5 DEF Said, InBitmap!Said
<1>7. \A d, f, given : /\ Goes(d, f, given) = InBitmap!Goes(d, f, given)
                       /\ Gives(d, f, given) = InBitmap!Gives(d, f, given)
  BY <1>1, <1>3, <1>4 DEF Goes, InBitmap!Goes, Gives, InBitmap!Gives
<1>8. \A d, c : NextOf(d, c) = InBitmap!NextOf(d, c)
  BY <1>6, <1>7 DEF NextOf, InBitmap!NextOf
<1>9. Start = InBitmap!Start
  BY DEF Start, InBitmap!Start, NewNode, InBitmap!NewNode
<1>10. /\ \A l : IsSeq(l) = InBitmap!IsSeq(l)
       /\ \A a, b : Begins(a, b) = InBitmap!Begins(a, b)
  BY DEF IsSeq, InBitmap!IsSeq, Begins, InBitmap!Begins
<1> QED BY <1>8, <1>9, <1>10 DEF Plays, InBitmap!Plays

-----------------------------------------------------------------------------
(* The course of the second search.                                        *)
LEMMA ComparedBoth ==
  ASSUME GameIsSound, PositionsAreClosed, HashesTell, NumBits # 0
  PROVE  InHashOnly!Comparable /\ InBitmap!Comparable
<1>1. InHashOnly!GameIsSound /\ InBitmap!GameIsSound
  BY SoundOfBoth
<1>2. InHashOnly!PositionsAreClosed /\ InBitmap!PositionsAreClosed
  BY MovesOfBoth DEF PositionsAreClosed, InHashOnly!PositionsAreClosed, InBitmap!PositionsAreClosed
<1>3. InHashOnly!HashesTell /\ InBitmap!HashesTell
  BY DEF HashesTell, InHashOnly!HashesTell, InBitmap!HashesTell,
         Normalised, InHashOnly!Normalised, InBitmap!Normalised
<1>4. InBitmap!NumBits # 0
  BY DEF NumBits, InBitmap!NumBits
<1>5. "HASH_ONLY" \in InHashOnly!ExactPolicies
  BY DEF InHashOnly!ExactPolicies
<1> QED BY <1>1, <1>2, <1>3, <1>4, <1>5 DEF InHashOnly!Comparable, InBitmap!Comparable

(* The second search keeps its course, also while the first runs: it waits *)
(* then, and a first that is halted keeps it from running.                 *)
SecondCourse ==
  /\ other \in {"HASH_ONLY", "BITMAP"}
  /\ other = "HASH_ONLY" => InHashOnly!CourseInv
  /\ other = "BITMAP" => InBitmap!CourseInv

LEMMA InitSecondCourse ==
  ASSUME GameIsSound, PositionsAreClosed, HashesTell, NumBits # 0, AgreementInit
  PROVE  SecondCourse
<1>1. \/ other = "HASH_ONLY" /\ InHashOnly!TracedInit
      \/ other = "BITMAP" /\ InBitmap!TracedInit
  BY HashOnlyInit, BitmapInit DEF AgreementInit
<1>2. CASE other = "HASH_ONLY" /\ InHashOnly!TracedInit
  BY <1>2, HashOnlyGame, ComparedBoth, InHashOnly!InitCourse DEF SecondCourse
<1>3. CASE other = "BITMAP" /\ InBitmap!TracedInit
  BY <1>3, BitmapGame, ComparedBoth, InBitmap!InitCourse DEF SecondCourse
<1> QED BY <1>1, <1>2, <1>3

LEMMA FirstGoesOn ==
  ASSUME [TracedNext]_traced_vars
  PROVE  UNCHANGED <<init_state, request>> /\ (halted' = "no" => halted = "no")
<1>1. UNCHANGED init_state
  <2>1. [Next]_vars
    BY TracedIsNext
  <2> QED BY <2>1 DEF Next, Dfs, Uncut, Dominate, Expand, DeadEnd, Duplicate, MemLimit, Turn,
                      InBudget, Running, TimeOut, Terminate, Solve, Clock, Signal, vars
<1>2. CASE TracedDfs
  BY <1>1, <1>2 DEF TracedDfs, TracedDominate, TracedExpand, TracedDeadEnd,
                    TracedDuplicate, TracedMemLimit, TracedEnd, Unhalted
<1>3. CASE TracedEnvironment \/ UNCHANGED traced_vars
  BY <1>1, <1>3 DEF TracedEnvironment, traced_vars, tracing
<1> QED BY <1>2, <1>3 DEF TracedNext

LEMMA NextSecondCourse ==
  ASSUME GameIsSound, PositionsAreClosed, HashesTell, NumBits # 0, SecondInv, SecondCourse,
         [AgreementNext]_<<traced_vars, other, search2>>
  PROVE  SecondCourse'
<1>1. CASE [TracedNext]_traced_vars /\ UNCHANGED <<other, search2>>
  <2>1. /\ UNCHANGED <<init_state, request, other>> /\ (halted' = "no" => halted = "no")
        /\ UNCHANGED <<frontier2, cache2, expanded2, result2, trace2>>
    BY <1>1, FirstGoesOn DEF search2
  <2>2. other = "HASH_ONLY" => InHashOnly!CourseInv'
    BY <2>1, HashOnlyGame, InHashOnly!WaitCourse DEF SecondCourse
  <2>3. other = "BITMAP" => InBitmap!CourseInv'
    BY <2>1, BitmapGame, InBitmap!WaitCourse DEF SecondCourse
  <2> QED BY <2>1, <2>2, <2>3 DEF SecondCourse
<1>2. CASE other = "HASH_ONLY" /\ InHashOnly!TracedDfs /\ UNCHANGED other
  <2>1. InHashOnly!TracedNext
    BY <1>2 DEF InHashOnly!TracedNext
  <2>2. InHashOnly!BooksInv /\ InHashOnly!CourseInv
    BY <1>2 DEF SecondInv, SecondCourse, InHashOnly!ForgetfulInv
  <2>3. InHashOnly!CourseInv'
    BY <2>1, <2>2, HashOnlyGame, ComparedBoth, InHashOnly!NextCourse
  <2> QED BY <1>2, <2>3 DEF SecondCourse
<1>3. CASE other = "BITMAP" /\ InBitmap!TracedDfs /\ UNCHANGED other
  <2>1. InBitmap!TracedNext
    BY <1>3 DEF InBitmap!TracedNext
  <2>2. InBitmap!BooksInv /\ InBitmap!CourseInv
    BY <1>3 DEF SecondInv, SecondCourse, InBitmap!ForgetfulInv
  <2>3. InBitmap!CourseInv'
    BY <2>1, <2>2, BitmapGame, ComparedBoth, InBitmap!NextCourse
  <2> QED BY <1>3, <2>3 DEF SecondCourse
<1> QED BY <1>1, <1>2, <1>3, AgreementSteps DEF SecondInv

(* Who agrees with the ideal search agrees with who else does.             *)
LEMMA AgreementFollows ==
  ASSUME CourseInv, Policy # "BITMAP", SecondCourse
  PROVE  AgreeUntilEvict
<1>1. PICK n, h : Plays(init_state, h, n) /\ Agrees(h[n].lines, trace)
  BY DEF CourseInv, IdealInv
<1> DEFINE bad2 == Own(trace2) \union (IF other = "BITMAP" THEN Mistaken(trace2) ELSE {})
<1>2. \E m, g : /\ Plays(init_state, g, m)
                /\ \A k \in 1..Len(trace2) :
                     bad2 \intersect 1..k = {} => k <= Len(g[m].lines) /\ Line(trace2[k]) = g[m].lines[k]
  <2>1. CASE other = "HASH_ONLY"
    <3>1. PICK m, g : InHashOnly!Plays(init_state, g, m) /\ InHashOnly!Agrees(g[m].lines, trace2)
      BY <2>1 DEF SecondCourse, InHashOnly!CourseInv, InHashOnly!IdealInv
    <3>2. InHashOnly!Bad(trace2) = bad2 /\ \A e : InHashOnly!Line(e) = Line(e)
      BY <2>1 DEF InHashOnly!Bad, InHashOnly!Own, Own, InHashOnly!Line, Line
    <3>3. Plays(init_state, g, m)
      BY <3>1, HashOnlyPlays
    <3> HIDE DEF bad2
    <3>4. \A k \in 1..Len(trace2) :
            bad2 \intersect 1..k = {} => k <= Len(g[m].lines) /\ Line(trace2[k]) = g[m].lines[k]
      BY <3>1, <3>2 DEF InHashOnly!Agrees
    <3> QED BY <3>3, <3>4
  <2>2. CASE other = "BITMAP"
    <3>1. PICK m, g : InBitmap!Plays(init_state, g, m) /\ InBitmap!Agrees(g[m].lines, trace2)
      BY <2>2 DEF SecondCourse, InBitmap!CourseInv, InBitmap!IdealInv
    <3>2. InBitmap!Bad(trace2) = bad2 /\ \A e : InBitmap!Line(e) = Line(e)
      BY <2>2 DEF InBitmap!Bad, InBitmap!Own, Own, InBitmap!Mistaken, Mistaken,
                  InBitmap!Line, Line
    <3>3. Plays(init_state, g, m)
      BY <3>1, BitmapPlays
    <3> HIDE DEF bad2
    <3>4. \A k \in 1..Len(trace2) :
            bad2 \intersect 1..k = {} => k <= Len(g[m].lines) /\ Line(trace2[k]) = g[m].lines[k]
      BY <3>1, <3>2 DEF InBitmap!Agrees
    <3> QED BY <3>3, <3>4
  <2> QED BY <2>1, <2>2 DEF SecondCourse
<1>3. PICK m, g : /\ Plays(init_state, g, m)
                  /\ \A k \in 1..Len(trace2) :
                       bad2 \intersect 1..k = {} => k <= Len(g[m].lines) /\ Line(trace2[k]) = g[m].lines[k]
  BY <1>2
<1> HIDE DEF bad2
<1>4. \A k : k \in 1..Len(h[n].lines) /\ k \in 1..Len(g[m].lines) => h[n].lines[k] = g[m].lines[k]
  BY <1>1, <1>3, BothAgree
<1>5. /\ trace \in Seq(TraceEvent)
      /\ DOMAIN trace = 1..Len(trace) /\ Len(trace) \in Nat
  <2>1. trace \in Seq(TraceEvent)
    BY DEF CourseInv, IdealInv
  <2> QED BY ONLY <2>1, LenProperties
<1>6. DOMAIN trace2 = 1..Len(trace2)
  <2>1. CASE other = "HASH_ONLY"
    <3>1. trace2 \in Seq(InHashOnly!TraceEvent)
      BY <2>1 DEF SecondCourse, InHashOnly!CourseInv, InHashOnly!IdealInv
    <3> QED BY ONLY <3>1, LenProperties
  <2>2. CASE other = "BITMAP"
    <3>1. trace2 \in Seq(InBitmap!TraceEvent)
      BY <2>2 DEF SecondCourse, InBitmap!CourseInv, InBitmap!IdealInv
    <3> QED BY ONLY <3>1, LenProperties
  <2> QED BY <2>1, <2>2 DEF SecondCourse
<1>7. ASSUME NEW k \in DOMAIN trace \intersect DOMAIN trace2,
             (Own(trace) \union bad2) \intersect 1..k = {}
      PROVE  Line(trace[k]) = Line(trace2[k])
  <2>1. k \in 1..Len(trace) /\ k \in 1..Len(trace2) /\ k \in Nat /\ k >= 1
    <3>1. k \in 1..Len(trace) /\ k \in 1..Len(trace2)
      BY <1>5, <1>6
    <3> QED BY ONLY <3>1, <1>5
  <2>2. Bad(trace) \intersect 1..k = {} /\ bad2 \intersect 1..k = {}
    BY <1>7 DEF Bad
  <2>3. k <= Len(h[n].lines) /\ Line(trace[k]) = h[n].lines[k]
    BY <1>1, <2>1, <2>2 DEF Agrees
  <2>4. k <= Len(g[m].lines) /\ Line(trace2[k]) = g[m].lines[k]
    BY <1>3, <2>1, <2>2
  <2>5. Len(h[n].lines) \in Nat /\ Len(g[m].lines) \in Nat
    <3>1. IsSeq(h[n].lines) /\ IsSeq(g[m].lines)
      BY <1>1, <1>3 DEF Plays
    <3>2. \A l : IsSeq(l) => Len(l) \in Nat
      BY DEF IsSeq
    <3> QED BY <3>1, <3>2
  <2>6. k \in 1..Len(h[n].lines) /\ k \in 1..Len(g[m].lines)
    BY <2>1, <2>3, <2>4, <2>5
  <2> QED BY <1>4, <2>3, <2>4, <2>6
<1> QED BY <1>7 DEF AgreeUntilEvict, bad2

(* Two searches of one deal, the first with the flat cache or its          *)
(* hash-only form, the second with the hash-only cache or the bitmap,      *)
(* write the same lines as long as neither has evicted anything, used up a *)
(* budget or been halted, and the bitmap has taken no state for another;   *)
(* whatever the sizes of the caches, as long as no two positions of the    *)
(* deal that differ have one hash.  An LRU search is not compared: it      *)
(* keeps its piles in order, these do not, so that from the first move it  *)
(* searches another tree (search_trace_agreement_test.cpp).                *)
THEOREM TracesAgreeUntilEvict ==
  ASSUME GameIsSound, PositionsAreClosed, HashesTell, MovesAreMarked, NumBits # 0,
         Policy \in {"FLAT", "HASH_ONLY"}
  PROVE  AgreementSpec => []AgreeUntilEvict
<1>1. AgreementSpec => TracedSpec
  BY SecondSearchLeavesTheFirst
<1>2. TracedSpec => Spec
  BY TracingChangesNothing
<1>3. Spec => []BooksInv
  BY BooksInvariant
<1>4. Spec => [](Policy = "LRU" => LRUInv)
  <2>1. Policy = "LRU" => LRUInv
    OBVIOUS
  <2> QED BY <2>1, PTL
<1>5. Comparable /\ Policy # "BITMAP"
  BY DEF Comparable, ExactPolicies
<1>6. TracedInit => CourseInv
  BY <1>5, InitCourse
<1>7. BooksInv /\ (Policy = "LRU" => LRUInv) /\ CourseInv /\ [TracedNext]_traced_vars => CourseInv'
  BY <1>5, NextCourse
<1>8. AgreementInit => SecondInv /\ SecondCourse
  BY InitSecond, InitSecondCourse
<1>9. BooksInv' /\ SecondInv /\ SecondCourse /\ [AgreementNext]_<<traced_vars, other, search2>>
        => SecondInv' /\ SecondCourse'
  BY NextSecond, NextSecondCourse
<1>10. CourseInv /\ SecondCourse => AgreeUntilEvict
  BY <1>5, AgreementFollows
<1>11. TracedSpec => []CourseInv
  BY <1>2, <1>3, <1>4, <1>6, <1>7, PTL DEF TracedSpec
<1> QED BY <1>1, <1>2, <1>3, <1>8, <1>9, <1>10, <1>11, PTL DEF AgreementSpec
=============================================================================
