SPECIFICATION MCSpec
CONSTANTS
  Cards = {0, 1, 51}
  Suits = {0, 1, 3}
  Ranks = {0, 13}
  Pointers = {0, 52}
  Values = {0, 9}
  Rules <- MCRules
  Depths = {0, 258}
  t1 = t1
  t2 = t2
  t3 = t3
  Threads <- MCThreads
  DeckRanks = 3
  Boards <- MCBoards
  MaxIterations = 20
  MaxDepth = 2
  Columns = 2
  Games = 2
  Policies = {"FLAT", "HASH_ONLY", "PREDECESSOR", "MULTIPLICITY"}
  Key = {1, 2, 3, 4, 5}
  Hash <- MCHash
  HashSpace = 4
  MaxEntries = 4
  Depth = {0, 1, 2}
  MaxInserts = 6
SYMMETRY Symmetry
INVARIANTS
  NoFalsePositive BucketsAreRight NothingForgotten
  KeysAreFinal SlotsAreRight IncrementalIsScratch AlikeShareSlots
PROPERTIES InsertedIsFound IsHashDescriptorStore
CHECK_DEADLOCK FALSE
