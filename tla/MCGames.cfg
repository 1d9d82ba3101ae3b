SPECIFICATION MCSpec
CONSTANTS
  Wanted = {"klondike", "klondike_big", "klondike_three", "klondike_lru", "klondike_mult", "klondike_suits", "canfield", "canfield_any", "canfield_mult", "freecell", "freecell_lru", "freecell_both", "seahaven", "seahaven_mult", "seahaven_auto", "blackhole", "golf", "golf_lru", "spider", "spiderette", "spiderette_lru", "fortunes", "fortunes_lru", "accordion", "gaps", "gaps_fixed", "gaps_both", "forty", "flower", "flower_lru"}
  Policy = "LRU"
  Hash <- MCHash
  HashSpace = 1
  MaxEntries = 100000
  DepthMax = 65535
  CheckInterval = 4096
  StateCaps = {0}
  MaxFrontier = 2000
  Deals <- MCDeals
  Positions <- MCPositions
  State = {}
  Move = {}
  NullMove <- NullMoveOfGame
  NoMove <- MCNoMove
  Solved <- IsSolved
  DominanceMove <- MCDominanceMove
  LegalMoves <- LegalMovesOf
  Apply <- MakeMove
  Undo <- UndoMove
  Key <- KeyOf
INVARIANTS VerdictIsRight KnownIsSearched StoreIsRight PilesAreRight PicturesAreRight
CHECK_DEADLOCK FALSE
