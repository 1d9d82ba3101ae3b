SPECIFICATION MCSpec
CONSTANTS
  Wanted = {"east_haven"}
  Policy = "LRU"
  Hash <- MCHash
  HashSpace = 1
  MaxEntries = 100000
  DepthMax = 65535
  CheckInterval = 4096
  StateCaps = {0}
  MaxFrontier = 2000
  Deals <- MCDeals
  Positions <- MCPositions
  State = {}
  Move = {}
  NullMove <- NullMoveOfGame
  NoMove <- MCNoMove
  Solved <- IsSolved
  DominanceMove <- MCDominanceMove
  LegalMoves <- LegalMovesOf
  Apply <- MakeMove
  Undo <- UndoMove
  Key <- KeyOf
INVARIANT VerdictIsRight
CHECK_DEADLOCK FALSE
