SPECIFICATION FairSpec
CONSTANTS
  Policy = "LRU"
  Hash <- PositionHash
  HashSpace = 4
  MaxEntries = 2
  DepthMax = 9
  CheckInterval = 3
  StateCaps = {0, 4}
  Styles = {"plain", "forced", "pruned"}
  MaxFrontier = 7
  Deals <- GameDeals
  Positions <- GamePositions
  State <- GameState
  Move <- GameMove
  NullMove <- GameNullMove
  NoMove <- GameNoMove
  Solved <- GameSolved
  DominanceMove <- GameDominanceMove
  LegalMoves <- GameLegalMoves
  Apply <- GameApply
  Undo <- GameUndo
  Requests <- MCRequests
  Key <- GameKey
INVARIANTS OpenPathIsKept MemLimitIsHonest BooksAreRight TraceTellsTheSearch SolutionIsAPlay
PROPERTIES IsDepthFirstSearch Termination
CHECK_DEADLOCK FALSE
