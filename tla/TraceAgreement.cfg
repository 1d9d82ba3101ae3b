SPECIFICATION AgreementSpec
CONSTANTS
  Policy = "FLAT"
  Hash <- OwnHash
  HashSpace = 8
  MaxEntries = 4
  DepthMax = 9
  CheckInterval = 3
  StateCaps = {0, 12}
  Styles = {"plain", "forced"}
  MaxFrontier = 9
  Deals <- GameDeals
  Positions <- GamePositions
  State <- GameState
  Move <- GameMove
  NullMove <- GameNullMove
  NoMove <- GameNoMove
  Solved <- GameSolved
  DominanceMove <- GameDominanceMove
  LegalMoves <- GameLegalMoves
  Apply <- GameApply
  Undo <- GameUndo
  Key <- GameKey
  Requests <- AgreementRequests
INVARIANTS AgreeUntilEvict EachSearchIsSound
CHECK_DEADLOCK FALSE
