SPECIFICATION Spec
CONSTANTS
  Styles = {"plain", "forced", "pruned"}
  MaxFrontier = 6
  Deals <- GameDeals
  Positions <- GamePositions
  State <- GameState
  Move <- GameMove
  NullMove <- GameNullMove
  NoMove <- GameNoMove
  Solved <- GameSolved
  DominanceMove <- GameDominanceMove
  LegalMoves <- GameLegalMoves
  Apply <- GameApply
  Key <- GameKey
INVARIANTS NothingLost UnsolvableIsRight SolvedIsShown
CHECK_DEADLOCK FALSE
