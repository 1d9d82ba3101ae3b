SPECIFICATION Spec
CONSTANTS
  Games <- MCGamesPlayed
  Seeds = {1}
  ShuffledDeck <- MCDeck
  Options <- MCOptions
  Reveals = {TRUE, FALSE}
  AssertBuilds <- MCBuilds
  Edits <- MCEdits
  Steps = 8
INVARIANTS DealIsReadBack PlayIsKept EditIsRead
CHECK_DEADLOCK FALSE
