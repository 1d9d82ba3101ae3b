SPECIFICATION Spec
CONSTANTS
  Requests <- MCRequests
  Presets <- MCPresets
  RulesFiles <- MCRulesFiles
  DealFiles <- MCDealFiles
  GameOf <- MCGameOf
  SeedDeal <- MCSeedDeal
  Times = {2, 6}
  Peaks = {1, 2}
  Millisecond = 6
INVARIANTS ReportTellsTheSamples MeasuresWhatIsSolved
CHECK_DEADLOCK FALSE
