SPECIFICATION RunSpec
CONSTANTS
  CommandLines <- MCCommandLines
  Presets <- MCPresets
  RulesFiles <- MCRulesFiles
  InputFiles <- MCInputFiles
  SeedDeal <- MCSeedDeal
  NoName = ""
  MaxWords = 6
  MaxUnsigned = 15
INVARIANTS ReportIsRight EachInputAnswered LineIsUnderstood
CHECK_DEADLOCK FALSE
