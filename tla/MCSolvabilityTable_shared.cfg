SPECIFICATION TableSpec
CONSTANTS
  Cores = 2
  SeedCount = 3
  Resumes = {{0, 1}}
  ResumeCounts <- MCResumeCounts
  Smart = FALSE
  Timeout = 2
  SmartTimeout = 1
  Solvable = {0, 1}
  Confused = {1}
  Works <- MCWorks
  MaxCpu = 12
  Options <- MCOptions
INVARIANTS BudgetIsOwnWork
CHECK_DEADLOCK FALSE
