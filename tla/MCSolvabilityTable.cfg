SPECIFICATION FairTableSpec
CONSTANTS
  Cores = 2
  SeedCount = 3
  Resumes = {{0, 1}, {1, 2}}
  ResumeCounts <- MCResumeCounts
  Smart = TRUE
  Timeout = 2
  SmartTimeout = 1
  Solvable = {0, 1}
  Confused = {1}
  Works <- MCWorks
  MaxCpu = 12
  Options <- MCOptions
INVARIANTS OncePerSeed NoSeedDropped VerdictsAreRight LinesAreRight
PROPERTIES Completion
CHECK_DEADLOCK FALSE
