SPECIFICATION Spec
CONSTANTS
  Calls = {c1, c2}
  Controllers = {c1, c2}
  MaxSteps = 2
  MaxModelCalls = 2
  MaxProofAttempts = 1
  Kills = TRUE
  WritesFail = TRUE
  MultiProcess = TRUE
SYMMETRY Symmetry
VIEW WithoutHistory
INVARIANTS
  RecordComplete
  UsageWithinLimits
