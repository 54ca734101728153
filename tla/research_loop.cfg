SPECIFICATION FairSpec
CONSTANTS
  Calls = {c1}
  Controllers = {c1}
  MaxSteps = 2
  MaxModelCalls = 3
  MaxProofAttempts = 2
  Kills = TRUE
  WritesFail = FALSE
  MultiProcess = FALSE
PROPERTY RunAlwaysEnds
