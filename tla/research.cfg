SPECIFICATION FairSpec
CONSTANTS
  Calls = {c1, c2}
  Controllers = {c1}
  MaxSteps = 3
  MaxModelCalls = 4
  MaxProofAttempts = 2
  Kills = TRUE
  WritesFail = FALSE
  MultiProcess = FALSE
INVARIANTS
  TypeOK
  OneStepAhead
  OutcomesCounted
  CreatedOnce
  SpendingWithinBudget
PROPERTIES
  NothingTakenBack
  CompletionEarned
  RunEnds
