SPECIFICATION Spec
CONSTANTS
  Calls = {c1, c2}
  Lemmas = {l1}
  Texts = {t1, t2}
  MaxRecords = 2
  MaxClones = 2
  MaxMoves = 3
  Steps = TRUE
  Kills = TRUE
  WritesFail = TRUE
SYMMETRY Symmetry
INVARIANTS
  TypeOK
  NothingHalfDone
  BranchRestored
PROPERTIES
  AppliedOnEvidence
  TargetKept
CHECK_DEADLOCK FALSE
