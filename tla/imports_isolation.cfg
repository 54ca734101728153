SPECIFICATION Spec
CONSTANTS
  Calls = {c1, c2}
  Lemmas = {}
  Texts = {t1}
  MaxRecords = 1
  MaxClones = 1
  MaxMoves = 0
  Steps = TRUE
  Kills = FALSE
  WritesFail = FALSE
SYMMETRY Symmetry
INVARIANT WorkersIsolated
CHECK_DEADLOCK FALSE
