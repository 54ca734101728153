SPECIFICATION Spec
CONSTANTS
  Agents = {1, 2}
  Drivers = {d1, d2}
  MaxWidth = 2
  MaxRounds = 2
  MaxCalls = 1
  Kills = TRUE
  Nobody = Nobody
  Impatient = FALSE
SYMMETRY Symmetry
VIEW WithoutHistory
INVARIANTS
  TypeOK
  StepUnderLease
  RoundsInOrder
PROPERTIES
  
  BlockedForGood
  OnlyFailureForgets
  
