SPECIFICATION Spec
CONSTANTS
  Agents = {1, 2}
  Drivers = {d1}
  MaxWidth = 2
  MaxRounds = 1
  MaxCalls = 1
  Kills = FALSE
  Nobody = Nobody
  Impatient = FALSE
INVARIANT SpendingWithinLimit
