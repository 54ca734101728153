SPECIFICATION Spec
CONSTANTS
  Versions = {v1, v2, v3}
  None = None
SYMMETRY Symmetry
INVARIANTS
  TypeOK
  GenerationsKept
  ResultTrue
