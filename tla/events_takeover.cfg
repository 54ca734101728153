SPECIFICATION Spec
CONSTANTS
  Procs = {p1, p2, p3}
  Missing = Missing
  Empty = Empty
  MaxEvents = 2
  Scenarios = {{"end"}}
SYMMETRY Symmetry
INVARIANT SectionExclusive
CHECK_DEADLOCK FALSE
