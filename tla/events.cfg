SPECIFICATION FairSpec
CONSTANTS
  Procs = {p1, p2}
  Missing = Missing
  Empty = Empty
  MaxEvents = 2
  Scenarios = {{"file"}, {"end", "file", "rows"}, {"end", "owner", "file", "rows"}}
INVARIANTS
  TypeOK
  SectionExclusive
  OnlyBehind
  GapReported
PROPERTIES
  RebuildHeals
  ImplementsDurableHistory
  AbandonedLockBroken
CHECK_DEADLOCK FALSE
