SPECIFICATION Spec
CONSTANTS
  Claims = {c1}
  Theorems = {}
  Contexts = {x1, x2}
  CreationStatuses = {"CONJECTURE"}
  Jobs = {j1}
  None = None
  MaxFormals = 2
  MaxProofs = 2
  MaxRuns = 2
  MaxAlignments = 1
  MaxRevisions = 3
  MultiProcess = FALSE
INVARIANT ApprovalBoundToStatement
CHECK_DEADLOCK FALSE
