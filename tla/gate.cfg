SPECIFICATION Spec
CONSTANTS
  Claims = {c1}
  Theorems = {c1}
  Contexts = {x1, x2}
  CreationStatuses = {"CONJECTURE"}
  Jobs = {j1, j2}
  None = None
  MaxFormals = 2
  MaxProofs = 2
  MaxRuns = 2
  MaxAlignments = 1
  MaxRevisions = 2
  MultiProcess = FALSE
SYMMETRY Symmetry
INVARIANTS
  TypeOK
  VerifiedHasEvidence
  OneCurrentFormal
PROPERTIES
  EvidenceImmutable
  AcceptedRunPromotes
  PromotionNeedsCurrentApproval
  OnlyMergeRetracts
  ImplementsTrustModel
CHECK_DEADLOCK FALSE
