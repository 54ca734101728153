----------------------- MODULE VerificationGateProofs -----------------------
(***************************************************************************)
(* Proofs about VerificationGate for every set of claims, jobs and         *)
(* contexts, every table size, and one process as well as many.            *)
(***************************************************************************)
EXTENDS VerificationGate, TLAPS

(* The rows of the tables, and what a step of one job does to the job table. *)

LEMMA IdleType == Idle \in JobRow
BY ConstantsAssumption DEF Idle, JobRow, Fields, PCs, ContextRevisions, NoContext, ClaimStatus

\* Moving one job to a well-typed record keeps the job table well typed.
LEMMA GotoType ==
  ASSUME TypeOK, NEW j \in Jobs, NEW next \in JobRow, Goto(j, next)
  PROVE  job' \in [Jobs -> JobRow]
BY DEF TypeOK, Goto

\* A call in flight has a claim of the workspace, and its references are well typed.
LEMMA ActiveJob ==
  ASSUME TypeOK, NEW j \in Jobs, NEW pc, pc # "idle", At(j, pc)
  PROVE  /\ job[j] \in Fields /\ job[j].pc = pc /\ job[j].claim \in Claims
         /\ job[j].formal \in FormalIds \union {0} /\ job[j].proof \in ProofIds \union {0}
         /\ job[j].nat \in Nat /\ job[j].frm \in Nat /\ job[j].ctx \in ContextRevisions
         /\ job[j].checks \subseteq Checks
BY DEF TypeOK, JobRow, Fields, At

LEMMA ReportType ==
  ASSUME NEW c, NEW p, NEW lean
  PROVE  GateReport(c, p, lean) \subseteq Checks
BY DEF GateReport, Checks

LEMMA FidelityReported ==
  ASSUME NEW c, NEW p, NEW lean, "fidelity" \in GateReport(c, p, lean)
  PROVE  CurrentApproval(c)
<1>1. /\ "fidelity" # "current revision" /\ "fidelity" # "proof compiles"
      /\ "fidelity" # "forbidden constructs" /\ "fidelity" # "custom axioms"
      /\ "fidelity" # "Lean version" /\ "fidelity" # "toolchain pinned"
  OBVIOUS
<1> QED BY <1>1, Zenon DEF GateReport

-----------------------------------------------------------------------------
\* Every reachable state is well typed: the tables keep their shape and no job holds a
\* reference outside them, for the handlers of all the services.
THEOREM TypeCorrect == Spec => []TypeOK
<1>1. Init => TypeOK
  BY ConstantsAssumption, IdleType
  DEF Init, TypeOK, NoAlignment, FormalRow, ProofRow, RunRow, NaturalRow, RevisionRow,
      AlignmentRow, ClaimStatus, Fidelity, ContextRevisions
<1>2. TypeOK /\ [Next]_vars => TypeOK'
  <2> SUFFICES ASSUME TypeOK, [Next]_vars PROVE TypeOK'
    OBVIOUS
  <2> USE ConstantsAssumption
  <2>1. ASSUME NEW j \in Jobs, NEW c \in Claims, NEW status \in CreationStatuses,
               CreateClaim(j, c, status)
        PROVE  TypeOK'
    <3>1. [Idle EXCEPT !.pc = "captureNatural", !.claim = c, !.ctx = context] \in JobRow
      BY IdleType DEF TypeOK, JobRow, Fields, PCs, SyncPoints, ContextRevisions, Idle
    <3>2. job' \in [Jobs -> JobRow]
      BY <2>1, <3>1, GotoType DEF CreateClaim
    <3> QED BY <2>1, <3>2 DEF CreateClaim, TypeOK, rows, bindings, ClaimStatus
  <2>2. ASSUME NEW j \in Jobs, CaptureNatural(j) PROVE TypeOK'
    <3>1. /\ job[j] \in JobRow
          /\ [job[j] EXCEPT !.pc = "captureFormal"] \in JobRow
          /\ job[j].claim \in Claims /\ job[j].ctx \in ContextRevisions
      BY <2>2, ActiveJob DEF CaptureNatural, TypeOK, JobRow, Fields, PCs, SyncPoints
    <3>2. job' \in [Jobs -> JobRow]
      BY <2>2, <3>1, IdleType, GotoType DEF CaptureNatural
    <3>3. natural' \in [Claims -> NaturalRow]
      BY <2>2, <3>1 DEF CaptureNatural, TypeOK, NaturalRow
    <3> QED BY <2>2, <3>2, <3>3 DEF CaptureNatural, TypeOK, rows
  <2>3. ASSUME NEW j \in Jobs, CaptureFormal(j) PROVE TypeOK'
    <3>1. job' \in [Jobs -> JobRow]
      BY <2>3, IdleType, GotoType DEF CaptureFormal
    <3>2. revision' \in [Claims -> RevisionRow]
      BY <2>3, ActiveJob DEF CaptureFormal, TypeOK, RevisionRow
    <3> QED BY <2>3, <3>1, <3>2 DEF CaptureFormal, TypeOK, rows
  <2>4. ASSUME NEW j \in Jobs, NEW c \in Claims, FormalizeBegin(j, c) PROVE TypeOK'
    <3>1. [Idle EXCEPT !.pc = "formalize", !.claim = c] \in JobRow
      BY IdleType DEF JobRow, Fields, PCs, SyncPoints, Idle
    <3>2. job' \in [Jobs -> JobRow]
      BY <2>4, <3>1, GotoType DEF FormalizeBegin
    <3> QED BY <2>4, <3>2 DEF FormalizeBegin, TypeOK, rows, bindings
  <2>5. ASSUME NEW j \in Jobs, NEW fidelity \in Fidelity, FormalizePersist(j, fidelity) PROVE TypeOK'
    <3>1. PICK new \in FormalIds :
            /\ formal' = [f \in FormalIds |->
                 IF f = new THEN [claim |-> job[j].claim, current |-> TRUE, fidelity |-> fidelity]
                 ELSE [formal[f] EXCEPT !.current = @ /\ formal[f].claim # job[j].claim]]
            /\ Goto(j, [Idle EXCEPT !.pc = "captureNatural", !.claim = job[j].claim,
                                    !.formal = new, !.ctx = context])
      BY <2>5 DEF FormalizePersist
    <3>2. job[j].claim \in Claims
      BY <2>5, ActiveJob DEF FormalizePersist
    <3>3. [Idle EXCEPT !.pc = "captureNatural", !.claim = job[j].claim, !.formal = new,
                       !.ctx = context] \in JobRow
      BY <3>2, IdleType DEF TypeOK, JobRow, Fields, PCs, SyncPoints, ContextRevisions, Idle
    <3>4. job' \in [Jobs -> JobRow]
      BY <3>1, <3>3, GotoType
    <3>5. formal' \in [FormalIds -> FormalRow]
      BY <3>1, <3>2 DEF TypeOK, FormalRow
    <3> QED BY <2>5, <3>4, <3>5 DEF FormalizePersist, TypeOK, bindings
  <2>6. ASSUME NEW j \in Jobs, NEW f \in FormalIds, ApproveBegin(j, f) PROVE TypeOK'
    <3>1. formal[f].claim \in Claims /\ claim[formal[f].claim] \in ClaimStatus
      BY <2>6 DEF ApproveBegin, TypeOK, FormalRow
    <3>2. [Idle EXCEPT !.pc = IF formal[f].fidelity = "HUMAN_APPROVED" THEN "bind" ELSE "approve",
                       !.claim = formal[f].claim, !.formal = f,
                       !.seen = claim[formal[f].claim]] \in JobRow
      BY <3>1, IdleType DEF JobRow, Fields, PCs, SyncPoints, Idle
    <3>3. job' \in [Jobs -> JobRow]
      BY <2>6, <3>2, GotoType DEF ApproveBegin
    <3> QED BY <2>6, <3>3 DEF ApproveBegin, TypeOK, rows, bindings
  <2>7. ASSUME NEW j \in Jobs, ApproveWrite(j) PROVE TypeOK'
    <3>1. [job[j] EXCEPT !.pc = "bind"] \in JobRow
      BY <2>7, ActiveJob DEF ApproveWrite, JobRow, Fields, PCs, SyncPoints
    <3>2. job' \in [Jobs -> JobRow]
      BY <2>7, <3>1, GotoType DEF ApproveWrite
    <3>3. formal' \in [FormalIds -> FormalRow] /\ claim' \in [Claims -> ClaimStatus]
      BY <2>7 DEF ApproveWrite, TypeOK, FormalRow, Fidelity, ClaimStatus
    <3> QED BY <2>7, <3>2, <3>3 DEF ApproveWrite, TypeOK, bindings
  <2>8. ASSUME NEW j \in Jobs, BindApproval(j) PROVE TypeOK'
    <3>1. job' \in [Jobs -> JobRow]
      BY <2>8, IdleType, GotoType DEF BindApproval
    <3>2. /\ job[j].claim \in Claims /\ job[j].formal \in FormalIds \union {0}
          /\ natural[job[j].claim] \in NaturalRow /\ revision[job[j].claim] \in RevisionRow
      BY <2>8, ActiveJob DEF BindApproval, TypeOK
    <3>3. alignment' \in [AlignmentIds -> AlignmentRow]
      <4> DEFINE c == job[j].claim
                 approved == [claim |-> c, nat |-> natural[c].rev, frm |-> revision[c].rev,
                              formal |-> revision[c].formal, ctx |-> natural[c].ctx, error |-> FALSE,
                              asked |-> job[j].formal, status |-> "HUMAN_APPROVED"]
      <4>1. approved \in AlignmentRow
        BY <3>2 DEF AlignmentRow, NaturalRow, RevisionRow
      <4>2. CASE UNCHANGED alignment
        BY <4>2 DEF TypeOK
      <4>3. CASE \E new \in AlignmentIds : alignment' = [alignment EXCEPT ![new] = approved]
        BY <4>1, <4>3 DEF TypeOK
      <4> QED BY <2>8, <4>2, <4>3 DEF BindApproval
    <3> QED BY <2>8, <3>1, <3>3 DEF BindApproval, TypeOK, rows
  <2>9. ASSUME NEW j \in Jobs, NEW c \in Claims, AuditBegin(j, c) PROVE TypeOK'
    <3>1. natural[c] \in NaturalRow /\ revision[c] \in RevisionRow
      BY DEF TypeOK
    <3>2. [Idle EXCEPT !.pc = "audit", !.claim = c, !.formal = revision[c].formal,
                       !.nat = natural[c].rev, !.frm = revision[c].rev, !.ctx = natural[c].ctx] \in JobRow
      BY <3>1, IdleType DEF JobRow, Fields, PCs, NaturalRow, RevisionRow, Idle
    <3>3. job' \in [Jobs -> JobRow]
      BY <2>9, <3>2, GotoType DEF AuditBegin
    <3> QED BY <2>9, <3>3 DEF AuditBegin, TypeOK, rows, bindings
  <2>10. ASSUME NEW j \in Jobs, NEW status \in {"PENDING", "REVIEWED"}, NEW error \in BOOLEAN,
                AuditFinish(j, status, error)
         PROVE  TypeOK'
    <3>1. job' \in [Jobs -> JobRow]
      BY <2>10, IdleType, GotoType DEF AuditFinish
    <3>2. alignment' \in [AlignmentIds -> AlignmentRow]
      BY <2>10, ActiveJob DEF AuditFinish, TypeOK, AlignmentRow
    <3> QED BY <2>10, <3>1, <3>2 DEF AuditFinish, TypeOK, rows
  <2>11. ASSUME NEW j \in Jobs, NEW c \in Claims, NEW f \in FormalIds, ProveBegin(j, c, f) PROVE TypeOK'
    <3>1. [Idle EXCEPT !.pc = "prove", !.claim = c, !.formal = f] \in JobRow
      BY IdleType DEF JobRow, Fields, PCs, Idle
    <3>2. job' \in [Jobs -> JobRow]
      BY <2>11, <3>1, GotoType DEF ProveBegin
    <3> QED BY <2>11, <3>2 DEF ProveBegin, TypeOK, rows, bindings
  <2>12. ASSUME NEW j \in Jobs, NEW verifies \in BOOLEAN, ProveAccept(j, verifies) PROVE TypeOK'
    <3>1. job[j].claim \in Claims /\ job[j].formal \in FormalIds \union {0}
      BY <2>12, ActiveJob DEF ProveAccept
    <3>2. PICK new \in ProofIds :
            /\ proof' = [proof EXCEPT ![new] = [claim |-> job[j].claim, formal |-> job[j].formal]]
            /\ \/ \E f \in FormalIds : Goto(j, [Idle EXCEPT !.pc = "verify", !.claim = job[j].claim,
                                                            !.formal = f, !.proof = new])
               \/ Goto(j, Idle)
      BY <2>12 DEF ProveAccept
    <3>3. ASSUME NEW f \in FormalIds
          PROVE  [Idle EXCEPT !.pc = "verify", !.claim = job[j].claim, !.formal = f,
                              !.proof = new] \in JobRow
      BY <3>1, IdleType DEF JobRow, Fields, PCs, Idle
    <3>4. job' \in [Jobs -> JobRow]
      BY <3>2, <3>3, IdleType, GotoType
    <3>5. proof' \in [ProofIds -> ProofRow]
      BY <3>1, <3>2 DEF TypeOK, ProofRow
    <3> QED BY <2>12, <3>4, <3>5 DEF ProveAccept, TypeOK, bindings
  <2>13. ASSUME NEW j \in Jobs, NEW c \in Claims, NEW f \in FormalIds, NEW p \in ProofIds \union {0},
                VerifyBegin(j, c, f, p)
         PROVE  TypeOK'
    <3>1. [Idle EXCEPT !.pc = "verify", !.claim = c, !.formal = f, !.proof = p] \in JobRow
      BY IdleType DEF JobRow, Fields, PCs, Idle
    <3>2. job' \in [Jobs -> JobRow]
      BY <2>13, <3>1, GotoType DEF VerifyBegin
    <3> QED BY <2>13, <3>2 DEF VerifyBegin, TypeOK, rows, bindings
  <2>14. ASSUME NEW j \in Jobs, NEW lean \in LeanAnswer, VerifyGate(j, lean) PROVE TypeOK'
    <3> DEFINE report == GateReport(job[j].claim, job[j].proof, lean)
    <3>1. report \subseteq Checks
      BY ReportType
    <3>2. [job[j] EXCEPT !.pc = "promote", !.checks = report] \in JobRow
      BY <2>14, <3>1, ActiveJob DEF VerifyGate, JobRow, Fields, PCs, SyncPoints
    <3>3. job' \in [Jobs -> JobRow]
      BY <2>14, <3>2, IdleType, GotoType DEF VerifyGate
    <3> QED BY <2>14, <3>3 DEF VerifyGate, TypeOK, rows, bindings
  <2>15. ASSUME NEW j \in Jobs, Promote(j) PROVE TypeOK'
    <3>1. job' \in [Jobs -> JobRow]
      BY <2>15, IdleType, GotoType DEF Promote
    <3>2. run' \in [RunIds -> RunRow]
      BY <2>15, ActiveJob DEF Promote, TypeOK, RunRow, Fidelity
    <3>3. claim' \in [Claims -> ClaimStatus]
      BY <2>15 DEF Promote, TypeOK, ClaimStatus
    <3> QED BY <2>15, <3>1, <3>2, <3>3 DEF Promote, TypeOK, bindings
  <2>16. ASSUME NEW j \in Jobs, Throw(j) PROVE TypeOK'
    <3>1. job' \in [Jobs -> JobRow]
      BY <2>16, IdleType, GotoType DEF Throw
    <3> QED BY <2>16, <3>1 DEF Throw, TypeOK, rows, bindings
  <2>17. ASSUME NEW f \in FormalIds, RejectFormal(f) PROVE TypeOK'
    BY <2>17 DEF RejectFormal, TypeOK, FormalRow, Fidelity, bindings
  <2>18. ASSUME NEW a \in AlignmentIds, AlignmentApprove(a) \/ AlignmentReject(a) PROVE TypeOK'
    BY <2>18 DEF AlignmentApprove, AlignmentReject, TypeOK, AlignmentRow, rows
  <2>19. ASSUME NEW c \in Claims, MergeBranch(c) \/ ComputationalStatus(c) PROVE TypeOK'
    BY <2>19 DEF MergeBranch, ComputationalStatus, TypeOK, ClaimStatus, rows, bindings
  <2>20. ASSUME Backfill PROVE TypeOK'
    <3>1. natural' \in [Claims -> NaturalRow]
      BY <2>20 DEF Backfill, TypeOK, NaturalRow, ContextRevisions
    <3>2. revision' \in [Claims -> RevisionRow]
      BY <2>20 DEF Backfill, TypeOK, RevisionRow, ContextRevisions
    <3> QED BY <2>20, <3>1, <3>2 DEF Backfill, TypeOK, rows
  <2>21. ASSUME ChangeContext PROVE TypeOK'
    BY <2>21 DEF ChangeContext, TypeOK, rows, bindings
  <2>22. ASSUME UNCHANGED vars PROVE TypeOK'
    BY <2>22 DEF vars, TypeOK
  <2> QED
    BY <2>1, <2>2, <2>3, <2>4, <2>5, <2>6, <2>7, <2>8, <2>9, <2>10, <2>11, <2>12, <2>13, <2>14,
       <2>15, <2>16, <2>17, <2>18, <2>19, <2>20, <2>21, <2>22
    DEF Next
<1> QED BY <1>1, <1>2, PTL DEF Spec

-----------------------------------------------------------------------------
(* The evidence of a verified claim.  VerifiedHasEvidence is inductive with the typing;
   RunsReferToRows and OneCurrentFormal are what the refinement needs besides. *)

Inv == TypeOK /\ RunsReferToRows /\ VerifiedHasEvidence /\ OneCurrentFormal

\* The handlers that write a claim status, a statement, a proof or a run.
LEMMA Writers ==
  ASSUME [Next]_vars
  PROVE  \/ UNCHANGED <<claim, formal, proof, run>>
         \/ \E j \in Jobs :
              \/ \E c \in Claims, status \in CreationStatuses : CreateClaim(j, c, status)
              \/ \E fidelity \in Fidelity : FormalizePersist(j, fidelity)
              \/ ApproveWrite(j)
              \/ \E verifies \in BOOLEAN : ProveAccept(j, verifies)
              \/ Promote(j)
         \/ \E f \in FormalIds : RejectFormal(f)
         \/ \E c \in Claims : MergeBranch(c) \/ ComputationalStatus(c)
<1>1. CASE UNCHANGED vars
  BY <1>1 DEF vars
<1>2. ASSUME NEW j \in Jobs,
             \/ CaptureNatural(j) \/ CaptureFormal(j)
             \/ \E c \in Claims : FormalizeBegin(j, c) \/ AuditBegin(j, c)
             \/ \E f \in FormalIds : ApproveBegin(j, f)
             \/ BindApproval(j)
             \/ \E status \in {"PENDING", "REVIEWED"}, error \in BOOLEAN : AuditFinish(j, status, error)
             \/ \E c \in Claims, f \in FormalIds : ProveBegin(j, c, f)
             \/ \E c \in Claims, f \in FormalIds, p \in ProofIds \union {0} : VerifyBegin(j, c, f, p)
             \/ \E lean \in LeanAnswer : VerifyGate(j, lean)
             \/ Throw(j)
      PROVE  UNCHANGED <<claim, formal, proof, run>>
  BY <1>2 DEF CaptureNatural, CaptureFormal, FormalizeBegin, AuditBegin, ApproveBegin, BindApproval,
              AuditFinish, ProveBegin, VerifyBegin, VerifyGate, Throw, rows
<1>3. ASSUME Backfill \/ ChangeContext \/ \E a \in AlignmentIds : AlignmentApprove(a) \/ AlignmentReject(a)
      PROVE  UNCHANGED <<claim, formal, proof, run>>
  BY <1>3 DEF Backfill, ChangeContext, AlignmentApprove, AlignmentReject, rows
<1> QED BY <1>1, <1>2, <1>3 DEF Next

\* A step writes neither a stored run nor the statement or the proof that an accepted run of a
\* verified claim names.
LEMMA EvidenceStep ==
  ASSUME Inv, [Next]_vars, NEW r \in RunIds, run[r].claim # None
  PROVE  /\ run'[r] = run[r]
         /\ proof'[run[r].proof] = proof[run[r].proof]
         /\ formal'[run[r].formal].claim = run[r].claim
         /\ claim[run[r].claim] = "KERNEL_VERIFIED" => formal'[run[r].formal] = formal[run[r].formal]
<1> DEFINE f0 == run[r].formal
           p0 == run[r].proof
<1> USE ConstantsAssumption
<1>1. /\ f0 \in FormalIds /\ formal[f0].claim = run[r].claim /\ formal[f0] \in FormalRow
      /\ p0 \in ProofIds /\ proof[p0] = [claim |-> run[r].claim, formal |-> f0]
      /\ claim[run[r].claim] = "KERNEL_VERIFIED" => Frozen(f0)
  BY DEF Inv, RunsReferToRows, TypeOK, Frozen
<1>2. CASE UNCHANGED <<formal, proof, run>>
  BY <1>1, <1>2
<1>3. ASSUME NEW j \in Jobs, NEW fidelity \in Fidelity, FormalizePersist(j, fidelity)
      PROVE  /\ UNCHANGED <<proof, run>> /\ formal'[f0].claim = run[r].claim
             /\ Frozen(f0) => formal'[f0] = formal[f0]
  <2>1. PICK new \in FormalIds :
          /\ formal[new].claim = None
          /\ formal' = [f \in FormalIds |->
               IF f = new THEN [claim |-> job[j].claim, current |-> TRUE, fidelity |-> fidelity]
               ELSE [formal[f] EXCEPT !.current = @ /\ formal[f].claim # job[j].claim]]
    BY <1>3 DEF FormalizePersist, NextId
  <2>2. f0 # new
    BY <1>1, <2>1
  <2>3. formal'[f0] = [formal[f0] EXCEPT !.current = @ /\ formal[f0].claim # job[j].claim]
    BY <1>1, <2>1, <2>2
  <2>4. Frozen(f0) => formal[f0].claim # job[j].claim
    BY <1>1, <1>3 DEF FormalizePersist, FormalOf
  <2>5. Frozen(f0) => formal'[f0] = formal[f0]
    BY <1>1, <2>3, <2>4 DEF FormalRow
  <2> QED BY <1>1, <1>3, <2>3, <2>5 DEF FormalizePersist, FormalRow
<1>4. ASSUME NEW j \in Jobs, ApproveWrite(j)
      PROVE  /\ UNCHANGED <<proof, run>> /\ formal'[f0].claim = run[r].claim
             /\ Frozen(f0) => formal'[f0] = formal[f0]
  BY <1>1, <1>4 DEF ApproveWrite, Inv, TypeOK, FormalRow
<1>5. ASSUME NEW f \in FormalIds, RejectFormal(f)
      PROVE  /\ UNCHANGED <<proof, run>> /\ formal'[f0].claim = run[r].claim
             /\ Frozen(f0) => formal'[f0] = formal[f0]
  BY <1>1, <1>5 DEF RejectFormal, Inv, TypeOK, FormalRow
<1>6. ASSUME NEW j \in Jobs, NEW verifies \in BOOLEAN, ProveAccept(j, verifies)
      PROVE  UNCHANGED <<formal, run>> /\ proof'[p0] = proof[p0]
  <2>1. PICK new, row : new \in ProofIds /\ proof[new].claim = None /\ proof' = [proof EXCEPT ![new] = row]
    BY <1>6 DEF ProveAccept, NextId
  <2>2. p0 # new
    BY <1>1, <2>1
  <2> QED BY <1>1, <1>6, <2>1, <2>2 DEF ProveAccept, Inv, TypeOK
<1>7. ASSUME NEW j \in Jobs, Promote(j)
      PROVE  UNCHANGED <<formal, proof>> /\ run'[r] = run[r]
  <2>1. PICK new, e : new \in RunIds /\ run[new].claim = None /\ run' = [run EXCEPT ![new] = e]
    BY <1>7 DEF Promote, NextId
  <2>2. r # new
    BY <2>1
  <2> QED BY <1>7, <2>1, <2>2 DEF Promote, Inv, TypeOK
<1>8. ASSUME \/ \E j \in Jobs, c \in Claims, status \in CreationStatuses : CreateClaim(j, c, status)
             \/ \E c \in Claims : MergeBranch(c) \/ ComputationalStatus(c)
      PROVE  UNCHANGED <<formal, proof, run>>
  BY <1>8 DEF CreateClaim, MergeBranch, ComputationalStatus, rows
<1> QED BY <1>1, <1>2, <1>3, <1>4, <1>5, <1>6, <1>7, <1>8, Writers

\* What the promotion transaction stores, and on what.
LEMMA PromoteStep ==
  ASSUME Inv, NEW j \in Jobs, Promote(j)
  PROVE  \E new \in RunIds, e \in RunRow :
           /\ run[new].claim = None /\ run' = [run EXCEPT ![new] = e]
           /\ e.claim = job[j].claim /\ e.claim \in Claims /\ e.checks = Checks
           /\ e.formal \in FormalIds /\ e.proof \in ProofIds
           /\ formal[e.formal] = [claim |-> e.claim, current |-> TRUE, fidelity |-> "HUMAN_APPROVED"]
           /\ proof[e.proof] = [claim |-> e.claim, formal |-> e.formal]
           /\ claim' = [claim EXCEPT ![e.claim] = "KERNEL_VERIFIED"]
           /\ UNCHANGED <<formal, proof>>
<1> DEFINE c == job[j].claim
           e == [claim |-> c, formal |-> job[j].formal, proof |-> job[j].proof,
                 fidelity |-> "HUMAN_APPROVED", checks |-> job[j].checks]
<1>1. /\ c \in Claims /\ job[j].checks \subseteq Checks
      /\ job[j].formal \in FormalIds \union {0} /\ job[j].proof \in ProofIds \union {0}
  BY ActiveJob DEF Promote, Inv
<1>2. e \in RunRow
  BY <1>1 DEF RunRow, Fidelity
<1>3. EvidenceBacks(e, c)
  BY DEF Promote
<1>4. /\ e.checks = Checks /\ e.formal \in FormalIds /\ e.proof \in ProofIds
      /\ formal[e.formal].claim = c /\ formal[e.formal].current
      /\ formal[e.formal].fidelity = "HUMAN_APPROVED"
      /\ proof[e.proof].claim = c /\ proof[e.proof].formal = e.formal
  BY <1>1, <1>3 DEF EvidenceBacks, CurrentFormal, FormalOf
<1>5. /\ formal[e.formal] = [claim |-> c, current |-> TRUE, fidelity |-> "HUMAN_APPROVED"]
      /\ proof[e.proof] = [claim |-> c, formal |-> e.formal]
  BY <1>4 DEF Inv, TypeOK, FormalRow, ProofRow
<1>6. PICK new \in RunIds : run[new].claim = None /\ run' = [run EXCEPT ![new] = e]
  BY DEF Promote, NextId
<1> QED BY <1>1, <1>2, <1>4, <1>5, <1>6 DEF Promote

\* Only the promotion makes a claim verified.
LEMMA OnlyPromoteVerifies ==
  ASSUME Inv, [Next]_vars, NEW c \in Claims, claim[c] # "KERNEL_VERIFIED", claim'[c] = "KERNEL_VERIFIED"
  PROVE  \E j \in Jobs : Promote(j) /\ job[j].claim = c
<1> USE ConstantsAssumption DEF Inv, TypeOK
<1>1. ASSUME NEW j \in Jobs, NEW d \in Claims, NEW status \in CreationStatuses, CreateClaim(j, d, status)
      PROVE  FALSE
  BY <1>1 DEF CreateClaim
<1>2. ASSUME NEW j \in Jobs, ApproveWrite(j)
      PROVE  FALSE
  BY <1>2 DEF ApproveWrite
<1>3. ASSUME NEW d \in Claims, MergeBranch(d) \/ ComputationalStatus(d)
      PROVE  FALSE
  BY <1>3 DEF MergeBranch, ComputationalStatus
<1>4. ASSUME UNCHANGED claim
      PROVE  FALSE
  BY <1>4
<1>5. ASSUME NEW j \in Jobs, Promote(j)
      PROVE  job[j].claim = c
  BY <1>5 DEF Promote
<1> QED BY <1>1, <1>2, <1>3, <1>4, <1>5, Writers DEF FormalizePersist, ProveAccept, RejectFormal

LEMMA OneCurrentStep ==
  ASSUME Inv, [Next]_vars
  PROVE  OneCurrentFormal'
<1> USE DEF Inv, TypeOK
<1>1. CASE UNCHANGED formal
  BY <1>1 DEF OneCurrentFormal
<1>2. ASSUME NEW j \in Jobs, NEW fidelity \in Fidelity, FormalizePersist(j, fidelity)
      PROVE  OneCurrentFormal'
  <2>1. PICK new \in FormalIds :
          formal' = [f \in FormalIds |->
            IF f = new THEN [claim |-> job[j].claim, current |-> TRUE, fidelity |-> fidelity]
            ELSE [formal[f] EXCEPT !.current = @ /\ formal[f].claim # job[j].claim]]
    BY <1>2 DEF FormalizePersist
  <2>2. ASSUME NEW f \in FormalIds, f # new
        PROVE  /\ formal'[f].claim = formal[f].claim
               /\ formal'[f].current => formal[f].current /\ formal[f].claim # job[j].claim
    BY <2>1, <2>2 DEF FormalRow
  <2>3. formal'[new].claim = job[j].claim
    BY <2>1
  <2> QED BY <2>2, <2>3 DEF OneCurrentFormal
<1>3. ASSUME NEW f \in FormalIds, NEW fidelity, formal' = [formal EXCEPT ![f].fidelity = fidelity]
      PROVE  OneCurrentFormal'
  BY <1>3 DEF OneCurrentFormal, FormalRow
<1>4. ASSUME NEW j \in Jobs, ApproveWrite(j)
      PROVE  OneCurrentFormal'
  <2>1. job[j].formal \in FormalIds \/ UNCHANGED formal
    BY <1>4 DEF ApproveWrite
  <2> QED BY <1>1, <1>3, <1>4, <2>1 DEF ApproveWrite
<1>5. ASSUME NEW f \in FormalIds, RejectFormal(f)
      PROVE  OneCurrentFormal'
  BY <1>3, <1>5 DEF RejectFormal
<1>6. ASSUME \/ \E j \in Jobs, c \in Claims, status \in CreationStatuses : CreateClaim(j, c, status)
             \/ \E j \in Jobs, verifies \in BOOLEAN : ProveAccept(j, verifies)
             \/ \E j \in Jobs : Promote(j)
             \/ \E c \in Claims : MergeBranch(c) \/ ComputationalStatus(c)
      PROVE  UNCHANGED formal
  BY <1>6 DEF CreateClaim, ProveAccept, Promote, MergeBranch, ComputationalStatus, rows
<1> QED BY <1>1, <1>2, <1>4, <1>5, <1>6, Writers

\* The inductive invariant.
THEOREM Invariance == Spec => []Inv
<1>1. Init => RunsReferToRows /\ VerifiedHasEvidence /\ OneCurrentFormal
  BY ConstantsAssumption DEF Init, RunsReferToRows, VerifiedHasEvidence, OneCurrentFormal
<1>2. ASSUME Inv, TypeOK', [Next]_vars
      PROVE  Inv'
  <2>1. RunsReferToRows'
    <3> SUFFICES ASSUME NEW r \in RunIds, run'[r].claim # None
                 PROVE  /\ run'[r].formal \in FormalIds /\ formal'[run'[r].formal].claim = run'[r].claim
                        /\ run'[r].proof \in ProofIds
                        /\ proof'[run'[r].proof] = [claim |-> run'[r].claim, formal |-> run'[r].formal]
      BY DEF RunsReferToRows
    <3>1. CASE run[r].claim # None
      BY <1>2, <3>1, EvidenceStep DEF Inv, RunsReferToRows
    <3>2. CASE run[r].claim = None
      <4>1. ~UNCHANGED run
        BY <3>2
      <4>2. PICK j \in Jobs : Promote(j)
        BY <1>2, <4>1, Writers
        DEF CreateClaim, FormalizePersist, ApproveWrite, ProveAccept, RejectFormal, MergeBranch,
            ComputationalStatus, rows
      <4>3. PICK new \in RunIds, e \in RunRow :
              /\ run' = [run EXCEPT ![new] = e]
              /\ e.formal \in FormalIds /\ e.proof \in ProofIds
              /\ formal[e.formal] = [claim |-> e.claim, current |-> TRUE, fidelity |-> "HUMAN_APPROVED"]
              /\ proof[e.proof] = [claim |-> e.claim, formal |-> e.formal]
              /\ UNCHANGED <<formal, proof>>
        BY <1>2, <4>2, PromoteStep
      <4>4. r = new /\ run'[r] = e
        BY <1>2, <3>2, <4>3 DEF Inv, TypeOK
      <4> QED BY <4>3, <4>4
    <3> QED BY <3>1, <3>2
  <2>2. VerifiedHasEvidence'
    <3> SUFFICES ASSUME NEW c \in Claims, claim'[c] = "KERNEL_VERIFIED"
                 PROVE  \E r \in RunIds :
                          /\ run'[r].claim = c /\ run'[r].checks = Checks
                          /\ run'[r].formal \in FormalIds /\ run'[r].proof \in ProofIds
                          /\ formal'[run'[r].formal] = [claim |-> c, current |-> TRUE, fidelity |-> "HUMAN_APPROVED"]
                          /\ proof'[run'[r].proof] = [claim |-> c, formal |-> run'[r].formal]
      BY DEF VerifiedHasEvidence
    <3>1. CASE claim[c] = "KERNEL_VERIFIED"
      <4>1. PICK r \in RunIds :
              /\ run[r].claim = c /\ run[r].checks = Checks
              /\ run[r].formal \in FormalIds /\ run[r].proof \in ProofIds
              /\ formal[run[r].formal] = [claim |-> c, current |-> TRUE, fidelity |-> "HUMAN_APPROVED"]
              /\ proof[run[r].proof] = [claim |-> c, formal |-> run[r].formal]
        BY <1>2, <3>1 DEF Inv, VerifiedHasEvidence
      <4>2. c # None
        BY ConstantsAssumption
      <4> QED BY <1>2, <3>1, <4>1, <4>2, EvidenceStep
    <3>2. CASE claim[c] # "KERNEL_VERIFIED"
      <4>1. PICK j \in Jobs : Promote(j) /\ job[j].claim = c
        BY <1>2, <3>2, OnlyPromoteVerifies
      <4>2. PICK new \in RunIds, e \in RunRow :
              /\ run' = [run EXCEPT ![new] = e]
              /\ e.claim = c /\ e.checks = Checks
              /\ e.formal \in FormalIds /\ e.proof \in ProofIds
              /\ formal[e.formal] = [claim |-> e.claim, current |-> TRUE, fidelity |-> "HUMAN_APPROVED"]
              /\ proof[e.proof] = [claim |-> e.claim, formal |-> e.formal]
              /\ UNCHANGED <<formal, proof>>
        BY <1>2, <4>1, PromoteStep
      <4>3. run'[new] = e
        BY <1>2, <4>2 DEF Inv, TypeOK
      <4> QED BY <4>2, <4>3
    <3> QED BY <3>1, <3>2
  <2> QED BY <1>2, <2>1, <2>2, OneCurrentStep DEF Inv
<1> QED BY <1>1, <1>2, TypeCorrect, PTL DEF Spec, Inv

\* A verified claim always has a complete chain: an accepted run with all the checks, the
\* current and human approved statement, and a proof accepted for it.
THEOREM EvidenceSound == Spec => []VerifiedHasEvidence
BY Invariance, PTL DEF Inv

\* At most one formal statement of a claim is current, however formalizations interleave.
THEOREM FormalUnique == Spec => []OneCurrentFormal
BY Invariance, PTL DEF Inv

\* What the services may never do to the evidence of a claim that stays verified.
THEOREM EvidenceIsImmutable == Spec => EvidenceImmutable
<1>1. ASSUME Inv, [Next]_vars
      PROVE  \A r \in RunIds :
               /\ run[r].claim # None
               /\ claim[run[r].claim] = "KERNEL_VERIFIED" /\ claim'[run[r].claim] = "KERNEL_VERIFIED"
               => /\ run'[r] = run[r]
                  /\ formal'[run[r].formal] = formal[run[r].formal]
                  /\ proof'[run[r].proof] = proof[run[r].proof]
  BY <1>1, EvidenceStep
<1> QED BY <1>1, Invariance, PTL DEF Spec, EvidenceImmutable

\* A stored run and the promotion it justifies are one transaction.
THEOREM AcceptedRunIsPromoted == Spec => AcceptedRunPromotes
<1>1. ASSUME Inv, [Next]_vars
      PROVE  \A r \in RunIds : run'[r] # run[r] => claim'[run'[r].claim] = "KERNEL_VERIFIED"
  <2> SUFFICES ASSUME NEW r \in RunIds, run'[r] # run[r]
               PROVE  claim'[run'[r].claim] = "KERNEL_VERIFIED"
    OBVIOUS
  <2>1. PICK j \in Jobs : Promote(j)
    BY <1>1, Writers
    DEF CreateClaim, FormalizePersist, ApproveWrite, ProveAccept, RejectFormal, MergeBranch,
        ComputationalStatus, rows
  <2>2. PICK new \in RunIds, e \in RunRow :
          /\ run' = [run EXCEPT ![new] = e] /\ e.claim \in Claims
          /\ claim' = [claim EXCEPT ![e.claim] = "KERNEL_VERIFIED"]
    BY <1>1, <2>1, PromoteStep
  <2>3. run'[r] = e
    BY <1>1, <2>2 DEF Inv, TypeOK
  <2> QED BY <1>1, <2>2, <2>3 DEF Inv, TypeOK
<1> QED BY <1>1, Invariance, PTL DEF Spec, AcceptedRunPromotes

-----------------------------------------------------------------------------
(* The services implement the trust model. *)

\* The backing of a claim that stays verified does not shrink.
LEMMA BackingKept ==
  ASSUME Inv, [Next]_vars, NEW c \in Claims,
         claim[c] = "KERNEL_VERIFIED", claim'[c] = "KERNEL_VERIFIED"
  PROVE  Backing[c] \subseteq Backing'[c]
<1>1. PICK r \in RunIds :
        /\ run[r].claim = c /\ run[r].formal \in FormalIds /\ run[r].proof \in ProofIds
        /\ formal[run[r].formal] = [claim |-> c, current |-> TRUE, fidelity |-> "HUMAN_APPROVED"]
        /\ proof[run[r].proof] = [claim |-> c, formal |-> run[r].formal]
  BY DEF Inv, VerifiedHasEvidence
<1>2. Backing[c] \subseteq {run[r].formal}
  BY <1>1 DEF Backing, CurrentFormal, FormalOf, Inv, OneCurrentFormal
<1>3. /\ formal'[run[r].formal] = formal[run[r].formal]
      /\ proof'[run[r].proof] = proof[run[r].proof]
  BY <1>1, EvidenceStep, ConstantsAssumption
<1>4. run[r].formal \in Backing'[c]
  BY <1>1, <1>3 DEF Backing, CurrentFormal, FormalOf
<1> QED BY <1>2, <1>4

\* Every run of the services, seen as verified claims and their backing, is a run of TrustModel.
THEOREM ImplementsTrust == Spec => ImplementsTrustModel
<1> DEFINE verified == {c \in Claims : claim[c] = "KERNEL_VERIFIED"}
<1>1. Init => Trust!Init
  BY ConstantsAssumption DEF Init, Trust!Init, Backing, CurrentFormal, FormalOf
<1>2. ASSUME Inv, Inv', [Next]_vars
      PROVE  [Trust!Next]_<<verified, Backing>>
  <2>1. Backing' \in [Claims -> SUBSET FormalIds]
    BY DEF Backing
  <2>2. ASSUME NEW c \in verified, c \in verified'
        PROVE  Backing[c] \subseteq Backing'[c]
    BY <1>2, <2>2, BackingKept
  <2>3. CASE verified' = verified
    BY <2>1, <2>2, <2>3 DEF Trust!Next, Trust!Gather, Trust!Keeps
  <2>4. ASSUME NEW j \in Jobs, Promote(j)
        PROVE  Trust!Next
    <3>1. PICK e \in RunRow :
            /\ e.claim \in Claims /\ e.formal \in FormalIds /\ e.proof \in ProofIds
            /\ formal[e.formal] = [claim |-> e.claim, current |-> TRUE, fidelity |-> "HUMAN_APPROVED"]
            /\ proof[e.proof] = [claim |-> e.claim, formal |-> e.formal]
            /\ claim' = [claim EXCEPT ![e.claim] = "KERNEL_VERIFIED"]
            /\ UNCHANGED <<formal, proof>>
      BY <1>2, <2>4, PromoteStep
    <3>2. e.formal \in Backing[e.claim]
      BY <3>1 DEF Backing, CurrentFormal, FormalOf
    <3>3. Backing' = Backing
      <4>1. \A c \in Claims, f \in FormalIds : CurrentFormal(c, f)' <=> CurrentFormal(c, f)
        BY <3>1 DEF CurrentFormal, FormalOf
      <4> QED BY <3>1, <4>1 DEF Backing
    <3>4. verified' = verified \union {e.claim}
      BY <1>2, <3>1 DEF Inv, TypeOK
    <3>5. Trust!Promote(e.claim)
      BY <3>2, <3>3, <3>4 DEF Trust!Promote
    <3> QED BY <3>1, <3>5 DEF Trust!Next
  <2>5. ASSUME NEW c \in Claims, verified' = verified \ {c}
        PROVE  Trust!Next
    <3>1. Trust!Retract(c)
      BY <2>1, <2>2, <2>5 DEF Trust!Retract, Trust!Keeps
    <3> QED BY <3>1 DEF Trust!Next
  <2>6. \/ verified' = verified
        \/ \E j \in Jobs : Promote(j)
        \/ \E c \in Claims : verified' = verified \ {c}
    <3> USE <1>2, ConstantsAssumption DEF Inv, TypeOK
    <3>1. ASSUME NEW j \in Jobs, NEW c \in Claims, NEW status \in CreationStatuses, CreateClaim(j, c, status)
          PROVE  verified' = verified
      <4>1. claim[c] = "ABSENT" /\ status # "KERNEL_VERIFIED" /\ claim' = [claim EXCEPT ![c] = status]
        BY <3>1 DEF CreateClaim, Present
      <4>2. \A d \in Claims : claim'[d] = "KERNEL_VERIFIED" <=> claim[d] = "KERNEL_VERIFIED"
        BY <4>1
      <4> QED BY <4>2
    <3>2. ASSUME NEW j \in Jobs, ApproveWrite(j)
          PROVE  verified' = verified \/ \E c \in Claims : verified' = verified \ {c}
      <4>1. job[j].claim \in Claims
        BY <3>2, ActiveJob DEF ApproveWrite
      <4>2. \/ claim' = claim
            \/ claim' = [claim EXCEPT ![job[j].claim] = "FORMALIZED_UNVERIFIED"]
        BY <3>2 DEF ApproveWrite
      <4> QED BY <4>1, <4>2
    <3>3. ASSUME NEW c \in Claims, MergeBranch(c)
          PROVE  verified' = verified \ {c}
      BY <3>3 DEF MergeBranch
    <3>4. ASSUME NEW c \in Claims, ComputationalStatus(c)
          PROVE  verified' = verified
      BY <3>4 DEF ComputationalStatus
    <3>5. ASSUME UNCHANGED claim
          PROVE  verified' = verified
      BY <3>5
    <3> QED BY <3>1, <3>2, <3>3, <3>4, <3>5, Writers DEF FormalizePersist, ProveAccept, RejectFormal
  <2> QED BY <2>3, <2>4, <2>5, <2>6
<1> QED BY <1>1, <1>2, Invariance, PTL DEF Spec, ImplementsTrustModel, Trust!Spec

-----------------------------------------------------------------------------
(* One process.  Between two awaits a method runs alone, so what it read at the start of a
   synchronous stretch still holds at its end. *)

StretchInv ==
  \A j \in Jobs :
    /\ job[j].pc = "promote" => CurrentApproval(job[j].claim)
    /\ job[j].pc = "approve" => job[j].seen = claim[job[j].claim]

\* While a call is inside a synchronous stretch, only that call moves, and it leaves the
\* promotion and the approval for good.
LEMMA StretchAlone ==
  ASSUME ~MultiProcess, Inv, [Next]_vars, NEW k \in Jobs, job[k].pc \in SyncPoints
  PROVE  UNCHANGED vars \/ job'[k].pc \notin {"promote", "approve"}
<1> USE DEF Inv, TypeOK
<1>1. ~Quiet /\ \A j \in Jobs \ {k} : ~Turn(j)
  BY DEF Quiet, Turn
<1>2. job[k].pc # "idle" /\ job[k] # Idle
  BY DEF SyncPoints, Idle
<1>3. ASSUME NEW j \in Jobs,
             \/ \E c \in Claims, status \in CreationStatuses : CreateClaim(j, c, status)
             \/ \E c \in Claims : FormalizeBegin(j, c) \/ AuditBegin(j, c)
             \/ \E f \in FormalIds : ApproveBegin(j, f)
             \/ \E c \in Claims, f \in FormalIds : ProveBegin(j, c, f)
             \/ \E c \in Claims, f \in FormalIds, p \in ProofIds \union {0} : VerifyBegin(j, c, f, p)
      PROVE  FALSE
  BY <1>1, <1>3 DEF CreateClaim, FormalizeBegin, AuditBegin, ApproveBegin, ProveBegin, VerifyBegin, Free
<1>4. ASSUME NEW j \in Jobs,
             \/ \E fidelity \in Fidelity : FormalizePersist(j, fidelity)
             \/ \E status \in {"PENDING", "REVIEWED"}, error \in BOOLEAN : AuditFinish(j, status, error)
             \/ \E verifies \in BOOLEAN : ProveAccept(j, verifies)
             \/ \E lean \in LeanAnswer : VerifyGate(j, lean)
      PROVE  FALSE
  BY <1>1, <1>4 DEF FormalizePersist, AuditFinish, ProveAccept, VerifyGate, At, SyncPoints
<1>5. ASSUME NEW j \in Jobs,
             CaptureNatural(j) \/ CaptureFormal(j) \/ ApproveWrite(j) \/ BindApproval(j) \/ Promote(j) \/ Throw(j)
      PROVE  job'[k].pc \notin {"promote", "approve"}
  <2>1. j = k
    BY <1>1, <1>5 DEF CaptureNatural, CaptureFormal, ApproveWrite, BindApproval, Promote, Throw, At
  <2>2. /\ Idle.pc = "idle"
        /\ [job[k] EXCEPT !.pc = "captureFormal"].pc = "captureFormal"
        /\ [job[k] EXCEPT !.pc = "bind"].pc = "bind"
    BY DEF Idle, JobRow, Fields
  <2> QED
    BY <1>5, <2>1, <2>2 DEF CaptureNatural, CaptureFormal, ApproveWrite, BindApproval, Promote, Throw, Goto
<1>6. ASSUME \/ \E f \in FormalIds : RejectFormal(f)
             \/ \E a \in AlignmentIds : AlignmentApprove(a) \/ AlignmentReject(a)
             \/ \E c \in Claims : MergeBranch(c) \/ ComputationalStatus(c)
             \/ ChangeContext
      PROVE  FALSE
  BY <1>1, <1>6 DEF RejectFormal, AlignmentApprove, AlignmentReject, MergeBranch, ComputationalStatus, ChangeContext
<1>7. ~Backfill
  BY <1>2 DEF Backfill
<1> QED BY <1>3, <1>4, <1>5, <1>6, <1>7 DEF Next

\* How a call comes to stand before the promotion or before the approval.
LEMMA StretchEntered ==
  ASSUME ~MultiProcess, Inv, [Next]_vars, NEW k \in Jobs, job[k].pc \notin {"promote", "approve"}
  PROVE  /\ job'[k].pc = "promote" =>
              /\ UNCHANGED <<natural, revision, alignment>>
              /\ CurrentApproval(job'[k].claim)
         /\ job'[k].pc = "approve" => job'[k].seen = claim'[job'[k].claim]
<1> USE DEF Inv, TypeOK
<1>1. Idle.pc = "idle"
  BY DEF Idle
<1>2. ASSUME NEW j \in Jobs, NEW lean \in LeanAnswer, VerifyGate(j, lean)
      PROVE  /\ job'[k].pc = "promote" =>
                   /\ UNCHANGED <<natural, revision, alignment>>
                   /\ CurrentApproval(job'[k].claim)
             /\ job'[k].pc # "approve"
  <2>1. CASE j # k
    BY <1>2, <2>1 DEF VerifyGate, Goto
  <2>2. CASE j = k
    <3> DEFINE report == GateReport(job[k].claim, job[k].proof, lean)
               next == [job[k] EXCEPT !.pc = "promote", !.checks = report]
    <3>1. next.pc = "promote" /\ next.claim = job[k].claim
      BY DEF JobRow, Fields
    <3>2. report = Checks => CurrentApproval(job[k].claim)
      BY FidelityReported DEF Checks
    <3>3. job'[k] = IF report = Checks THEN next ELSE Idle
      BY <1>2, <2>2 DEF VerifyGate, Goto
    <3>4. UNCHANGED <<natural, revision, alignment>>
      BY <1>2 DEF VerifyGate, bindings
    <3> QED BY <1>1, <3>1, <3>2, <3>3, <3>4
  <2> QED BY <2>1, <2>2
<1>3. ASSUME NEW j \in Jobs, NEW f \in FormalIds, ApproveBegin(j, f)
      PROVE  /\ job'[k].pc # "promote"
             /\ job'[k].pc = "approve" => job'[k].seen = claim'[job'[k].claim]
  BY <1>3 DEF ApproveBegin, Goto, Idle
<1>4. ASSUME NEW j \in Jobs,
             \/ \E c \in Claims, status \in CreationStatuses : CreateClaim(j, c, status)
             \/ \E c \in Claims : FormalizeBegin(j, c) \/ AuditBegin(j, c)
             \/ \E c \in Claims, f \in FormalIds : ProveBegin(j, c, f)
             \/ \E c \in Claims, f \in FormalIds, p \in ProofIds \union {0} : VerifyBegin(j, c, f, p)
             \/ \E fidelity \in Fidelity : FormalizePersist(j, fidelity)
             \/ \E status \in {"PENDING", "REVIEWED"}, error \in BOOLEAN : AuditFinish(j, status, error)
             \/ \E verifies \in BOOLEAN : ProveAccept(j, verifies)
      PROVE  job'[k].pc \notin {"promote", "approve"}
  <2>1. ASSUME NEW c \in Claims, NEW status, CreateClaim(j, c, status)
        PROVE  job'[k].pc \notin {"promote", "approve"}
    BY <2>1 DEF CreateClaim, Goto, Idle
  <2>2. ASSUME NEW c \in Claims, FormalizeBegin(j, c) \/ AuditBegin(j, c)
        PROVE  job'[k].pc \notin {"promote", "approve"}
    BY <2>2 DEF FormalizeBegin, AuditBegin, Goto, Idle
  <2>3. ASSUME NEW c \in Claims, NEW f \in FormalIds, ProveBegin(j, c, f)
        PROVE  job'[k].pc \notin {"promote", "approve"}
    BY <2>3 DEF ProveBegin, Goto, Idle
  <2>4. ASSUME NEW c \in Claims, NEW f \in FormalIds, NEW p, VerifyBegin(j, c, f, p)
        PROVE  job'[k].pc \notin {"promote", "approve"}
    BY <2>4 DEF VerifyBegin, Goto, Idle
  <2>5. ASSUME NEW fidelity, FormalizePersist(j, fidelity)
        PROVE  job'[k].pc \notin {"promote", "approve"}
    <3>1. PICK new \in FormalIds :
            Goto(j, [Idle EXCEPT !.pc = "captureNatural", !.claim = job[j].claim,
                                 !.formal = new, !.ctx = context])
      BY <2>5 DEF FormalizePersist
    <3> QED BY <3>1 DEF Goto, Idle
  <2>6. ASSUME NEW status, NEW error, AuditFinish(j, status, error)
        PROVE  job'[k].pc \notin {"promote", "approve"}
    BY <1>1, <2>6 DEF AuditFinish, Goto
  <2>7. ASSUME NEW verifies, ProveAccept(j, verifies)
        PROVE  job'[k].pc \notin {"promote", "approve"}
    <3>1. \/ Goto(j, Idle)
          \/ \E f \in FormalIds, new \in ProofIds :
               Goto(j, [Idle EXCEPT !.pc = "verify", !.claim = job[j].claim, !.formal = f, !.proof = new])
      BY <2>7 DEF ProveAccept
    <3>2. ASSUME NEW f \in FormalIds, NEW new \in ProofIds,
                 Goto(j, [Idle EXCEPT !.pc = "verify", !.claim = job[j].claim, !.formal = f, !.proof = new])
          PROVE  job'[k].pc \notin {"promote", "approve"}
      BY <3>2 DEF Goto, Idle
    <3>3. CASE Goto(j, Idle)
      BY <1>1, <3>3 DEF Goto
    <3> QED BY <3>1, <3>2, <3>3
  <2> QED BY <1>4, <2>1, <2>2, <2>3, <2>4, <2>5, <2>6, <2>7
<1>5. ASSUME NEW j \in Jobs,
             CaptureNatural(j) \/ CaptureFormal(j) \/ ApproveWrite(j) \/ BindApproval(j) \/ Promote(j) \/ Throw(j)
      PROVE  job'[k].pc \notin {"promote", "approve"}
  <2>1. /\ [job[j] EXCEPT !.pc = "captureFormal"].pc = "captureFormal"
        /\ [job[j] EXCEPT !.pc = "bind"].pc = "bind"
    BY DEF JobRow, Fields
  <2> QED
    BY <1>1, <1>5, <2>1
    DEF CaptureNatural, CaptureFormal, ApproveWrite, BindApproval, Promote, Throw, Goto
<1>6. ASSUME \/ \E f \in FormalIds : RejectFormal(f)
             \/ \E a \in AlignmentIds : AlignmentApprove(a) \/ AlignmentReject(a)
             \/ \E c \in Claims : MergeBranch(c) \/ ComputationalStatus(c)
             \/ Backfill \/ ChangeContext \/ UNCHANGED vars
      PROVE  job' = job
  BY <1>6 DEF RejectFormal, AlignmentApprove, AlignmentReject, MergeBranch, ComputationalStatus,
              Backfill, ChangeContext, vars
<1> QED BY <1>2, <1>3, <1>4, <1>5, <1>6 DEF Next

\* In one process a call that is about to promote stands on an approval that is current, and
\* one that is about to approve still sees the status it read.
THEOREM StretchInvariance == ASSUME ~MultiProcess PROVE Spec => []StretchInv
<1>1. Init => StretchInv
  BY DEF Init, StretchInv, Idle
<1>2. ASSUME Inv, StretchInv, [Next]_vars
      PROVE  StretchInv'
  <2> SUFFICES ASSUME NEW k \in Jobs
               PROVE  /\ job'[k].pc = "promote" => CurrentApproval(job[k].claim)'
                      /\ job'[k].pc = "approve" => job'[k].seen = claim'[job'[k].claim]
    BY DEF StretchInv
  <2>1. CASE job[k].pc \in {"promote", "approve"}
    <3>1. UNCHANGED vars \/ job'[k].pc \notin {"promote", "approve"}
      BY <1>2, <2>1, StretchAlone DEF SyncPoints
    <3>2. CASE UNCHANGED vars
      BY <1>2, <3>2 DEF vars, StretchInv, CurrentApproval, LatestAlignment
    <3> QED BY <3>1, <3>2
  <2>2. CASE job[k].pc \notin {"promote", "approve"}
    <3>1. CASE job'[k].pc = "promote"
      <4>1. /\ UNCHANGED <<natural, revision, alignment>>
            /\ CurrentApproval(job'[k].claim)
        BY <1>2, <2>2, <3>1, StretchEntered
      <4> QED BY <3>1, <4>1 DEF CurrentApproval, LatestAlignment
    <3>2. CASE job'[k].pc = "approve"
      BY <1>2, <2>2, <3>2, StretchEntered
    <3> QED BY <3>1, <3>2
  <2> QED BY <2>1, <2>2
<1> QED BY <1>1, <1>2, Invariance, PTL DEF Spec

\* In one process no promotion rests on an approval that went stale while Lean was running.
THEOREM PromotionIsApproved == ASSUME ~MultiProcess PROVE Spec => PromotionNeedsCurrentApproval
<1>1. ASSUME Inv, StretchInv, [Next]_vars
      PROVE  \A c \in Claims :
               claim[c] # "KERNEL_VERIFIED" /\ claim'[c] = "KERNEL_VERIFIED" => CurrentApproval(c)
  <2> SUFFICES ASSUME NEW c \in Claims, claim[c] # "KERNEL_VERIFIED", claim'[c] = "KERNEL_VERIFIED"
               PROVE  CurrentApproval(c)
    OBVIOUS
  <2>1. PICK j \in Jobs : Promote(j) /\ job[j].claim = c
    BY <1>1, OnlyPromoteVerifies
  <2> QED BY <1>1, <2>1 DEF Promote, At, StretchInv
<1> QED BY <1>1, Invariance, StretchInvariance, PTL DEF Spec, PromotionNeedsCurrentApproval

\* In one process KERNEL_VERIFIED is lost to a branch merge only.
THEOREM OnlyMergeTakesBack == ASSUME ~MultiProcess PROVE Spec => OnlyMergeRetracts
<1>1. ASSUME Inv, StretchInv, [Next]_vars
      PROVE  \A c \in Claims :
               claim[c] = "KERNEL_VERIFIED" => claim'[c] \in {"KERNEL_VERIFIED", "STALE"}
  <2> SUFFICES ASSUME NEW c \in Claims, claim[c] = "KERNEL_VERIFIED"
               PROVE  claim'[c] \in {"KERNEL_VERIFIED", "STALE"}
    OBVIOUS
  <2> USE <1>1 DEF Inv, TypeOK
  <2>1. ASSUME NEW j \in Jobs, NEW d \in Claims, NEW status \in CreationStatuses, CreateClaim(j, d, status)
        PROVE  claim'[c] = claim[c]
    BY <2>1 DEF CreateClaim, Present
  <2>2. ASSUME NEW j \in Jobs, ApproveWrite(j)
        PROVE  claim'[c] = claim[c]
    <3>1. job[j].claim \in Claims /\ job[j].seen = claim[job[j].claim]
      BY <2>2, ActiveJob DEF ApproveWrite, At, StretchInv
    <3>2. CASE job[j].claim = c
      BY <2>2, <3>1, <3>2 DEF ApproveWrite
    <3>3. CASE job[j].claim # c
      BY <2>2, <3>1, <3>3 DEF ApproveWrite
    <3> QED BY <3>2, <3>3
  <2>3. ASSUME NEW j \in Jobs, Promote(j)
        PROVE  claim'[c] = "KERNEL_VERIFIED"
    BY <2>3 DEF Promote
  <2>4. ASSUME NEW d \in Claims, MergeBranch(d) \/ ComputationalStatus(d)
        PROVE  claim'[c] \in {claim[c], "STALE"}
    BY <2>4 DEF MergeBranch, ComputationalStatus
  <2> QED BY <2>1, <2>2, <2>3, <2>4, Writers DEF FormalizePersist, ProveAccept, RejectFormal
<1> QED BY <1>1, Invariance, StretchInvariance, PTL DEF Spec, OnlyMergeRetracts
=============================================================================
