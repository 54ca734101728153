-------------------------- MODULE VerificationGate --------------------------
(***************************************************************************)
(* How a claim of a MathOS workspace becomes KERNEL_VERIFIED: the          *)
(* formalization, alignment, proof and verification services, the SQLite   *)
(* promotion statement and the triggers behind it.                         *)
(*                                                                         *)
(* Every service method awaits a model or Lean in the middle.  A job holds *)
(* what the method read before the await, so a later step may act on a     *)
(* row that has changed.  Between two awaits a method runs to completion   *)
(* in its process; with MultiProcess each job is a process of its own (the *)
(* CLI, the desktop sidecar, VS Code) and only SQLite transactions are     *)
(* atomic.                                                                 *)
(*                                                                         *)
(* Rows no guard reads are left out: FAILED and ELABORATES verification    *)
(* runs, FAILED proof attempts, fidelity reviews and events.               *)
(***************************************************************************)
EXTENDS Integers

CONSTANTS
  Claims,         \* claims the workspace may hold
  Theorems,       \* those whose kind is theorem or corollary
  Contexts,       \* context snapshots the user may switch between
  CreationStatuses,  \* statuses a new claim is created with
  Jobs,           \* service calls that may be in flight together
  None,           \* no claim
  MaxFormals, MaxProofs, MaxRuns, MaxAlignments, MaxRevisions,  \* table bounds
  MultiProcess    \* TRUE: every job runs in an operating system process of its own

ASSUME ConstantsAssumption ==
  /\ Theorems \subseteq Claims
  /\ None \notin Claims
  /\ {MaxFormals, MaxProofs, MaxRuns, MaxAlignments, MaxRevisions} \subseteq Nat
  /\ MultiProcess \in BOOLEAN
  /\ CreationStatuses \subseteq {"CONJECTURE", "COMPUTATIONALLY_SUPPORTED", "INDEPENDENTLY_CHECKED"}

FormalIds == 1 .. MaxFormals
ProofIds == 1 .. MaxProofs
RunIds == 1 .. MaxRuns
AlignmentIds == 1 .. MaxAlignments
Legacy == "CR-LEGACY"
NoContext == "none"
ContextRevisions == Contexts \union {Legacy, NoContext}

ClaimStatus == {"ABSENT", "CONJECTURE", "COMPUTATIONALLY_SUPPORTED", "FORMALIZED_UNVERIFIED",
                "INDEPENDENTLY_CHECKED", "KERNEL_VERIFIED", "STALE"}
Fidelity == {"NOT_REVIEWED", "AI_REVIEWED", "HUMAN_APPROVED", "REJECTED"}

\* The seven checks of runVerificationGate, stored by name in gate_json.
Checks == {"current revision", "fidelity", "proof compiles", "forbidden constructs",
           "custom axioms", "Lean version", "toolchain pinned"}

VARIABLES
  claim,      \* claims.status
  formal,     \* formal_statements: owner, is_current, fidelity_status
  proof,      \* KERNEL_ACCEPTED proof_attempts: claim and formal statement
  run,        \* KERNEL_ACCEPTED verification_runs
  natural,    \* latest NATURAL statement revision of a claim
  revision,   \* latest FORMAL statement revision of a claim
  alignment,  \* formal_alignments
  context,    \* the context snapshot a capture would bind to
  job         \* the calls in flight

rows == <<formal, proof, run>>
bindings == <<natural, revision, alignment>>
vars == <<claim, formal, proof, run, natural, revision, alignment, context, job>>

Idle == [pc |-> "idle", claim |-> None, formal |-> 0, proof |-> 0, checks |-> {},
         seen |-> "ABSENT", nat |-> 0, frm |-> 0, ctx |-> NoContext]

\* Places inside one synchronous stretch of a method: a crash can hit them, another
\* call of the same process cannot.
SyncPoints == {"captureNatural", "captureFormal", "approve", "bind", "promote"}
PCs == SyncPoints \union {"idle", "formalize", "prove", "verify", "audit"}

FormalRow == [claim : Claims \union {None}, current : BOOLEAN, fidelity : Fidelity]
ProofRow == [claim : Claims \union {None}, formal : FormalIds \union {0}]
RunRow == [claim : Claims \union {None}, formal : FormalIds \union {0},
           proof : ProofIds \union {0}, fidelity : Fidelity, checks : SUBSET Checks]
NaturalRow == [rev : Nat, ctx : ContextRevisions]
RevisionRow == [rev : Nat, formal : FormalIds \union {0}, ctx : ContextRevisions]
AlignmentRow == [claim : Claims \union {None}, nat : Nat, frm : Nat, formal : FormalIds \union {0},
                 ctx : ContextRevisions, error : BOOLEAN,
                 asked : FormalIds \union {0},  \* history: the statement the human was asked about
                 status : {"PENDING", "REVIEWED", "HUMAN_APPROVED", "REJECTED"}]
Fields == [pc : PCs, claim : Claims \union {None}, formal : FormalIds \union {0},
           proof : ProofIds \union {0}, checks : SUBSET Checks, seen : ClaimStatus,
           nat : Nat, frm : Nat, ctx : ContextRevisions]
JobRow == {fields \in Fields : fields.pc = "idle" \/ fields.claim \in Claims}

TypeOK ==
  /\ claim \in [Claims -> ClaimStatus]
  /\ formal \in [FormalIds -> FormalRow]
  /\ proof \in [ProofIds -> ProofRow]
  /\ run \in [RunIds -> RunRow]
  /\ natural \in [Claims -> NaturalRow]
  /\ revision \in [Claims -> RevisionRow]
  /\ alignment \in [AlignmentIds -> AlignmentRow]
  /\ context \in Contexts
  /\ job \in [Jobs -> JobRow]   \* a call in flight works on a claim of the workspace

NoAlignment == [claim |-> None, nat |-> 0, frm |-> 0, formal |-> 0, ctx |-> NoContext,
                error |-> FALSE, asked |-> 0, status |-> "PENDING"]

Init ==
  /\ claim = [c \in Claims |-> "ABSENT"]
  /\ formal = [f \in FormalIds |-> [claim |-> None, current |-> FALSE, fidelity |-> "NOT_REVIEWED"]]
  /\ proof = [p \in ProofIds |-> [claim |-> None, formal |-> 0]]
  /\ run = [r \in RunIds |-> [claim |-> None, formal |-> 0, proof |-> 0,
                              fidelity |-> "NOT_REVIEWED", checks |-> {}]]
  /\ natural = [c \in Claims |-> [rev |-> 0, ctx |-> NoContext]]
  /\ revision = [c \in Claims |-> [rev |-> 0, formal |-> 0, ctx |-> NoContext]]
  /\ alignment = [a \in AlignmentIds |-> NoAlignment]
  /\ context \in Contexts
  /\ job = [j \in Jobs |-> Idle]

-----------------------------------------------------------------------------
(* Queries *)

Present(c) == claim[c] # "ABSENT"
FormalOf(c, f) == f \in FormalIds /\ formal[f].claim = c
CurrentFormal(c, f) == FormalOf(c, f) /\ formal[f].current

\* The first id a table has not used yet.
NextId(table, ids, i) == i \in ids /\ table[i].claim = None /\ \A k \in ids : k < i => table[k].claim # None

\* ProofAttemptRepository.latestAccepted; 0 when the claim has no accepted proof.
LatestAccepted(c, p) ==
  \/ p = 0 /\ \A q \in ProofIds : proof[q].claim # c
  \/ p \in ProofIds /\ proof[p].claim = c /\ \A q \in ProofIds : proof[q].claim = c => q <= p

LatestAlignment(c, a) ==
  /\ a \in AlignmentIds /\ alignment[a].claim = c
  /\ \A b \in AlignmentIds : alignment[b].claim = c => b <= a

\* AlignmentService.currentApproval: the newest alignment is approved and still names the
\* newest natural and formal revisions and their common context.
CurrentApproval(c) ==
  \E a \in AlignmentIds :
    /\ LatestAlignment(c, a)
    /\ alignment[a].status = "HUMAN_APPROVED"
    /\ alignment[a].nat = natural[c].rev
    /\ alignment[a].frm = revision[c].rev
    /\ alignment[a].ctx = natural[c].ctx
    /\ revision[c].ctx = natural[c].ctx

\* Mutant: the join forgets fs.is_current = 1.
EvidenceBacksAnyRevision(e, c) ==
  /\ e.claim = c /\ Checks \subseteq e.checks /\ e.fidelity = "HUMAN_APPROVED"
  /\ FormalOf(c, e.formal) /\ formal[e.formal].fidelity = "HUMAN_APPROVED"
  /\ e.proof \in ProofIds /\ proof[e.proof].claim = c /\ proof[e.proof].formal = e.formal

\* Mutant: the join forgets pa.formal_statement_id = fs.id.
EvidenceBacksAnyProof(e, c) ==
  /\ e.claim = c /\ Checks \subseteq e.checks /\ e.fidelity = "HUMAN_APPROVED"
  /\ CurrentFormal(c, e.formal) /\ formal[e.formal].fidelity = "HUMAN_APPROVED"
  /\ e.proof \in ProofIds /\ proof[e.proof].claim = c

\* The join that both promoteVerifiedClaim and the update trigger require.
EvidenceBacks(e, c) ==
  /\ e.claim = c
  /\ Checks \subseteq e.checks
  /\ e.fidelity = "HUMAN_APPROVED"
  /\ CurrentFormal(c, e.formal)
  /\ formal[e.formal].fidelity = "HUMAN_APPROVED"
  /\ e.proof \in ProofIds
  /\ proof[e.proof].claim = c
  /\ proof[e.proof].formal = e.formal

\* verified_claim_formal_update_guard: the row backs a verified claim and may not be written.
Frozen(f) ==
  \E r \in RunIds : /\ run[r].formal = f
                    /\ run[r].claim # None
                    /\ claim[run[r].claim] = "KERNEL_VERIFIED"

-----------------------------------------------------------------------------
(* Scheduling *)

\* No call of this process is in the middle of a synchronous stretch.
Quiet == MultiProcess \/ \A k \in Jobs : job[k].pc \notin SyncPoints
Turn(j) == MultiProcess \/ \A k \in Jobs \ {j} : job[k].pc \notin SyncPoints

Free(j) == job[j].pc = "idle" /\ Quiet
At(j, pc) == job[j].pc = pc /\ Turn(j)
Goto(j, next) == job' = [job EXCEPT ![j] = next]

\* The call throws: a budget is exhausted, a model, Lean or the file system fails, a
\* prerequisite or a trigger refuses.  Whatever was committed before stays.
Throw(j) ==
  /\ job[j].pc \in PCs \ {"idle"} /\ Turn(j)
  /\ Goto(j, Idle)
  /\ UNCHANGED <<claim, rows, bindings, context>>

-----------------------------------------------------------------------------
(* Claims and statement revisions *)

\* MathOS.createClaim: the row, then its NATURAL revision.  Any status but KERNEL_VERIFIED.
CreateClaim(j, c, status) ==
  /\ Free(j) /\ ~Present(c)
  /\ claim' = [claim EXCEPT ![c] = status]
  /\ Goto(j, [Idle EXCEPT !.pc = "captureNatural", !.claim = c, !.ctx = context])
  /\ UNCHANGED <<rows, bindings, context>>

\* StatementRevisionService.capture of the claim's text: a new revision only if the context
\* differs from the latest one.  formalize goes on to capture the formal statement.
CaptureNatural(j) ==
  LET c == job[j].claim
      known == natural[c].rev > 0 /\ natural[c].ctx = job[j].ctx
  IN /\ At(j, "captureNatural")
     /\ natural[c].rev < MaxRevisions
     /\ natural' = IF known THEN natural
                   ELSE [natural EXCEPT ![c] = [rev |-> @.rev + 1, ctx |-> job[j].ctx]]
     /\ Goto(j, IF job[j].formal = 0 THEN Idle ELSE [job[j] EXCEPT !.pc = "captureFormal"])
     /\ UNCHANGED <<claim, rows, revision, alignment, context>>

CaptureFormal(j) ==
  LET c == job[j].claim
      f == job[j].formal
      known == revision[c].formal = f /\ revision[c].ctx = job[j].ctx
  IN /\ At(j, "captureFormal")
     /\ revision[c].rev < MaxRevisions
     /\ revision' = IF known THEN revision
                    ELSE [revision EXCEPT ![c] = [rev |-> @.rev + 1, formal |-> f, ctx |-> job[j].ctx]]
     /\ Goto(j, Idle)
     /\ UNCHANGED <<claim, rows, natural, alignment, context>>

\* backfillLegacy, run by every open of the workspace: claims without a revision get one
\* in the legacy context, the formal one from their first statement.
Backfill ==
  /\ MultiProcess \/ \A j \in Jobs : job[j] = Idle
  /\ natural' = [c \in Claims |-> IF Present(c) /\ natural[c].rev = 0
                                 THEN [rev |-> 1, ctx |-> Legacy] ELSE natural[c]]
  /\ \E first \in [Claims -> FormalIds \union {0}] :
       /\ \A c \in Claims :
            \/ first[c] = 0 /\ \A g \in FormalIds : ~FormalOf(c, g)
            \/ FormalOf(c, first[c]) /\ \A g \in FormalIds : FormalOf(c, g) => first[c] <= g
       /\ revision' = [c \in Claims |-> IF first[c] # 0 /\ revision[c].rev = 0
                                       THEN [rev |-> 1, formal |-> first[c], ctx |-> Legacy]
                                       ELSE revision[c]]
  /\ UNCHANGED <<claim, rows, alignment, context, job>>

\* The user applies a context item: snapshots resolved from now on differ.
ChangeContext ==
  /\ Quiet
  /\ context' \in Contexts \ {context}
  /\ UNCHANGED <<claim, rows, bindings, job>>

-----------------------------------------------------------------------------
(* Formalization and its human decision *)

FormalizeBegin(j, c) ==
  /\ Free(j) /\ Present(c)
  /\ Goto(j, [Idle EXCEPT !.pc = "formalize", !.claim = c])
  /\ UNCHANGED <<claim, rows, bindings, context>>

\* Mutant: the new statement is inserted without retiring the claim's others.
FormalizePersistBeside(j, fidelity) ==
  LET c == job[j].claim
  IN /\ At(j, "formalize")
     /\ fidelity \in {"AI_REVIEWED", "NOT_REVIEWED"}
     /\ \E new \in FormalIds :
          /\ NextId(formal, FormalIds, new)
          /\ formal' = [formal EXCEPT ![new] = [claim |-> c, current |-> TRUE, fidelity |-> fidelity]]
          /\ Goto(j, [Idle EXCEPT !.pc = "captureNatural", !.claim = c, !.formal = new, !.ctx = context])
     /\ UNCHANGED <<claim, proof, run, bindings, context>>

\* The draft elaborated: one transaction retires the claim's other statements and inserts
\* the new one.  The trigger aborts it while one of them backs a verified claim.
FormalizePersist(j, fidelity) ==
  LET c == job[j].claim
  IN /\ At(j, "formalize")
     /\ fidelity \in {"AI_REVIEWED", "NOT_REVIEWED"}
     /\ \A f \in FormalIds : FormalOf(c, f) => ~Frozen(f)
     /\ \E new \in FormalIds :
          /\ NextId(formal, FormalIds, new)
          /\ formal' = [f \in FormalIds |->
               IF f = new THEN [claim |-> c, current |-> TRUE, fidelity |-> fidelity]
               ELSE [formal[f] EXCEPT !.current = @ /\ formal[f].claim # c]]
          /\ Goto(j, [Idle EXCEPT !.pc = "captureNatural", !.claim = c, !.formal = new, !.ctx = context])
     /\ UNCHANGED <<claim, proof, run, bindings, context>>

\* approveFormal reads the statement and its claim before it opens a transaction.
ApproveBegin(j, f) ==
  /\ Free(j)
  /\ formal[f].claim # None
  /\ LET c == formal[f].claim
     IN Goto(j, [Idle EXCEPT !.pc = IF formal[f].fidelity = "HUMAN_APPROVED" THEN "bind" ELSE "approve",
                             !.claim = c, !.formal = f, !.seen = claim[c]])
  /\ UNCHANGED <<claim, rows, bindings, context>>

\* Mutant: approval always sets FORMALIZED_UNVERIFIED.
ApproveWriteDemotes(j) ==
  LET f == job[j].formal
      c == job[j].claim
  IN /\ At(j, "approve") /\ ~Frozen(f)
     /\ formal' = [formal EXCEPT ![f].fidelity = "HUMAN_APPROVED"]
     /\ claim' = [claim EXCEPT ![c] = "FORMALIZED_UNVERIFIED"]
     /\ Goto(j, [job[j] EXCEPT !.pc = "bind"])
     /\ UNCHANGED <<proof, run, bindings, context>>

\* The statement becomes HUMAN_APPROVED and the claim FORMALIZED_UNVERIFIED, unless the claim
\* was verified when it was read.
ApproveWrite(j) ==
  LET f == job[j].formal
      c == job[j].claim
  IN /\ At(j, "approve")
     /\ ~Frozen(f)
     /\ formal' = [formal EXCEPT ![f].fidelity = "HUMAN_APPROVED"]
     /\ claim' = IF job[j].seen \in {"KERNEL_VERIFIED", "INDEPENDENTLY_CHECKED"} THEN claim
                 ELSE [claim EXCEPT ![c] = "FORMALIZED_UNVERIFIED"]
     /\ Goto(j, [job[j] EXCEPT !.pc = "bind"])
     /\ UNCHANGED <<proof, run, bindings, context>>

\* MathOS.approveFormal goes on with recordExplicitHumanApproval(claim): whatever statement
\* was approved, the alignment names the claim's latest revisions.
BindApproval(j) ==
  LET c == job[j].claim
  IN /\ At(j, "bind")
     /\ natural[c].rev > 0 /\ revision[c].rev > 0
     /\ natural[c].ctx = revision[c].ctx
     /\ \/ CurrentApproval(c) /\ UNCHANGED alignment
        \/ /\ ~CurrentApproval(c)
           /\ \E new \in AlignmentIds :
                /\ NextId(alignment, AlignmentIds, new)
                /\ alignment' = [alignment EXCEPT ![new] =
                     [claim |-> c, nat |-> natural[c].rev, frm |-> revision[c].rev,
                      formal |-> revision[c].formal, ctx |-> natural[c].ctx,
                      error |-> FALSE, asked |-> job[j].formal, status |-> "HUMAN_APPROVED"]]
     /\ Goto(j, Idle)
     /\ UNCHANGED <<claim, rows, natural, revision, context>>

\* Mutant: the rejection is not stopped by the trigger.
RejectFormalUnguarded(f) ==
  /\ Quiet /\ formal[f].claim # None
  /\ formal' = [formal EXCEPT ![f].fidelity = "REJECTED"]
  /\ UNCHANGED <<claim, proof, run, bindings, context, job>>

RejectFormal(f) ==
  /\ Quiet
  /\ formal[f].claim # None /\ ~Frozen(f)
  /\ formal' = [formal EXCEPT ![f].fidelity = "REJECTED"]
  /\ UNCHANGED <<claim, proof, run, bindings, context, job>>

-----------------------------------------------------------------------------
(* Alignment audits *)

AuditBegin(j, c) ==
  /\ Free(j)
  /\ natural[c].rev > 0 /\ revision[c].rev > 0
  /\ natural[c].ctx = revision[c].ctx
  /\ Goto(j, [Idle EXCEPT !.pc = "audit", !.claim = c, !.formal = revision[c].formal,
                          !.nat = natural[c].rev, !.frm = revision[c].rev, !.ctx = natural[c].ctx])
  /\ UNCHANGED <<claim, rows, bindings, context>>

\* The audit is recorded even when the model failed: then it is PENDING, with a warning.
AuditFinish(j, status, error) ==
  /\ At(j, "audit")
  /\ status \in {"PENDING", "REVIEWED"}
  /\ error => status = "REVIEWED"
  /\ \E new \in AlignmentIds :
       /\ NextId(alignment, AlignmentIds, new)
       /\ alignment' = [alignment EXCEPT ![new] =
            [claim |-> job[j].claim, nat |-> job[j].nat, frm |-> job[j].frm,
             formal |-> job[j].formal, ctx |-> job[j].ctx, error |-> error, asked |-> 0,
             status |-> status]]
  /\ Goto(j, Idle)
  /\ UNCHANGED <<claim, rows, natural, revision, context>>

\* AlignmentService.approve: only for the latest revisions, and with no open ERROR finding.
AlignmentApprove(a) ==
  LET c == alignment[a].claim
  IN /\ Quiet
     /\ c # None
     /\ alignment[a].nat = natural[c].rev /\ alignment[a].frm = revision[c].rev
     /\ ~alignment[a].error
     /\ alignment' = [alignment EXCEPT ![a].status = "HUMAN_APPROVED", ![a].asked = alignment[a].formal]
     /\ UNCHANGED <<claim, rows, natural, revision, context, job>>

AlignmentReject(a) ==
  /\ Quiet
  /\ alignment[a].claim # None
  /\ alignment' = [alignment EXCEPT ![a].status = "REJECTED"]
  /\ UNCHANGED <<claim, rows, natural, revision, context, job>>

-----------------------------------------------------------------------------
(* Proofs *)

\* prove works on the statement that is current when it starts.
ProveBegin(j, c, f) ==
  /\ Free(j) /\ Present(c) /\ CurrentFormal(c, f)
  /\ formal[f].fidelity # "REJECTED"
  /\ c \in Theorems => formal[f].fidelity = "HUMAN_APPROVED"
  /\ Goto(j, [Idle EXCEPT !.pc = "prove", !.claim = c, !.formal = f])
  /\ UNCHANGED <<claim, rows, bindings, context>>

\* Lean accepted an attempt for the statement read at the start, current or not; unless an
\* accounted run asked for it, verify follows in the same synchronous stretch.
ProveAccept(j, verifies) ==
  LET c == job[j].claim
  IN /\ At(j, "prove")
     /\ \E new \in ProofIds :
          /\ NextId(proof, ProofIds, new)
          /\ proof' = [proof EXCEPT ![new] = [claim |-> c, formal |-> job[j].formal]]
          /\ IF verifies
             THEN \E f \in FormalIds : /\ CurrentFormal(c, f)
                                       /\ Goto(j, [Idle EXCEPT !.pc = "verify", !.claim = c,
                                                               !.formal = f, !.proof = new])
             ELSE Goto(j, Idle)
     /\ UNCHANGED <<claim, formal, run, bindings, context>>

-----------------------------------------------------------------------------
(* The gate *)

VerifyBegin(j, c, f, p) ==
  /\ Free(j) /\ Present(c) /\ CurrentFormal(c, f) /\ LatestAccepted(c, p)
  /\ Goto(j, [Idle EXCEPT !.pc = "verify", !.claim = c, !.formal = f, !.proof = p])
  /\ UNCHANGED <<claim, rows, bindings, context>>

\* What Lean said while the call was awaiting it.
LeanAnswer == [compiled : BOOLEAN, standardAxioms : BOOLEAN, version : BOOLEAN, pinned : BOOLEAN]

\* Mutant: the gate trusts the statement's own fidelity column and skips currentApproval.
GateReportWithoutAlignment(c, p, lean) ==
  {"current revision", "fidelity"}
    \union (IF p # 0 /\ lean.compiled THEN {"proof compiles"} ELSE {})
    \union (IF p # 0 THEN {"forbidden constructs"} ELSE {})
    \union (IF lean.standardAxioms THEN {"custom axioms"} ELSE {})
    \union (IF lean.version THEN {"Lean version"} ELSE {})
    \union (IF lean.pinned THEN {"toolchain pinned"} ELSE {})

\* runVerificationGate: the names of the checks that PASS.  is_current is the value read
\* when the call started, so its check passes; the alignment is read here.
GateReport(c, p, lean) ==
  {"current revision"}
    \union (IF CurrentApproval(c) THEN {"fidelity"} ELSE {})
    \union (IF p # 0 /\ lean.compiled THEN {"proof compiles"} ELSE {})
    \union (IF p # 0 THEN {"forbidden constructs"} ELSE {})
    \union (IF lean.standardAxioms THEN {"custom axioms"} ELSE {})
    \union (IF lean.version THEN {"Lean version"} ELSE {})
    \union (IF lean.pinned THEN {"toolchain pinned"} ELSE {})

\* The last await returned.  A report that fails is stored as a FAILED run, which nothing
\* reads; one that passes goes on to the promotion.
VerifyGate(j, lean) ==
  LET report == GateReport(job[j].claim, job[j].proof, lean)
  IN /\ At(j, "verify")
     /\ Goto(j, IF report = Checks THEN [job[j] EXCEPT !.pc = "promote", !.checks = report] ELSE Idle)
     /\ UNCHANGED <<claim, rows, bindings, context>>

\* Mutant: the run is committed before the promotion is tried.
PromoteInTwoTransactions(j) ==
  LET c == job[j].claim
      e == [claim |-> c, formal |-> job[j].formal, proof |-> job[j].proof,
            fidelity |-> "HUMAN_APPROVED", checks |-> job[j].checks]
  IN /\ At(j, "promote")
     /\ \E new \in RunIds : NextId(run, RunIds, new) /\ run' = [run EXCEPT ![new] = e]
     /\ claim' = IF EvidenceBacks(e, c) THEN [claim EXCEPT ![c] = "KERNEL_VERIFIED"] ELSE claim
     /\ Goto(j, Idle)
     /\ UNCHANGED <<formal, proof, bindings, context>>

\* One transaction: the KERNEL_ACCEPTED run and promoteVerifiedClaim.  When the run does not
\* back the claim no row is updated, the promoter throws and the run is rolled back (Throw).
Promote(j) ==
  LET c == job[j].claim
      e == [claim |-> c, formal |-> job[j].formal, proof |-> job[j].proof,
            fidelity |-> "HUMAN_APPROVED", checks |-> job[j].checks]
  IN /\ At(j, "promote")
     /\ EvidenceBacks(e, c)
     /\ \E new \in RunIds : /\ NextId(run, RunIds, new)
                            /\ run' = [run EXCEPT ![new] = e]
     /\ claim' = [claim EXCEPT ![c] = "KERNEL_VERIFIED"]
     /\ Goto(j, Idle)
     /\ UNCHANGED <<formal, proof, bindings, context>>

-----------------------------------------------------------------------------
(* Other writers of a claim's status *)

\* Mutant: the merge writes a status that is not a claim status.
MergeBranchAsImport(c) ==
  /\ Quiet
  /\ claim[c] = "KERNEL_VERIFIED"
  /\ claim' = [claim EXCEPT ![c] = "REVERIFY_REQUIRED"]
  /\ UNCHANGED <<rows, bindings, context, job>>

\* BranchService.merge: a verified claim of the source branch must be verified again.
MergeBranch(c) ==
  /\ Quiet
  /\ claim[c] = "KERNEL_VERIFIED"
  /\ claim' = [claim EXCEPT ![c] = "STALE"]
  /\ UNCHANGED <<rows, bindings, context, job>>

\* ExperimentService.applyComputationalStatus, inside the evidence transaction.
ComputationalStatus(c) ==
  /\ Quiet
  /\ claim[c] = "CONJECTURE"
  /\ claim' = [claim EXCEPT ![c] = "COMPUTATIONALLY_SUPPORTED"]
  /\ UNCHANGED <<rows, bindings, context, job>>

-----------------------------------------------------------------------------
Next ==
  \/ \E j \in Jobs :
       \/ \E c \in Claims, status \in CreationStatuses : CreateClaim(j, c, status)
       \/ CaptureNatural(j) \/ CaptureFormal(j)
       \/ \E c \in Claims : FormalizeBegin(j, c)
       \/ \E fidelity \in Fidelity : FormalizePersist(j, fidelity)
       \/ \E f \in FormalIds : ApproveBegin(j, f)
       \/ ApproveWrite(j) \/ BindApproval(j)
       \/ \E c \in Claims : AuditBegin(j, c)
       \/ \E status \in {"PENDING", "REVIEWED"}, error \in BOOLEAN : AuditFinish(j, status, error)
       \/ \E c \in Claims, f \in FormalIds : ProveBegin(j, c, f)
       \/ \E verifies \in BOOLEAN : ProveAccept(j, verifies)
       \/ \E c \in Claims, f \in FormalIds, p \in ProofIds \union {0} : VerifyBegin(j, c, f, p)
       \/ \E lean \in LeanAnswer : VerifyGate(j, lean)
       \/ Promote(j)
       \/ Throw(j)
  \/ \E f \in FormalIds : RejectFormal(f)
  \/ \E a \in AlignmentIds : AlignmentApprove(a) \/ AlignmentReject(a)
  \/ \E c \in Claims : MergeBranch(c) \/ ComputationalStatus(c)
  \/ Backfill
  \/ ChangeContext

Spec == Init /\ [][Next]_vars

-----------------------------------------------------------------------------
(* Properties *)

\* A claim is KERNEL_VERIFIED only while an accepted gate run with all seven checks stands
\* behind it, whose formal statement is still the claim's current one and human approved, and
\* whose proof Lean accepted for that very statement, whatever happened during the awaits of
\* verify, prove and formalize.
VerifiedHasEvidence ==
  \A c \in Claims : claim[c] = "KERNEL_VERIFIED" =>
    \E r \in RunIds :
      /\ run[r].claim = c /\ run[r].checks = Checks
      /\ run[r].formal \in FormalIds /\ run[r].proof \in ProofIds
      /\ formal[run[r].formal] = [claim |-> c, current |-> TRUE, fidelity |-> "HUMAN_APPROVED"]
      /\ proof[run[r].proof] = [claim |-> c, formal |-> run[r].formal]

\* An accepted run keeps naming a statement and a proof of its own claim, and the proof is one
\* Lean accepted for that statement, whatever was formalized, proved or merged since.
RunsReferToRows ==
  \A r \in RunIds : run[r].claim # None =>
    /\ run[r].formal \in FormalIds /\ formal[run[r].formal].claim = run[r].claim
    /\ run[r].proof \in ProofIds
    /\ proof[run[r].proof] = [claim |-> run[r].claim, formal |-> run[r].formal]

\* formalize retires every other statement of the claim in the transaction that inserts the
\* new one: two formalizations in flight never leave two current statements.
OneCurrentFormal ==
  \A f, g \in FormalIds :
    formal[f].current /\ formal[g].current /\ formal[f].claim = formal[g].claim => f = g

\* While a claim stays verified, no service can change the formal statements or the proofs
\* its accepted runs name: the evidence of a verified claim is immutable.
EvidenceImmutable ==
  [][\A r \in RunIds :
       /\ run[r].claim # None
       /\ claim[run[r].claim] = "KERNEL_VERIFIED" /\ claim'[run[r].claim] = "KERNEL_VERIFIED"
       => /\ run'[r] = run[r]
          /\ formal'[run[r].formal] = formal[run[r].formal]
          /\ proof'[run[r].proof] = proof[run[r].proof]]_vars

\* In one process, the step that makes a claim KERNEL_VERIFIED finds a human approval that is
\* current for the claim's latest revisions at that moment, not one that went stale while
\* Lean was running.
PromotionNeedsCurrentApproval ==
  [][\A c \in Claims :
       claim[c] # "KERNEL_VERIFIED" /\ claim'[c] = "KERNEL_VERIFIED" => CurrentApproval(c)]_vars

\* An accepted verification run and the promotion it justifies commit together: there is
\* never a stored KERNEL_ACCEPTED run whose own transaction left the claim unverified.
AcceptedRunPromotes ==
  [][\A r \in RunIds : run'[r] # run[r] => claim'[run'[r].claim] = "KERNEL_VERIFIED"]_vars

\* In one process, only a branch merge takes KERNEL_VERIFIED away from a claim, and it leaves
\* STALE: approving another statement of the claim, a late formalization or an experiment
\* never overwrites the verified status.
OnlyMergeRetracts ==
  [][\A c \in Claims :
       claim[c] = "KERNEL_VERIFIED" => claim'[c] \in {"KERNEL_VERIFIED", "STALE"}]_vars

\* The trust model, with a claim's backing read off the tables: its current, human approved
\* statements for which Lean accepted a proof.  Every step of the services is a step a person
\* or a model may take, a promotion by the gate on complete backing, or a retraction.
Backing ==
  [c \in Claims |->
    {f \in FormalIds : /\ CurrentFormal(c, f)
                       /\ formal[f].fidelity = "HUMAN_APPROVED"
                       /\ \E p \in ProofIds : proof[p].claim = c /\ proof[p].formal = f}]

Trust == INSTANCE TrustModel WITH
  Formals <- FormalIds,
  verified <- {c \in Claims : claim[c] = "KERNEL_VERIFIED"},
  backing <- Backing

ImplementsTrustModel == Trust!Spec

\* docs/ALIGNMENT_WORKFLOW.md: "A human approval is bound to exact natural, formal, context,
\* and revision hashes": an approved alignment names the
\* statement the human was asked about.
ApprovalBoundToStatement ==
  \A a \in AlignmentIds : alignment[a].status = "HUMAN_APPROVED" => alignment[a].asked = alignment[a].formal
=============================================================================
