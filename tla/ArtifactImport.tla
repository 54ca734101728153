---------------------------- MODULE ArtifactImport ----------------------------
(***************************************************************************)
(* A verified claim of one worker is imported into the branch of another:  *)
(* cloned without its approval, approved again by a human, verified again, *)
(* and recorded as APPLIED.  Applying an import and stepping a worker      *)
(* switch the current branch of the workspace, await, and switch it back.  *)
(*                                                                         *)
(* One import is followed, in one process: between two awaits nothing      *)
(* interleaves but a kill.  Any transaction of an application may be       *)
(* refused: it throws, and the finally runs.  How a claim becomes          *)
(* KERNEL_VERIFIED, and stops being it, is the subject of VerificationGate; *)
(* here source and target are approved, verified, merged and formalized    *)
(* anew at any moment.                                                     *)
(*                                                                         *)
(* The source's current formal statement and latest run are one record     *)
(* number; its statement is one of a few texts.                            *)
(***************************************************************************)
EXTENDS Integers, FiniteSets

CONSTANTS
  Calls,        \* calls that may be in flight together
  Lemmas,       \* claims the source may depend on
  Texts,        \* statements
  MaxRecords,   \* bound: statements and runs of the source
  MaxClones,    \* bound: claims made for the import
  MaxMoves,     \* bound: changes made by the users and by the rest of the program, and failures
  Steps,        \* TRUE: the workers make research steps as well
  Kills,        \* TRUE: the process ends anywhere, and the workspace is opened again
  WritesFail    \* TRUE: a transaction may be refused

ASSUME ConstantsAssumption ==
  /\ "source" \notin Lemmas /\ IsFiniteSet(Lemmas)
  /\ {MaxRecords, MaxClones} \subseteq Nat \ {0} /\ MaxMoves \in Nat
  /\ {Steps, Kills, WritesFail} \subseteq BOOLEAN

SourceBranch == "W1"
TargetBranch == "W2"
Workers == {SourceBranch, TargetBranch}
Branches == {"MAIN"} \union Workers
Nodes == Lemmas \union {"source"}
CloneIds == 1 .. MaxClones

Source == [verified : BOOLEAN, approved : BOOLEAN, record : 1 .. MaxRecords, text : Texts]

\* How far a clone has come: its row, its natural revision, its formal statement and its place in
\* the import, the revision of that statement, the proof.  A statement's revision that the next
\* opening had to supply is legacy: its context is not the natural revision's, so nobody can approve it.
Stages == {"none", "bare", "claim", "statement", "legacy", "bound", "ready"}
Clone == [stage : Stages, text : Texts, sameContext : BOOLEAN, approved : BOOLEAN, verified : BOOLEAN]

Refusals == {"FAILED", "REVERIFY_REQUIRED", "CONFLICT"}
Import == [status : Refusals \union {"NONE", "PROPOSED", "REJECTED", "APPLYING", "APPLIED"},
           record : 0 .. MaxRecords, target : 0 .. MaxClones]

VARIABLES
  source,     \* the source claim
  edges,      \* dependencies: <<from, to>>
  proved,     \* the lemmas that are KERNEL_VERIFIED
  rival,      \* a declaration of the same name and another text is visible in the target branch
  clone,      \* the claims made for the import
  imp,        \* the row of verified_artifact_imports
  branch,     \* the current branch of the workspace
  abandoned,  \* branches that are ABANDONED
  call,       \* the calls in flight
  moves,      \* changes made so far by the users and by the rest of the program, and failures
  chosen,     \* history: the branch the user is left with
  disturbed,  \* history: since that choice a call overlapped another or a switch of branches, or was
              \* not allowed to switch back
  torn,       \* history: a clone was cut short in the making, by a kill or a refused transaction
  strayed     \* history: a worker's subclaim was made in a branch that is not the worker's

claims == <<source, edges, proved, rival>>
history == <<chosen, disturbed, torn, strayed>>
vars == <<claims, clone, imp, branch, abandoned, call, moves, history>>

NoImport == [status |-> "NONE", record |-> 0, target |-> 0]
NoClone(t) == [stage |-> "none", text |-> t, sameContext |-> TRUE, approved |-> FALSE, verified |-> FALSE]
Idle == [pc |-> "idle", item |-> NoImport, own |-> "MAIN", prev |-> "MAIN", passed |-> FALSE]
\* The places between the transactions that make a clone.
Making == {"revise", "record", "bind"}
Writing == Making \union {"switch", "clone", "store", "check", "restore"}
Call == [pc : Writing \union {"idle", "verify", "finalize", "plan", "act"}, item : Import,
         own : Branches, prev : Branches, passed : BOOLEAN]

\* Rows and calls are what the program stores; the current branch is never an abandoned one.
TypeOK ==
  /\ source \in Source /\ clone \in [CloneIds -> Clone] /\ imp \in Import
  /\ edges \subseteq Nodes \X Nodes /\ proved \subseteq Lemmas /\ rival \in BOOLEAN
  /\ branch \in Branches /\ abandoned \subseteq Workers /\ branch \notin abandoned
  /\ call \in [Calls -> Call] /\ moves \in 0 .. MaxMoves
  /\ chosen \in Branches /\ disturbed \in BOOLEAN /\ torn \in BOOLEAN /\ strayed \in BOOLEAN

\* The usual beginning: the source is verified, and a declaration may be in its way.
Init ==
  /\ source \in [verified : {TRUE}, approved : {TRUE}, record : {1}, text : Texts]
  /\ clone = [i \in CloneIds |-> NoClone(source.text)]
  /\ edges \in SUBSET {<<"source", l>> : l \in Lemmas} /\ proved = Lemmas /\ rival = FALSE
  /\ imp = NoImport /\ branch = "MAIN" /\ abandoned = {}
  /\ call = [c \in Calls |-> Idle] /\ moves = 0
  /\ chosen = "MAIN" /\ disturbed = FALSE /\ torn = FALSE /\ strayed = FALSE

-----------------------------------------------------------------------------
(* What the checks read *)

\* dependencyClosure: what can be reached from the source in some number of steps.
Closure ==
  LET reach[n \in Nat] ==
        IF n = 0 THEN {b \in Nodes : <<"source", b>> \in edges}
        ELSE reach[n - 1] \union {b \in Nodes : \E a \in reach[n - 1] : <<a, b>> \in edges}
  IN reach[Cardinality(Nodes)]

\* A cycle is found, by an exception, only if it leads through the source.
Cyclic == "source" \in Closure
DepsProved == Closure \ {"source"} \subseteq proved

\* A declaration with the source's name and another text; the clone's own text counts.
Conflict ==
  \/ rival
  \/ \E i \in CloneIds : clone[i].stage \notin {"none", "bare", "claim"} /\ clone[i].text # source.text

\* importTargetMatchesSource.
Matches(i) ==
  /\ clone[i].stage \in {"legacy", "bound", "ready"}
  /\ clone[i].text = source.text /\ clone[i].sameContext

SourceStands(item) == source.verified /\ source.record = item.record /\ source.approved

\* importInvariantFailure finds none.
Sound(item) ==
  /\ SourceStands(item) /\ ~Cyclic /\ DepsProved /\ ~Conflict
  /\ item.target # 0
  /\ Matches(item.target) /\ clone[item.target].verified /\ clone[item.target].approved

\* The first test of applyImport that fails, as the status it writes; "" if none does.
Refusal(item) ==
  CASE ~source.verified -> "FAILED"
    [] source.verified /\ ~SourceStands(item) -> "REVERIFY_REQUIRED"
    [] SourceStands(item) /\ (Cyclic \/ ~DepsProved) -> "FAILED"
    [] SourceStands(item) /\ ~Cyclic /\ DepsProved /\ Conflict -> "CONFLICT"
    [] OTHER -> ""

\* Mutant: every application makes its own claim.
NeedsCloneAlways(item) == item \in Import

\* applyImport makes a claim of its own only for an import that has none.
NeedsClone(item) == item.target = 0

-----------------------------------------------------------------------------
(* An import is proposed, rejected, applied *)

\* Between two awaits of a call nothing else runs.
Quiet == \A c \in Calls : call[c].pc \notin Writing
Attended == \E c \in Calls : call[c].pc # "idle"
At(c, pc) == call[c].pc = pc /\ (pc \in Writing \/ Quiet)
Write(item, status) == [item EXCEPT !.status = status]
Become(c, next) == call' = [call EXCEPT ![c] = next]
Go(c, pc) == Become(c, [call[c] EXCEPT !.pc = pc])

\* A call that overlaps another, or that finds the branch disturbed.
Overlaps == disturbed' = (disturbed \/ Attended)

\* proposeImport: a cycle through the source aborts the transaction.  The record is 0 if the latest
\* run of the source was not accepted: it is then never the current one.
Propose ==
  /\ Quiet /\ imp = NoImport /\ ~Cyclic
  /\ \E r \in {source.record, 0} : imp' = [status |-> "PROPOSED", record |-> r, target |-> 0]
  /\ UNCHANGED <<claims, clone, branch, abandoned, call, moves, history>>

Reject ==
  /\ Quiet /\ imp # NoImport /\ moves < MaxMoves
  /\ imp' = Write(imp, "REJECTED") /\ moves' = moves + 1
  /\ UNCHANGED <<claims, clone, branch, abandoned, call, history>>

\* applyImport up to APPLYING.  An import that is APPLIED is only looked at again.  While the target's
\* worker holds a lease applyImport throws before anything; the steps below hold none: a run that is
\* stepped by itself, or whose lease a timeout has released.
Apply(c) ==
  /\ At(c, "idle") /\ imp # NoImport
  /\ \/ /\ imp.status = "APPLIED" /\ ~Sound(imp)
        /\ ~(SourceStands(imp) /\ Cyclic)                        \* thrown
        /\ imp' = Write(imp, "FAILED")
        /\ UNCHANGED <<call, disturbed>>
     \/ /\ imp.status # "APPLIED" /\ Refusal(imp) # ""
        /\ imp' = Write(imp, Refusal(imp))
        /\ UNCHANGED <<call, disturbed>>
     \/ /\ imp.status # "APPLIED" /\ Refusal(imp) = ""
        /\ imp' = Write(imp, "APPLYING")
        /\ Become(c, [Idle EXCEPT !.pc = "switch", !.item = imp', !.prev = branch])
        /\ Overlaps
  /\ UNCHANGED <<claims, clone, branch, abandoned, moves, chosen, torn, strayed>>

\* switchBranch, inside the try: an abandoned branch throws, and the finally runs.
SwitchToTarget(c) ==
  /\ At(c, "switch")
  /\ IF TargetBranch \in abandoned
     THEN Go(c, "restore") /\ UNCHANGED branch
     ELSE /\ branch' = TargetBranch
          /\ Go(c, IF NeedsClone(call[c].item) THEN "clone" ELSE "check")
  /\ UNCHANGED <<claims, clone, imp, abandoned, moves, history>>

\* createClaim, in the current branch, first the claim.  Here and at every place below that writes,
\* the transaction may instead be refused: WriteThrows.
MakeClone(c) ==
  /\ At(c, "clone")
  /\ \E i \in CloneIds :
       /\ clone[i].stage = "none" /\ \A j \in 1 .. i - 1 : clone[j].stage # "none"
       /\ clone' = [clone EXCEPT ![i].stage = "bare"]
       /\ Become(c, [call[c] EXCEPT !.pc = "revise", !.item.target = i])
  /\ UNCHANGED <<claims, imp, branch, abandoned, moves, history>>

\* createClaim, then the natural revision; the context it resolves may be another than the source's.
CaptureNatural(c) ==
  LET i == call[c].item.target IN
  /\ At(c, "revise")
  /\ \E same \in BOOLEAN : clone' = [clone EXCEPT ![i].stage = "claim", ![i].sameContext = same]
  /\ Go(c, "record")
  /\ UNCHANGED <<claims, imp, branch, abandoned, moves, history>>

\* Mutant: the cloned statement is given no revision.
RecordUnbound(c) ==
  LET i == call[c].item.target IN
  /\ At(c, "record")
  /\ clone' = [clone EXCEPT ![i].stage = "statement", ![i].text = source.text]
  /\ imp' = call[c].item
  /\ Go(c, "check")
  /\ UNCHANGED <<claims, branch, abandoned, moves, history>>

\* One transaction: the statement, without the source's approval, and the import's target.
RecordTarget(c) ==
  LET i == call[c].item.target IN
  /\ At(c, "record")
  /\ clone' = [clone EXCEPT ![i].stage = "statement", ![i].text = source.text]
  /\ imp' = call[c].item
  /\ Go(c, "bind")
  /\ UNCHANGED <<claims, branch, abandoned, moves, history>>

\* authorizeClonedFormal.
BindRevision(c) ==
  /\ At(c, "bind")
  /\ clone' = [clone EXCEPT ![call[c].item.target].stage = "bound"]
  /\ Go(c, "store")
  /\ UNCHANGED <<claims, imp, branch, abandoned, moves, history>>

\* storeAttempt.
StoreProof(c) ==
  /\ At(c, "store")
  /\ clone' = [clone EXCEPT ![call[c].item.target].stage = "ready"]
  /\ Go(c, "check")
  /\ UNCHANGED <<claims, imp, branch, abandoned, moves, history>>

CheckTarget(c) ==
  LET item == call[c].item
      i == item.target
  IN
  /\ At(c, "check")
  /\ \/ /\ ~Matches(i)
        /\ imp' = Write(item, "FAILED") /\ Go(c, "restore")
     \/ /\ Matches(i) /\ ~clone[i].approved
        /\ imp' = Write(item, "REVERIFY_REQUIRED") /\ Go(c, "restore")
     \/ /\ Matches(i) /\ clone[i].approved
        /\ Go(c, "verify") /\ UNCHANGED imp
  /\ UNCHANGED <<claims, clone, branch, abandoned, moves, history>>

\* verify() answers: the gate has promoted the clone, or has not, or has thrown.
Answer(c) ==
  LET i == call[c].item.target IN
  /\ At(c, "verify")
  /\ \/ /\ clone[i].approved /\ clone[i].stage = "ready"
        /\ clone' = [clone EXCEPT ![i].verified = TRUE]
        /\ Become(c, [call[c] EXCEPT !.pc = "finalize", !.passed = TRUE])
     \/ Go(c, "finalize") /\ UNCHANGED clone
     \/ Go(c, "restore") /\ UNCHANGED clone
  /\ UNCHANGED <<claims, imp, branch, abandoned, moves, history>>

\* Mutant: the report of the verification decides alone.
FinalizeOnReport(c) ==
  LET item == call[c].item IN
  /\ At(c, "finalize")
  /\ imp' = Write(item, IF call[c].passed THEN "APPLIED" ELSE "FAILED")
  /\ Go(c, "restore")
  /\ UNCHANGED <<claims, clone, branch, abandoned, moves, history>>

\* One transaction: everything is read again; a cycle made meanwhile aborts it.
Finalize(c) ==
  LET item == call[c].item IN
  /\ At(c, "finalize")
  /\ imp' = IF ~call[c].passed THEN Write(item, "FAILED")
            ELSE IF SourceStands(item) /\ Cyclic THEN imp
            ELSE Write(item, IF Sound(item) THEN "APPLIED" ELSE "FAILED")
  /\ Go(c, "restore")
  /\ UNCHANGED <<claims, clone, branch, abandoned, moves, history>>

\* Mutant: back to the branch the call began in, whatever has become of it.
RestoredAnyway(c) == call[c].prev

\* finally: back to the branch the call began in, unless that has been abandoned (thrown).
Restored(c) == IF call[c].prev \in abandoned THEN branch ELSE call[c].prev

\* Mutant: only an import that has been applied switches back.
RestoreApplied(c) ==
  /\ At(c, "restore")
  /\ branch' = IF imp.status = "APPLIED" THEN Restored(c) ELSE branch
  /\ Become(c, Idle)
  /\ UNCHANGED <<claims, clone, imp, abandoned, moves, history>>

Restore(c) ==
  /\ At(c, "restore")
  /\ branch' = Restored(c)
  /\ Become(c, Idle)
  /\ UNCHANGED <<claims, clone, imp, abandoned, moves, history>>

\* A transaction of applyImport is refused and throws: what was committed before stays, and the
\* finally runs.  If it is the finally's own switch, as in step(), the call ends where it is.  Refused
\* before the try, it changes nothing.
WriteThrows(c) ==
  /\ WritesFail /\ moves < MaxMoves /\ moves' = moves + 1
  /\ \/ /\ \E pc \in (Writing \ {"restore"}) \union {"finalize"} : At(c, pc)
        /\ Go(c, "restore")
        /\ torn' = (torn \/ call[c].pc \in Making)
        /\ UNCHANGED disturbed
     \/ /\ At(c, "restore") \/ At(c, "act")
        /\ branch # call[c].prev
        /\ Become(c, Idle)
        /\ disturbed' = TRUE
        /\ UNCHANGED torn
  /\ UNCHANGED <<claims, clone, imp, branch, abandoned, chosen, strayed>>

-----------------------------------------------------------------------------
(* Research steps of the two workers *)

\* step(): on to the branch of the run; then the planner is awaited.
StepBegin(c, own) ==
  /\ Steps /\ At(c, "idle") /\ own \notin abandoned
  /\ branch' = own
  /\ Become(c, [Idle EXCEPT !.pc = "plan", !.own = own, !.prev = branch])
  /\ Overlaps
  /\ UNCHANGED <<claims, clone, imp, abandoned, moves, chosen, torn, strayed>>

\* The decided action runs; a subclaim is made in whatever branch is current by then.
StepAct(c) ==
  /\ At(c, "plan")
  /\ Go(c, "act")
  /\ strayed' = (strayed \/ branch # call[c].own)
  /\ UNCHANGED <<claims, clone, imp, branch, abandoned, moves, chosen, disturbed, torn>>

StepEnd(c) ==
  /\ At(c, "act")
  /\ branch' = Restored(c)
  /\ Become(c, Idle)
  /\ UNCHANGED <<claims, clone, imp, abandoned, moves, history>>

-----------------------------------------------------------------------------
(* The users and the rest of the program, between the awaits *)

\* The source is verified again, approved, reworded, formalized anew, merged into.
SourceChanges ==
  /\ source' \in Source
  /\ \/ /\ source.approved /\ source.record < MaxRecords
        /\ source' = [source EXCEPT !.verified = TRUE, !.record = @ + 1]
     \/ source' = [source EXCEPT !.approved = ~@]
     \/ source' = [source EXCEPT !.verified = FALSE]
     \/ /\ ~source.verified /\ source.record < MaxRecords
        /\ \E t \in Texts : source' = [source EXCEPT !.approved = FALSE, !.record = @ + 1, !.text = t]
  /\ source' # source
  /\ UNCHANGED <<edges, proved, rival, clone>>

\* A lemma is verified or merged into; a dependency is recorded; a declaration comes or goes.
OthersChange ==
  /\ \/ \E l \in Lemmas : /\ proved' = IF l \in proved THEN proved \ {l} ELSE proved \union {l}
                          /\ UNCHANGED <<edges, rival>>
     \/ \E e \in Nodes \X Nodes : /\ e \notin edges /\ e[1] # e[2] /\ edges' = edges \union {e}
                                  /\ UNCHANGED <<proved, rival>>
     \/ rival' = ~rival /\ UNCHANGED <<edges, proved>>
  /\ UNCHANGED <<source, clone>>

\* A clone that has a statement with its own revision is approved or not, is given a proof, is
\* verified by itself; it is formalized anew unless it is verified, in the context that is current
\* then, or is merged into.
CloneChanges ==
  /\ \E i \in CloneIds :
       \/ /\ clone[i].stage \in {"bound", "ready"}
          /\ clone' = [clone EXCEPT ![i].approved = ~@]
       \/ clone[i].stage = "bound" /\ clone' = [clone EXCEPT ![i].stage = "ready"]
       \/ /\ clone[i].stage = "ready" /\ clone[i].approved
          /\ clone' = [clone EXCEPT ![i].verified = TRUE]
       \/ /\ clone[i].stage # "none" /\ ~clone[i].verified
          /\ \E t \in Texts, same \in BOOLEAN :
               clone' = [clone EXCEPT ![i].stage = "bound", ![i].text = t, ![i].sameContext = same,
                                      ![i].approved = FALSE]
       \/ clone[i].verified /\ clone' = [clone EXCEPT ![i].verified = FALSE]
  /\ UNCHANGED claims

\* switchBranch and abandonBranch, by the user.
UserSwitches ==
  /\ \E b \in Branches \ abandoned : branch' = b /\ chosen' = b
  /\ disturbed' = Attended
  /\ UNCHANGED abandoned

UserAbandons ==
  /\ \E b \in Workers \ abandoned :
       /\ \A c \in Calls : call[c].pc \in {"plan", "act"} => call[c].own # b        \* its run is live
       /\ abandoned' = abandoned \union {b}
       /\ branch' = IF branch = b THEN "MAIN" ELSE branch
       /\ chosen' = IF chosen = b THEN "MAIN" ELSE chosen
  /\ disturbed' = (disturbed \/ Attended)

World ==
  /\ Quiet /\ moves < MaxMoves /\ moves' = moves + 1
  /\ \/ SourceChanges /\ UNCHANGED <<branch, abandoned, chosen, disturbed>>
     \/ OthersChange /\ UNCHANGED <<branch, abandoned, chosen, disturbed>>
     \/ CloneChanges /\ UNCHANGED <<branch, abandoned, chosen, disturbed>>
     \/ UserSwitches /\ UNCHANGED <<claims, clone>>
     \/ UserAbandons /\ UNCHANGED <<claims, clone>>
  /\ UNCHANGED <<imp, call, torn, strayed>>

\* backfillLegacy supplies a revision that is missing, in a context of its own.
Backfilled(k) ==
  CASE k.stage = "bare" -> [k EXCEPT !.stage = "claim", !.sameContext = FALSE]
    [] k.stage = "statement" -> [k EXCEPT !.stage = "legacy"]
    [] OTHER -> k

\* The process is killed, or ends with no call in flight; the workspace is opened again.
Restart ==
  /\ Kills /\ moves < MaxMoves /\ moves' = moves + 1
  /\ call' = [c \in Calls |-> Idle]
  /\ clone' = [i \in CloneIds |-> Backfilled(clone[i])]
  /\ chosen' = branch /\ disturbed' = FALSE
  /\ torn' = (torn \/ \E c \in Calls : call[c].pc \in Making)
  /\ UNCHANGED <<claims, imp, branch, abandoned, strayed>>

Next ==
  \/ Propose \/ Reject \/ World \/ Restart
  \/ \E c \in Calls :
       \/ Apply(c) \/ SwitchToTarget(c) \/ MakeClone(c) \/ CaptureNatural(c) \/ RecordTarget(c)
       \/ BindRevision(c) \/ StoreProof(c) \/ CheckTarget(c) \/ Answer(c) \/ Finalize(c) \/ Restore(c)
       \/ WriteThrows(c)
       \/ (\E own \in Workers : StepBegin(c, own)) \/ StepAct(c) \/ StepEnd(c)

Spec == Init /\ [][Next]_vars

-----------------------------------------------------------------------------
(* Properties *)

\* An import becomes APPLIED only while its source is verified, current and approved, its
\* dependencies are verified, no declaration is in its way, and the target that the row names
\* carries the source's statement, an approval of its own and a verification of its own,
\* whatever the users did while the verification ran (applyImport, importInvariantFailure).
AppliedOnEvidence ==
  [][imp.status # "APPLIED" /\ imp'.status = "APPLIED" =>
       /\ source.verified /\ source.approved /\ source.record = imp.record
       /\ DepsProved /\ ~Cyclic /\ ~Conflict
       /\ imp'.target # 0
       /\ LET t == clone[imp'.target] IN
             t.verified /\ t.approved /\ t.text = source.text /\ t.sameContext]_vars

\* Applying the same import again reuses its target, whatever has happened to it: the target a
\* row names is never replaced or lost, by copies of the row held across an await, by a
\* rejection meanwhile, or by a restart (docs/multi-agent-quality.md).
TargetKept == [][imp.target # 0 => imp'.target = imp.target]_vars

\* Whatever is killed or refused, the target that a row names has a formal statement.  And every
\* claim made for the import is that target and has a statement with a revision of its own, so that
\* it can be approved and verified: half a clone is left behind only when the code between the claim
\* and that revision is cut short, by a kill or a refused transaction; not when anything else is.
NothingHalfDone ==
  /\ imp.target # 0 => clone[imp.target].stage \notin {"none", "bare", "claim"}
  /\ ~torn /\ ~Attended =>
       \A i \in CloneIds : clone[i].stage # "none" => i = imp.target /\ clone[i].stage \in {"bound", "ready"}

\* Calls that did not overlap leave the user in the branch the user had chosen, however they
\* ended (the finally of applyImport and of step); unless that one was abandoned meanwhile, or the
\* finally's own switch was refused.
BranchRestored == ~Attended /\ ~disturbed => branch = chosen

\* What a worker makes is made in the worker's branch.
WorkersIsolated == ~strayed

=============================================================================
