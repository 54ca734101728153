------------------------- MODULE ArtifactImportProofs -------------------------
(***************************************************************************)
(* Theorems about ArtifactImport, for any number of calls, of lemmas, of   *)
(* statements and of clones, with steps, kills and refusals or without.    *)
(***************************************************************************)
EXTENDS ArtifactImport, TLAPS

-----------------------------------------------------------------------------
(* Types *)

LEMMA Bounds == MaxRecords \in Nat \ {0} /\ MaxClones \in Nat \ {0} /\ MaxMoves \in Nat
BY ConstantsAssumption

LEMMA ImportRows ==
  /\ NoImport \in Import
  /\ Idle \in Call /\ Idle.pc = "idle" /\ Idle.prev = "MAIN"
  /\ \A item \in Import, s \in {"FAILED", "REVERIFY_REQUIRED", "CONFLICT", "REJECTED", "APPLYING", "APPLIED"} :
       Write(item, s) \in Import /\ Write(item, s).target = item.target /\ Write(item, s).record = item.record
                                 /\ Write(item, s).status = s
<1>1. NoImport \in Import
  BY ConstantsAssumption DEF NoImport, Import
<1>2. Idle \in Call /\ Idle.pc = "idle" /\ Idle.prev = "MAIN"
  BY <1>1 DEF Idle, Call, Branches, Workers
<1>3. ASSUME NEW item \in Import,
             NEW s \in {"FAILED", "REVERIFY_REQUIRED", "CONFLICT", "REJECTED", "APPLYING", "APPLIED"}
      PROVE  Write(item, s) \in Import /\ Write(item, s).target = item.target /\ Write(item, s).record = item.record
                                       /\ Write(item, s).status = s
  BY <1>3 DEF Write, Import, Refusals
<1>4. QED
  BY <1>1, <1>2, <1>3

\* A refusal is one of the three statuses.
LEMMA RefusalIsStatus == ASSUME NEW item PROVE Refusal(item) \in Refusals \union {""}
BY DEF Refusal, Refusals

\* Every action keeps the types, which includes that the current branch is not an abandoned one.
LEMMA NextTypes == TypeOK /\ [Next]_vars => TypeOK'
<1> SUFFICES ASSUME TypeOK, [Next]_vars PROVE TypeOK'
  OBVIOUS
<1> USE ConstantsAssumption DEF TypeOK
<1> USE DEF claims, history, Become
<1>1. CASE Propose
  <2>1. imp' \in Import
    BY <1>1 DEF Propose, Import, Source
  <2>2. QED
    BY <1>1, <2>1 DEF Propose
<1>2. CASE Reject
  BY <1>2, ImportRows DEF Reject
<1>3. CASE World
  <2> SUFFICES ASSUME World PROVE TypeOK'
    BY <1>3
  <2> USE DEF World
  <2>0. moves' \in 0 .. MaxMoves
    OBVIOUS
  <2>1. CASE SourceChanges /\ UNCHANGED <<branch, abandoned, chosen, disturbed>>
    BY <2>0, <2>1 DEF SourceChanges
  <2>2. CASE OthersChange /\ UNCHANGED <<branch, abandoned, chosen, disturbed>>
    <3>1. edges' \subseteq Nodes \X Nodes /\ proved' \subseteq Lemmas /\ rival' \in BOOLEAN
      BY <2>2 DEF OthersChange
    <3>2. QED
      BY <2>0, <2>2, <3>1 DEF OthersChange
  <2>3. CASE CloneChanges /\ UNCHANGED <<branch, abandoned, chosen, disturbed>>
    <3>1. PICK i \in CloneIds :
            \/ clone' = [clone EXCEPT ![i].approved = ~@]
            \/ clone' = [clone EXCEPT ![i].stage = "ready"]
            \/ clone' = [clone EXCEPT ![i].verified = TRUE]
            \/ \E t \in Texts, same \in BOOLEAN :
                 clone' = [clone EXCEPT ![i].stage = "bound", ![i].text = t, ![i].sameContext = same,
                                        ![i].approved = FALSE]
            \/ clone' = [clone EXCEPT ![i].verified = FALSE]
      BY <2>3 DEF CloneChanges
    <3>2. clone[i] \in Clone /\ (~clone[i].approved) \in BOOLEAN
      BY DEF Clone
    <3>3. clone'[i] \in Clone
      <4>1. \/ clone'[i] \in
                  {[clone[i] EXCEPT !.approved = ~@], [clone[i] EXCEPT !.stage = "ready"],
                   [clone[i] EXCEPT !.verified = TRUE], [clone[i] EXCEPT !.verified = FALSE]}
            \/ \E t \in Texts, same \in BOOLEAN :
                 clone'[i] = [clone[i] EXCEPT !.stage = "bound", !.text = t, !.sameContext = same, !.approved = FALSE]
        BY <3>1
      <4>2. [clone[i] EXCEPT !.approved = ~@] \in Clone
        BY <3>2, Zenon DEF Clone
      <4>3. /\ [clone[i] EXCEPT !.stage = "ready"] \in Clone
            /\ [clone[i] EXCEPT !.verified = TRUE] \in Clone
            /\ [clone[i] EXCEPT !.verified = FALSE] \in Clone
            /\ \A t \in Texts, same \in BOOLEAN :
                 [clone[i] EXCEPT !.stage = "bound", !.text = t, !.sameContext = same, !.approved = FALSE] \in Clone
        BY <3>2 DEF Clone, Stages
      <4>4. CASE clone'[i] \in
                   {[clone[i] EXCEPT !.approved = ~@], [clone[i] EXCEPT !.stage = "ready"],
                    [clone[i] EXCEPT !.verified = TRUE], [clone[i] EXCEPT !.verified = FALSE]}
        BY <4>2, <4>3, <4>4, Zenon
      <4>5. ASSUME NEW t \in Texts, NEW same \in BOOLEAN,
                   clone'[i] = [clone[i] EXCEPT !.stage = "bound", !.text = t, !.sameContext = same, !.approved = FALSE]
            PROVE  clone'[i] \in Clone
        <5>1. [clone[i] EXCEPT !.stage = "bound", !.text = t, !.sameContext = same, !.approved = FALSE] \in Clone
          BY <4>3
        <5>2. QED
          BY <4>5, <5>1, Zenon
      <4>6. QED
        BY <4>1, <4>4, <4>5, Zenon
    <3>4. clone' = [clone EXCEPT ![i] = clone'[i]]
      BY <3>1
    <3>5. clone' \in [CloneIds -> Clone]
      BY <3>3, <3>4
    <3>6. QED
      BY <2>0, <2>3, <3>5 DEF CloneChanges
  <2>4. CASE UserSwitches /\ UNCHANGED <<claims, clone>>
    <3>1. disturbed' \in BOOLEAN
      BY <2>4 DEF UserSwitches, Attended
    <3>2. QED
      BY <2>0, <2>4, <3>1 DEF UserSwitches
  <2>5. CASE UserAbandons /\ UNCHANGED <<claims, clone>>
    BY <2>0, <2>5 DEF UserAbandons, Attended, Branches, Workers, SourceBranch, TargetBranch
  <2>6. QED
    BY <2>1, <2>2, <2>3, <2>4, <2>5
<1>4. CASE Restart
  <2>1. clone' \in [CloneIds -> Clone]
    BY <1>4 DEF Restart, Backfilled, Clone, Stages
  <2>2. call' \in [Calls -> Call]
    BY <1>4, ImportRows DEF Restart
  <2>3. torn' \in BOOLEAN /\ moves' \in 0 .. MaxMoves
    BY <1>4 DEF Restart
  <2>4. QED
    BY <1>4, <2>1, <2>2, <2>3 DEF Restart
<1>5. ASSUME NEW c \in Calls, Apply(c) PROVE TypeOK'
  <2>1. imp' \in Import
    <3>1. imp' = Write(imp, "FAILED") \/ imp' = Write(imp, Refusal(imp)) \/ imp' = Write(imp, "APPLYING")
      BY <1>5 DEF Apply
    <3>2. CASE imp' = Write(imp, Refusal(imp)) /\ Refusal(imp) # ""
      <4>1. Refusal(imp) \in {"FAILED", "REVERIFY_REQUIRED", "CONFLICT"}
        BY <3>2, RefusalIsStatus DEF Refusals
      <4>2. imp \in Import
        OBVIOUS
      <4>3. Write(imp, Refusal(imp)) \in Import
        BY <4>1, <4>2, ImportRows
      <4> QED BY <3>2, <4>3
    <3>3. QED
      BY <1>5, <3>1, <3>2, ImportRows DEF Apply
  <2>2. CASE UNCHANGED <<call, disturbed>>
    BY <1>5, <2>1, <2>2 DEF Apply
  <2>3. CASE Become(c, [Idle EXCEPT !.pc = "switch", !.item = imp', !.prev = branch]) /\ Overlaps
    <3>1. call' \in [Calls -> Call]
      BY <2>1, <2>3, ImportRows DEF Call, Writing, Making
    <3>2. QED
      BY <1>5, <2>1, <2>3, <3>1 DEF Apply, Overlaps, Attended
  <2>4. QED
    BY <1>5, <2>2, <2>3 DEF Apply
<1>6. ASSUME NEW c \in Calls, NEW pc \in Writing \union {"verify", "finalize", "act"}, Go(c, pc)
      PROVE  call' \in [Calls -> Call]
  BY <1>6 DEF Go, Call
<1>7. ASSUME NEW c \in Calls, SwitchToTarget(c) PROVE TypeOK'
  <2>1. call' \in [Calls -> Call]
    BY <1>6, <1>7 DEF SwitchToTarget, Writing, Making
  <2>2. QED
    BY <1>7, <2>1 DEF SwitchToTarget, Branches, Workers
<1>8. ASSUME NEW c \in Calls, MakeClone(c) PROVE TypeOK'
  <2>1. PICK i \in CloneIds :
          /\ clone' = [clone EXCEPT ![i].stage = "bare"]
          /\ Become(c, [call[c] EXCEPT !.pc = "revise", !.item.target = i])
    BY <1>8 DEF MakeClone
  <2>2. clone' \in [CloneIds -> Clone]
    BY <2>1 DEF Clone, Stages
  <2>3. [call[c] EXCEPT !.pc = "revise", !.item.target = i] \in Call
    <3>1. i \in 0 .. MaxClones
      BY Bounds DEF CloneIds
    <3>2. call[c] \in Call /\ call[c].item \in Import
      BY DEF Call
    <3>3. [call[c].item EXCEPT !.target = i] \in Import
      BY <3>1, <3>2 DEF Import
    <3>4. QED
      BY <3>2, <3>3 DEF Call, Writing, Making
  <2>4. QED
    BY <1>8, <2>1, <2>2, <2>3 DEF MakeClone
<1>8a. ASSUME NEW c \in Calls, CaptureNatural(c) PROVE TypeOK'
  <2>1. clone' \in [CloneIds -> Clone]
    <3>1. PICK same \in BOOLEAN :
            clone' = [clone EXCEPT ![call[c].item.target].stage = "claim", ![call[c].item.target].sameContext = same]
      BY <1>8a DEF CaptureNatural
    <3> DEFINE Claimed(k) == [k EXCEPT !.stage = "claim", !.sameContext = same]
    <3>2. \A k \in Clone : Claimed(k) \in Clone
      BY DEF Clone, Stages
    <3>3. clone' = [j \in CloneIds |-> IF j = call[c].item.target THEN Claimed(clone[j]) ELSE clone[j]]
      BY <3>1
    <3> HIDE DEF Claimed
    <3>4. QED
      BY <3>2, <3>3
  <2>2. call' \in [Calls -> Call]
    BY <1>6, <1>8a DEF CaptureNatural, Writing, Making
  <2>3. QED
    BY <1>8a, <2>1, <2>2 DEF CaptureNatural
<1>9. ASSUME NEW c \in Calls, RecordTarget(c) PROVE TypeOK'
  <2>1. clone' \in [CloneIds -> Clone]
    <3>1. source.text \in Texts
      BY DEF Source
    <3>2. QED
      BY <1>9, <3>1 DEF RecordTarget, Clone, Stages
  <2>2. imp' \in Import
    BY <1>9 DEF RecordTarget, Call
  <2>3. call' \in [Calls -> Call]
    BY <1>6, <1>9 DEF RecordTarget, Writing, Making
  <2>4. QED
    BY <1>9, <2>1, <2>2, <2>3 DEF RecordTarget
<1>10. ASSUME NEW c \in Calls, BindRevision(c) \/ StoreProof(c) PROVE TypeOK'
  <2>1. clone' \in [CloneIds -> Clone]
    BY <1>10 DEF BindRevision, StoreProof, Clone, Stages
  <2>2. call' \in [Calls -> Call]
    BY <1>6, <1>10 DEF BindRevision, StoreProof, Writing, Making
  <2>3. QED
    BY <1>10, <2>1, <2>2 DEF BindRevision, StoreProof
<1>11. ASSUME NEW c \in Calls, CheckTarget(c) PROVE TypeOK'
  <2>1. imp' \in Import
    BY <1>11, ImportRows DEF CheckTarget, Call
  <2>2. call' \in [Calls -> Call]
    BY <1>6, <1>11 DEF CheckTarget, Writing, Making
  <2>3. QED
    BY <1>11, <2>1, <2>2 DEF CheckTarget
<1>12. ASSUME NEW c \in Calls, Answer(c) PROVE TypeOK'
  <2>1. clone' \in [CloneIds -> Clone]
    <3>1. clone' = clone \/ clone' = [clone EXCEPT ![call[c].item.target].verified = TRUE]
      BY <1>12 DEF Answer
    <3>2. QED
      BY <3>1 DEF Clone
  <2>2. [call[c] EXCEPT !.pc = "finalize", !.passed = TRUE] \in Call
    BY DEF Call
  <2>3. call' \in [Calls -> Call]
    BY <1>6, <1>12, <2>2 DEF Answer, Writing, Making
  <2>4. QED
    BY <1>12, <2>1, <2>3 DEF Answer
<1>13. ASSUME NEW c \in Calls, Finalize(c) PROVE TypeOK'
  <2>1. imp' \in Import
    BY <1>13, ImportRows DEF Finalize, Call
  <2>2. call' \in [Calls -> Call]
    BY <1>6, <1>13 DEF Finalize, Writing, Making
  <2>3. QED
    BY <1>13, <2>1, <2>2 DEF Finalize
<1>14. ASSUME NEW c \in Calls, Restore(c) \/ StepEnd(c) PROVE TypeOK'
  BY <1>14, ImportRows DEF Restore, StepEnd, Restored, Call
<1>15. ASSUME NEW c \in Calls, NEW own \in Workers, StepBegin(c, own) PROVE TypeOK'
  <2>1. [Idle EXCEPT !.pc = "plan", !.own = own, !.prev = branch] \in Call
    BY ImportRows DEF Call, Branches
  <2>2. QED
    BY <1>15, <2>1 DEF StepBegin, Overlaps, Attended, Branches
<1>16. ASSUME NEW c \in Calls, StepAct(c) PROVE TypeOK'
  BY <1>6, <1>16 DEF StepAct
<1>17. ASSUME NEW c \in Calls, WriteThrows(c) PROVE TypeOK'
  <2>1. call' \in [Calls -> Call]
    BY <1>6, <1>17, ImportRows DEF WriteThrows, Writing, Making
  <2>2. disturbed' \in BOOLEAN /\ torn' \in BOOLEAN /\ moves' \in 0 .. MaxMoves
    <3>1. torn' \in BOOLEAN
      BY <1>17, Zenon DEF WriteThrows
    <3>2. disturbed' \in BOOLEAN
      BY <1>17, Zenon DEF WriteThrows
    <3>3. moves' \in 0 .. MaxMoves
      BY <1>17 DEF WriteThrows
    <3>4. QED
      BY <3>1, <3>2, <3>3
  <2>3. QED
    BY <1>17, <2>1, <2>2 DEF WriteThrows
<1>18. CASE UNCHANGED vars
  BY <1>18 DEF vars
<1>19. QED
  BY <1>1, <1>2, <1>3, <1>4, <1>5, <1>7, <1>8, <1>8a, <1>9, <1>10, <1>11, <1>12, <1>13, <1>14, <1>15, <1>16,
     <1>17, <1>18 DEF Next

\* Rows and calls keep their types, and the workspace never ends in an abandoned branch.
THEOREM TypeCorrect == Spec => []TypeOK
<1>1. Init => TypeOK
  <2> SUFFICES ASSUME Init PROVE TypeOK
    OBVIOUS
  <2>1. source \in Source
    <3>1. source \in [verified : {TRUE}, approved : {TRUE}, record : {1}, text : Texts]
      BY DEF Init
    <3>2. 1 \in 1 .. MaxRecords
      BY Bounds
    <3>3. QED
      BY <3>1, <3>2 DEF Source
  <2> USE ConstantsAssumption DEF Init
  <2>2. clone \in [CloneIds -> Clone]
    BY <2>1 DEF NoClone, Clone, Stages, Source
  <2>3. edges \subseteq Nodes \X Nodes
    BY DEF Nodes
  <2>4. imp \in Import /\ call \in [Calls -> Call]
    BY ImportRows
  <2>5. moves \in 0 .. MaxMoves
    BY Bounds
  <2>6. branch \in Branches /\ abandoned \subseteq Workers /\ branch \notin abandoned /\ chosen \in Branches
    BY DEF Branches
  <2>7. QED
    BY <2>1, <2>2, <2>3, <2>4, <2>5, <2>6 DEF TypeOK
<1>2. QED
  BY <1>1, NextTypes, PTL DEF Spec

-----------------------------------------------------------------------------
(* A call that writes is alone, and its copy of the row names the row's target *)

Targeted == {"bind", "store", "check", "verify", "finalize"}
Applying == Targeted \union {"switch", "clone", "revise", "record"}

Alone == \A c, d \in Calls : call[c].pc \in Writing /\ call[d].pc \in Writing => c = d

CopyAgrees(k) ==
  /\ k.pc \in Applying => k.item.status = "APPLYING" /\ k.item.record = imp.record
  /\ k.pc = "switch" => k.item.target = imp.target
  /\ k.pc \in {"clone", "revise", "record"} => imp.target = 0
  /\ k.pc \in {"revise", "record"} => k.item.target \in CloneIds
  /\ k.pc \in Targeted => k.item.target = imp.target /\ imp.target # 0

Agreed == Alone /\ \A c \in Calls : CopyAgrees(call[c])

\* What a step does to the row: its record stays, its target is never replaced.
RowKept == imp # NoImport => imp'.record = imp.record /\ (imp.target # 0 => imp'.target = imp.target)

\* A step of one call that leaves record and target of the row as they are.
LEMMA CallAgrees ==
  ASSUME TypeOK, Agreed, NEW c \in Calls, NEW k, Become(c, k),
         imp'.record = imp.record, imp'.target = imp.target,
         k.pc \in Writing => (call[c].pc \in Writing \/ Quiet), CopyAgrees(k)
  PROVE  Agreed'
<1>1. \A d \in Calls : call'[d] = IF d = c THEN k ELSE call[d]
  BY DEF TypeOK, Become
<1>2. Alone'
  BY <1>1 DEF Agreed, Alone, Quiet
<1>3. \A d \in Calls : CopyAgrees(call[d])'
  BY <1>1 DEF Agreed, CopyAgrees
<1>4. QED
  BY <1>2, <1>3 DEF Agreed

\* No step replaces the target or the record, and the copies go on agreeing.
LEMMA NextAgrees == TypeOK /\ Agreed /\ [Next]_vars => Agreed' /\ RowKept
<1> SUFFICES ASSUME TypeOK, Agreed, [Next]_vars PROVE Agreed' /\ RowKept
  OBVIOUS
<1> USE DEF claims, history
<1>0. imp \in Import /\ call \in [Calls -> Call]
  BY DEF TypeOK
<1>1. CASE UNCHANGED <<imp, call>>
  BY <1>1 DEF Agreed, Alone, CopyAgrees, RowKept
<1>2. CASE Propose
  <2>1. UNCHANGED call /\ imp = NoImport /\ imp'.target = 0 /\ Quiet
    BY <1>2 DEF Propose
  <2>2. \A d \in Calls : call[d].pc \notin Applying
    <3>1. \A d \in Calls : call[d].pc \in Targeted => imp.target # 0
      BY DEF Agreed, CopyAgrees
    <3>2. QED
      BY <2>1, <3>1 DEF Quiet, Applying, Targeted, Writing, Making, NoImport
  <2>3. QED
    BY <2>1, <2>2 DEF Agreed, Alone, CopyAgrees, Applying, Targeted, RowKept
<1>3. CASE Reject
  BY <1>0, <1>3, ImportRows DEF Reject, Agreed, Alone, CopyAgrees, RowKept
<1>4. CASE World
  BY <1>1, <1>4 DEF World
<1>5. CASE Restart
  <2>1. \A d \in Calls : call'[d].pc = "idle"
    BY <1>5, ImportRows DEF Restart
  <2>2. QED
    BY <1>5, <2>1 DEF Restart, Agreed, Alone, CopyAgrees, Applying, Targeted, Writing, Making, RowKept
<1>6. ASSUME NEW c \in Calls, Apply(c) PROVE Agreed' /\ RowKept
  <2>1. imp'.record = imp.record /\ imp'.target = imp.target
    <3>1. imp' = Write(imp, "FAILED") \/ imp' = Write(imp, Refusal(imp)) \/ imp' = Write(imp, "APPLYING")
      BY <1>6 DEF Apply
    <3>2. QED
      BY <1>0, <3>1 DEF Write, Import
  <2>2. CASE UNCHANGED call
    BY <2>1, <2>2 DEF Agreed, Alone, CopyAgrees, RowKept
  <2>3. CASE /\ imp' = Write(imp, "APPLYING")
             /\ Become(c, [Idle EXCEPT !.pc = "switch", !.item = imp', !.prev = branch])
    <3> DEFINE k == [Idle EXCEPT !.pc = "switch", !.item = imp', !.prev = branch]
    <3>1. k.pc = "switch" /\ k.item = imp' /\ imp'.status = "APPLYING"
      BY <1>0, <2>3, ImportRows DEF Idle
    <3>2. CopyAgrees(k)
      BY <2>1, <3>1 DEF CopyAgrees, Targeted
    <3>3. Quiet
      BY <1>6 DEF Apply, At, Writing, Making
    <3>4. QED
      BY <2>1, <2>3, <3>2, <3>3, CallAgrees DEF RowKept
  <2>4. QED
    BY <1>6, <2>2, <2>3 DEF Apply
<1>7. ASSUME NEW c \in Calls, UNCHANGED imp,
             NEW pc \in {"restore", "record", "store", "check", "verify", "finalize", "clone", "act"}, Go(c, pc),
             call[c].pc \in Writing \/ pc \notin Writing \/ Quiet,
             CopyAgrees([call[c] EXCEPT !.pc = pc])
      PROVE  Agreed' /\ RowKept
  <2>1. call[c] \in Call /\ [call[c] EXCEPT !.pc = pc].pc = pc
    BY <1>0 DEF Call
  <2>2. QED
    BY <1>7, <2>1, CallAgrees DEF Go, RowKept
<1>8. ASSUME NEW c \in Calls, SwitchToTarget(c) PROVE Agreed' /\ RowKept
  <2>1. call[c].pc = "switch" /\ call[c].pc \in Writing /\ CopyAgrees(call[c]) /\ UNCHANGED imp
    BY <1>8 DEF SwitchToTarget, At, Writing, Making, Agreed
  <2>2. CASE Go(c, "restore")
    BY <1>0, <1>7, <2>1, <2>2 DEF CopyAgrees, Applying, Targeted, Call
  <2>3. CASE NeedsClone(call[c].item) /\ Go(c, "clone")
    BY <1>0, <1>7, <2>1, <2>3 DEF CopyAgrees, Applying, Targeted, Call, NeedsClone
  <2>4. CASE ~NeedsClone(call[c].item) /\ Go(c, "check")
    BY <1>0, <1>7, <2>1, <2>4 DEF CopyAgrees, Applying, Targeted, Call, NeedsClone
  <2>5. QED
    BY <1>8, <2>2, <2>3, <2>4 DEF SwitchToTarget
<1>9. ASSUME NEW c \in Calls, MakeClone(c) PROVE Agreed' /\ RowKept
  <2>1. PICK i \in CloneIds : Become(c, [call[c] EXCEPT !.pc = "revise", !.item.target = i])
    BY <1>9 DEF MakeClone
  <2> DEFINE k == [call[c] EXCEPT !.pc = "revise", !.item.target = i]
  <2>2. call[c].pc = "clone" /\ call[c].pc \in Writing /\ CopyAgrees(call[c]) /\ UNCHANGED imp
    BY <1>9 DEF MakeClone, At, Writing, Making, Agreed
  <2>3. /\ k.pc = "revise" /\ k.item.status = call[c].item.status
        /\ k.item.record = call[c].item.record /\ k.item.target = i
    <3>1. call[c] \in Call /\ call[c].item \in Import
      BY <1>0 DEF Call
    <3>2. QED
      BY <3>1 DEF Call, Import
  <2>4. CopyAgrees(k)
    BY <2>2, <2>3 DEF CopyAgrees, Applying, Targeted
  <2>5. QED
    BY <2>1, <2>2, <2>4, CallAgrees DEF RowKept
<1>9a. ASSUME NEW c \in Calls, CaptureNatural(c) PROVE Agreed' /\ RowKept
  <2>1. call[c].pc = "revise" /\ call[c].pc \in Writing /\ CopyAgrees(call[c]) /\ UNCHANGED imp /\ Go(c, "record")
    BY <1>9a DEF CaptureNatural, At, Writing, Making, Agreed
  <2>2. QED
    BY <1>0, <1>7, <2>1 DEF CopyAgrees, Applying, Targeted, Call
<1>10. ASSUME NEW c \in Calls, RecordTarget(c) PROVE Agreed' /\ RowKept
  <2>1. /\ call[c].pc = "record" /\ call[c].pc \in Writing /\ CopyAgrees(call[c])
        /\ imp' = call[c].item /\ Go(c, "bind")
    BY <1>10 DEF RecordTarget, At, Writing, Making, Agreed
  <2>2. RowKept /\ imp'.record = imp.record /\ imp'.target # 0 /\ imp.target = 0
    BY <1>10, <2>1 DEF CopyAgrees, RowKept, Applying, CloneIds
  <2>3. call'[c].pc = "bind" /\ call'[c].item = call[c].item /\ \A d \in Calls \ {c} : call'[d] = call[d]
    BY <1>0, <2>1 DEF Go, Become, Call
  <2>4. \A d \in Calls \ {c} : call[d].pc \notin Applying
    <3>1. \A d \in Calls \ {c} : call[d].pc \notin Writing
      BY <2>1 DEF Agreed, Alone
    <3>2. \A d \in Calls : call[d].pc \notin Targeted
      BY <2>2 DEF Agreed, CopyAgrees
    <3>3. QED
      BY <3>1, <3>2 DEF Applying, Targeted, Writing, Making
  <2>5. CopyAgrees(call[c])'
    BY <2>1, <2>2, <2>3 DEF CopyAgrees, Applying, Targeted
  <2>6. \A d \in Calls : CopyAgrees(call[d])'
    BY <2>3, <2>4, <2>5 DEF CopyAgrees, Applying, Targeted
  <2>7. Alone'
    BY <2>1, <2>3 DEF Agreed, Alone
  <2>8. QED
    BY <2>2, <2>6, <2>7 DEF Agreed
<1>11. ASSUME NEW c \in Calls, BindRevision(c) \/ StoreProof(c) PROVE Agreed' /\ RowKept
  BY <1>0, <1>7, <1>11 DEF BindRevision, StoreProof, At, Writing, Making, Agreed, CopyAgrees, Applying,
     Targeted, Call
<1>12. ASSUME NEW c \in Calls, NEW s \in {"FAILED", "REVERIFY_REQUIRED", "APPLIED"},
              imp' = Write(call[c].item, s), call[c].pc \in {"check", "finalize"}, Go(c, "restore"),
              call[c].pc \in Writing \/ Quiet
       PROVE  Agreed' /\ RowKept
  <2>1. call[c] \in Call /\ call[c].item \in Import /\ CopyAgrees(call[c])
    BY <1>0 DEF Call, Agreed
  <2>2. imp'.record = imp.record /\ imp'.target = imp.target
    BY <1>12, <2>1, ImportRows DEF CopyAgrees, Applying, Targeted
  <2>3. [call[c] EXCEPT !.pc = "restore"].pc = "restore"
    BY <2>1 DEF Call
  <2>4. QED
    BY <1>12, <2>2, <2>3, CallAgrees DEF Go, RowKept, CopyAgrees, Applying, Targeted
<1>13. ASSUME NEW c \in Calls, CheckTarget(c) PROVE Agreed' /\ RowKept
  <2>1. CASE Go(c, "verify") /\ UNCHANGED imp
    BY <1>0, <1>7, <1>13, <2>1 DEF CheckTarget, At, Writing, Making, Agreed, CopyAgrees, Applying, Targeted, Call
  <2>2. QED
    BY <1>12, <1>13, <2>1 DEF CheckTarget, At
<1>14. ASSUME NEW c \in Calls, Answer(c) PROVE Agreed' /\ RowKept
  <2>1. call[c].pc = "verify" /\ Quiet /\ CopyAgrees(call[c]) /\ UNCHANGED imp
    BY <1>14 DEF Answer, At, Writing, Making, Agreed
  <2>2. CASE Go(c, "finalize") \/ Go(c, "restore")
    BY <1>0, <1>7, <2>1, <2>2 DEF CopyAgrees, Applying, Targeted, Call, Writing, Making
  <2>3. CASE Become(c, [call[c] EXCEPT !.pc = "finalize", !.passed = TRUE])
    <3> DEFINE k == [call[c] EXCEPT !.pc = "finalize", !.passed = TRUE]
    <3>1. k.pc = "finalize" /\ k.item = call[c].item
      BY <1>0 DEF Call
    <3>2. QED
      BY <2>1, <2>3, <3>1, CallAgrees DEF RowKept, CopyAgrees, Applying, Targeted, Writing, Making
  <2>4. QED
    BY <1>14, <2>2, <2>3 DEF Answer
<1>15. ASSUME NEW c \in Calls, Finalize(c) PROVE Agreed' /\ RowKept
  <2>1. call[c].pc = "finalize" /\ Quiet /\ Go(c, "restore")
    BY <1>15 DEF Finalize, At, Writing, Making
  <2>2. CASE UNCHANGED imp
    BY <1>0, <1>7, <2>1, <2>2 DEF CopyAgrees, Applying, Targeted, Call
  <2>3. QED
    BY <1>12, <1>15, <2>1, <2>2 DEF Finalize
<1>16. ASSUME NEW c \in Calls, NEW k, Become(c, k), k.pc \in {"idle", "plan", "act"}, UNCHANGED imp
       PROVE  Agreed' /\ RowKept
  BY <1>16, CallAgrees DEF RowKept, CopyAgrees, Applying, Targeted, Writing, Making
<1>17. ASSUME NEW c \in Calls, Restore(c) \/ StepEnd(c) PROVE Agreed' /\ RowKept
  BY <1>16, <1>17, ImportRows DEF Restore, StepEnd
<1>18. ASSUME NEW c \in Calls, NEW own \in Workers, StepBegin(c, own) PROVE Agreed' /\ RowKept
  BY <1>16, <1>18 DEF StepBegin, Idle
<1>19. ASSUME NEW c \in Calls, StepAct(c) PROVE Agreed' /\ RowKept
  BY <1>0, <1>16, <1>19 DEF StepAct, Go, Call
<1>20. ASSUME NEW c \in Calls, WriteThrows(c) PROVE Agreed' /\ RowKept
  <2>1. UNCHANGED imp /\ (call[c].pc \in Writing \/ Quiet)
    BY <1>20 DEF WriteThrows, At
  <2>2. CASE Go(c, "restore")
    BY <1>0, <1>7, <2>1, <2>2 DEF CopyAgrees, Applying, Targeted, Call
  <2>3. CASE Become(c, Idle)
    BY <1>16, <2>1, <2>3, ImportRows
  <2>4. QED
    BY <1>20, <2>2, <2>3 DEF WriteThrows
<1>21. QED
  BY <1>1, <1>2, <1>3, <1>4, <1>5, <1>6, <1>8, <1>9, <1>9a, <1>10, <1>11, <1>13, <1>14, <1>15, <1>17, <1>18,
     <1>19, <1>20 DEF Next, vars

LEMMA InitAgrees == Init => Agreed
BY DEF Init, Agreed, Alone, CopyAgrees, Idle, Applying, Targeted, Writing, Making

\* Applying an import again reuses its target: whatever calls overlap and whatever is killed, the
\* target that a row names is never replaced or lost.
THEOREM TargetIsReused == Spec => TargetKept
<1>1. TypeOK /\ Agreed /\ [Next]_vars => [imp.target # 0 => imp'.target = imp.target]_vars
  BY NextAgrees DEF RowKept, NoImport
<1>2. QED
  BY <1>1, InitAgrees, NextAgrees, TypeCorrect, PTL DEF Spec, TargetKept

\* An import is APPLIED only by a transaction that has found all its evidence in place.
LEMMA AppliedSound ==
  ASSUME TypeOK, Agreed, Next, imp.status # "APPLIED", imp'.status = "APPLIED"
  PROVE  \E c \in Calls : /\ Sound(call[c].item) /\ call[c].item.record = imp.record
                          /\ imp'.target = call[c].item.target
<1> USE DEF claims, history
<1>0. imp \in Import /\ call \in [Calls -> Call]
  BY DEF TypeOK
<1>1. ~Propose /\ ~Reject /\ ~World /\ ~Restart
  BY <1>0, ImportRows DEF Propose, Reject, World, Restart
<1>2. ASSUME NEW c \in Calls, Apply(c) PROVE FALSE
  <2>1. \/ imp' = Write(imp, "FAILED") \/ imp' = Write(imp, "APPLYING")
        \/ imp' = Write(imp, Refusal(imp)) /\ Refusal(imp) # ""
    BY <1>2 DEF Apply
  <2>2. Refusal(imp) # "" => Refusal(imp) \in {"FAILED", "REVERIFY_REQUIRED", "CONFLICT"}
    BY RefusalIsStatus DEF Refusals
  <2>3. \A st \in {"FAILED", "REVERIFY_REQUIRED", "CONFLICT", "APPLYING"} : Write(imp, st).status # "APPLIED"
    BY <1>0, ImportRows
  <2>4. QED
    BY <2>1, <2>2, <2>3
<1>3. ASSUME NEW c \in Calls, RecordTarget(c) PROVE FALSE
  BY <1>3 DEF RecordTarget, At, Agreed, CopyAgrees, Applying
<1>4. ASSUME NEW c \in Calls, CheckTarget(c) PROVE FALSE
  BY <1>0, <1>4, ImportRows DEF CheckTarget, Call
<1>5. ASSUME NEW c \in Calls, Finalize(c)
      PROVE  /\ Sound(call[c].item) /\ call[c].item.record = imp.record
             /\ imp'.target = call[c].item.target
  <2>1. call[c].pc = "finalize" /\ call[c].item \in Import /\ CopyAgrees(call[c])
    BY <1>0, <1>5 DEF Finalize, At, Agreed, Call
  <2>2. Write(call[c].item, "FAILED").status = "FAILED"
    BY <2>1, ImportRows
  <2>3. Sound(call[c].item) /\ imp' = Write(call[c].item, "APPLIED")
    BY <1>5, <2>2 DEF Finalize
  <2>4. QED
    BY <2>1, <2>3, ImportRows DEF CopyAgrees, Applying, Targeted
<1>6. ASSUME NEW c \in Calls,
             \/ SwitchToTarget(c) \/ MakeClone(c) \/ CaptureNatural(c) \/ BindRevision(c) \/ StoreProof(c)
             \/ Answer(c) \/ Restore(c) \/ WriteThrows(c)
             \/ (\E own \in Workers : StepBegin(c, own)) \/ StepAct(c) \/ StepEnd(c)
      PROVE  FALSE
  BY <1>6 DEF SwitchToTarget, MakeClone, CaptureNatural, BindRevision, StoreProof, Answer, Restore, WriteThrows,
              StepBegin, StepAct, StepEnd
<1>7. QED
  BY <1>1, <1>2, <1>3, <1>4, <1>5, <1>6 DEF Next

\* APPLIED is written only while the source is verified, current and approved, its dependencies
\* are verified, nothing conflicts, and the target has an approval and a verification of its own.
THEOREM AppliedIsEarned == Spec => AppliedOnEvidence
<1> DEFINE Step ==
      imp.status # "APPLIED" /\ imp'.status = "APPLIED" =>
        /\ source.verified /\ source.approved /\ source.record = imp.record
        /\ DepsProved /\ ~Cyclic /\ ~Conflict
        /\ imp'.target # 0
        /\ LET t == clone[imp'.target] IN
              t.verified /\ t.approved /\ t.text = source.text /\ t.sameContext
<1>1. TypeOK /\ Agreed /\ [Next]_vars => [Step]_vars
  BY AppliedSound DEF Sound, SourceStands, Matches
<1> HIDE DEF Step
<1>2. Spec => [][Step]_vars
  BY <1>1, InitAgrees, NextAgrees, TypeCorrect, PTL DEF Spec
<1>3. QED
  BY <1>2 DEF Step, AppliedOnEvidence

-----------------------------------------------------------------------------
(* The branch the user is left with *)

\* As long as nothing has disturbed it, one call at most is under way, and that call began in the
\* branch the user has chosen.
Undisturbed ==
  ~disturbed =>
    /\ ~Attended => branch = chosen
    /\ \A c \in Calls : call[c].pc # "idle" =>
         /\ call[c].prev = chosen /\ chosen \notin abandoned
         /\ \A d \in Calls : call[d].pc # "idle" => d = c

\* A call goes on, and does nothing about branches but switch the current one.
LEMMA GoesOn ==
  ASSUME TypeOK, Undisturbed, NEW c \in Calls, NEW k, Become(c, k), call[c].pc # "idle",
         k.pc # "idle", k.prev = call[c].prev, UNCHANGED <<abandoned, chosen, disturbed>>
  PROVE  Undisturbed'
<1>1. \A d \in Calls : call'[d] = IF d = c THEN k ELSE call[d]
  BY DEF TypeOK, Become
<1>2. QED
  BY <1>1 DEF Undisturbed, Attended

\* A call begins, in the branch that is current.
LEMMA Begins ==
  ASSUME TypeOK, Undisturbed, NEW c \in Calls, NEW k, Become(c, k),
         k.pc # "idle", k.prev = branch, Overlaps, UNCHANGED <<abandoned, chosen>>
  PROVE  Undisturbed'
<1>1. \A d \in Calls : call'[d] = IF d = c THEN k ELSE call[d]
  BY DEF TypeOK, Become
<1>2. CASE disturbed'
  BY <1>2 DEF Undisturbed
<1>3. CASE ~disturbed'
  <2>1. ~disturbed /\ ~Attended
    BY <1>3 DEF Overlaps
  <2>2. branch = chosen /\ chosen \notin abandoned
    BY <2>1 DEF Undisturbed, TypeOK
  <2>3. QED
    BY <1>1, <2>1, <2>2 DEF Undisturbed, Attended
<1>4. QED
  BY <1>2, <1>3

LEMMA NextUndisturbed == TypeOK /\ Undisturbed /\ [Next]_vars => Undisturbed'
<1> SUFFICES ASSUME TypeOK, Undisturbed, [Next]_vars PROVE Undisturbed'
  OBVIOUS
<1> USE DEF claims, history
<1>0. call \in [Calls -> Call]
  BY DEF TypeOK
<1>1. CASE UNCHANGED <<branch, abandoned, chosen, disturbed, call>>
  BY <1>1 DEF Undisturbed, Attended
<1>2. CASE Propose \/ Reject \/ UNCHANGED vars
  BY <1>1, <1>2 DEF Propose, Reject, vars
<1>3. CASE World
  <2>1. CASE UserSwitches
    BY <1>3, <2>1 DEF World, UserSwitches, Undisturbed, Attended
  <2>2. CASE UserAbandons
    BY <1>3, <2>2 DEF World, UserAbandons, Undisturbed, Attended
  <2>3. QED
    BY <1>1, <1>3, <2>1, <2>2 DEF World
<1>4. CASE Restart
  <2>1. \A d \in Calls : call'[d].pc = "idle"
    BY <1>4, ImportRows DEF Restart
  <2>2. QED
    BY <1>4, <2>1 DEF Restart, Undisturbed
<1>5. ASSUME NEW c \in Calls, Apply(c) PROVE Undisturbed'
  <2>1. CASE UNCHANGED <<call, disturbed>>
    BY <1>1, <1>5, <2>1 DEF Apply
  <2>2. CASE Become(c, [Idle EXCEPT !.pc = "switch", !.item = imp', !.prev = branch]) /\ Overlaps
    <3>1. LET k == [Idle EXCEPT !.pc = "switch", !.item = imp', !.prev = branch]
          IN k.pc # "idle" /\ k.prev = branch
      BY DEF Idle
    <3>2. QED
      BY <1>5, <2>2, <3>1, Begins DEF Apply
  <2>3. QED
    BY <1>5, <2>1, <2>2 DEF Apply
<1>6. ASSUME NEW c \in Calls, NEW own \in Workers, StepBegin(c, own) PROVE Undisturbed'
  <2>1. LET k == [Idle EXCEPT !.pc = "plan", !.own = own, !.prev = branch]
        IN k.pc # "idle" /\ k.prev = branch
    BY DEF Idle
  <2>2. QED
    BY <1>6, <2>1, Begins DEF StepBegin
<1>7. ASSUME NEW c \in Calls, NEW pc \in Writing \union {"verify", "finalize", "act"}, Go(c, pc),
             call[c].pc # "idle", UNCHANGED <<abandoned, chosen, disturbed>>
      PROVE  Undisturbed'
  <2>1. LET k == [call[c] EXCEPT !.pc = pc] IN k.pc # "idle" /\ k.prev = call[c].prev
    BY <1>0, <1>7 DEF Call, Writing, Making
  <2>2. QED
    BY <1>7, <2>1, GoesOn DEF Go
<1>8. ASSUME NEW c \in Calls,
             \/ SwitchToTarget(c) \/ CaptureNatural(c) \/ RecordTarget(c) \/ BindRevision(c) \/ StoreProof(c)
             \/ CheckTarget(c) \/ Finalize(c) \/ StepAct(c)
      PROVE  Undisturbed'
  BY <1>7, <1>8 DEF SwitchToTarget, CaptureNatural, RecordTarget, BindRevision, StoreProof, CheckTarget, Finalize,
                    StepAct, At, Writing, Making
<1>9. ASSUME NEW c \in Calls, MakeClone(c) PROVE Undisturbed'
  <2>1. PICK i \in CloneIds : Become(c, [call[c] EXCEPT !.pc = "revise", !.item.target = i])
    BY <1>9 DEF MakeClone
  <2>2. LET k == [call[c] EXCEPT !.pc = "revise", !.item.target = i] IN k.pc # "idle" /\ k.prev = call[c].prev
    BY <1>0 DEF Call
  <2>3. QED
    BY <1>9, <2>1, <2>2, GoesOn DEF MakeClone, At
<1>10. ASSUME NEW c \in Calls, Answer(c) PROVE Undisturbed'
  <2>1. LET k == [call[c] EXCEPT !.pc = "finalize", !.passed = TRUE] IN k.pc # "idle" /\ k.prev = call[c].prev
    BY <1>0 DEF Call
  <2>2. CASE Become(c, [call[c] EXCEPT !.pc = "finalize", !.passed = TRUE])
    BY <1>10, <2>1, <2>2, GoesOn DEF Answer, At
  <2>3. QED
    BY <1>7, <1>10, <2>2 DEF Answer, At, Writing, Making
<1>11. ASSUME NEW c \in Calls, Restore(c) \/ StepEnd(c) PROVE Undisturbed'
  <2>1. call[c].pc # "idle" /\ branch' = Restored(c) /\ UNCHANGED <<abandoned, chosen, disturbed>>
    BY <1>11 DEF Restore, StepEnd, At
  <2>2. \A d \in Calls : call'[d] = IF d = c THEN Idle ELSE call[d]
    BY <1>0, <1>11 DEF Restore, StepEnd, Become
  <2>3. QED
    BY <2>1, <2>2, ImportRows DEF Undisturbed, Attended, Restored
<1>12. ASSUME NEW c \in Calls, WriteThrows(c) PROVE Undisturbed'
  <2>1. CASE Go(c, "restore") /\ UNCHANGED disturbed
    <3>1. call[c].pc # "idle" /\ UNCHANGED <<abandoned, chosen>>
      BY <1>12 DEF WriteThrows, At, Writing, Making
    <3>2. QED
      BY <1>7, <2>1, <3>1 DEF Writing, Making
  <2>2. CASE disturbed'
    BY <2>2 DEF Undisturbed
  <2>3. QED
    BY <1>12, <2>1, <2>2 DEF WriteThrows
<1>13. QED
  BY <1>2, <1>3, <1>4, <1>5, <1>6, <1>8, <1>9, <1>10, <1>11, <1>12 DEF Next

\* Calls that do not overlap leave the workspace in the branch the user has chosen, whatever they
\* threw and wherever they returned; unless their own switch back was refused.
THEOREM BranchIsRestored == Spec => []BranchRestored
<1>1. Init => Undisturbed
  BY DEF Init, Undisturbed, Idle
<1>2. Undisturbed => BranchRestored
  BY DEF Undisturbed, BranchRestored
<1>3. QED
  BY <1>1, <1>2, NextUndisturbed, TypeCorrect, PTL DEF Spec

-----------------------------------------------------------------------------
(* No half-made clones *)

\* Whatever the users and the gate do to clones, they make none, and complete those they change.
LEMMA CloneMoves ==
  ASSUME TypeOK, CloneChanges
  PROVE  \A j \in CloneIds :
           /\ clone'[j].stage \in {clone[j].stage, "bound", "ready"}
           /\ clone'[j].stage # "none" => clone[j].stage # "none"
<1>0. clone \in [CloneIds -> Clone]
  BY DEF TypeOK
<1>1. PICK i \in CloneIds :
        \/ /\ clone[i].stage \in {"bound", "ready"}
           /\ clone' = [clone EXCEPT ![i].approved = ~@]
        \/ clone[i].stage = "bound" /\ clone' = [clone EXCEPT ![i].stage = "ready"]
        \/ /\ clone[i].stage = "ready" /\ clone[i].approved
           /\ clone' = [clone EXCEPT ![i].verified = TRUE]
        \/ /\ clone[i].stage # "none" /\ ~clone[i].verified
           /\ \E t \in Texts, same \in BOOLEAN :
                clone' = [clone EXCEPT ![i].stage = "bound", ![i].text = t, ![i].sameContext = same,
                                       ![i].approved = FALSE]
        \/ clone[i].verified /\ clone' = [clone EXCEPT ![i].verified = FALSE]
  BY DEF CloneChanges
<1>2. clone[i] \in Clone
  BY <1>0
<1>3. \A j \in CloneIds \ {i} : clone'[j] = clone[j]
  BY <1>0, <1>1
<1>4. /\ clone'[i].stage \in {clone[i].stage, "bound", "ready"}
      /\ clone'[i].stage # "none" => clone[i].stage # "none"
  <2>1. CASE clone' = [clone EXCEPT ![i].approved = ~@] \/ clone' = [clone EXCEPT ![i].verified = TRUE]
             \/ clone' = [clone EXCEPT ![i].verified = FALSE]
    <3>1. clone'[i].stage = clone[i].stage
      BY <1>0, <1>2, <2>1 DEF Clone
    <3>2. QED
      BY <3>1
  <2>2. CASE clone[i].stage = "bound" /\ clone' = [clone EXCEPT ![i].stage = "ready"]
    BY <1>0, <1>2, <2>2 DEF Clone
  <2>3. CASE clone[i].stage # "none"
             /\ \E t \in Texts, same \in BOOLEAN :
                  clone' = [clone EXCEPT ![i].stage = "bound", ![i].text = t, ![i].sameContext = same,
                                         ![i].approved = FALSE]
    BY <1>0, <1>2, <2>3 DEF Clone
  <2>4. QED
    BY <1>1, <2>1, <2>2, <2>3
<1>5. QED
  BY <1>3, <1>4

\* The row's target has a statement, which is written together with the row.
Named == imp.target # 0 => clone[imp.target].stage \notin {"none", "bare", "claim"}

\* No step takes the statement from a clone that has one, nor the target from the row.
LEMMA NextNamed == TypeOK /\ Agreed /\ Named /\ [Next]_vars => Named'
<1> SUFFICES ASSUME TypeOK, Agreed, Named, [Next]_vars PROVE Named'
  OBVIOUS
<1> USE DEF claims, history
<1>0. imp \in Import /\ call \in [Calls -> Call] /\ clone \in [CloneIds -> Clone]
  BY DEF TypeOK
<1> DEFINE Unstated == {"none", "bare", "claim"}
<1>1. imp.target # 0 => imp'.target = imp.target /\ imp.target \in CloneIds
  BY <1>0, NextAgrees DEF RowKept, NoImport, Import, CloneIds
<1>2. ASSUME imp'.target = imp.target,
             \A i \in CloneIds : i = imp.target /\ clone[i].stage \notin Unstated => clone'[i].stage \notin Unstated
      PROVE  Named'
  BY <1>2, <1>1 DEF Named
<1>3. ASSUME UNCHANGED clone, imp'.target = imp.target PROVE Named'
  BY <1>3 DEF Named
<1>4. CASE Propose
  BY <1>4 DEF Propose, Named
<1>5. CASE Reject
  BY <1>0, <1>3, <1>5, ImportRows DEF Reject
<1>6. CASE World
  <2>1. CASE UNCHANGED clone
    BY <1>3, <1>6, <2>1 DEF World
  <2>2. CASE CloneChanges
    BY <1>2, <1>6, <2>2, CloneMoves DEF World
  <2>3. QED
    BY <1>6, <2>1, <2>2 DEF World, SourceChanges, OthersChange
<1>7. CASE Restart
  <2>1. \A i \in CloneIds : clone[i].stage \notin Unstated => clone'[i].stage \notin Unstated
    BY <1>0, <1>7 DEF Restart, Backfilled, Clone
  <2>2. QED
    BY <1>2, <1>7, <2>1 DEF Restart
<1>8. ASSUME NEW c \in Calls, Apply(c) PROVE Named'
  <2>1. UNCHANGED clone /\ imp'.target = imp.target
    <3>1. imp' = Write(imp, "FAILED") \/ imp' = Write(imp, Refusal(imp)) \/ imp' = Write(imp, "APPLYING")
      BY <1>8 DEF Apply
    <3>2. QED
      BY <1>0, <1>8, <3>1 DEF Apply, Write, Import
  <2>2. QED
    BY <1>3, <2>1
<1>9. ASSUME NEW c \in Calls, MakeClone(c) PROVE Named'
  <2>1. imp.target = 0 /\ UNCHANGED imp
    BY <1>9 DEF MakeClone, At, Agreed, CopyAgrees
  <2>2. QED
    BY <2>1 DEF Named
<1>10. ASSUME NEW c \in Calls, CaptureNatural(c) PROVE Named'
  <2>1. imp.target = 0 /\ UNCHANGED imp
    BY <1>10 DEF CaptureNatural, At, Agreed, CopyAgrees
  <2>2. QED
    BY <2>1 DEF Named
<1>11. ASSUME NEW c \in Calls, RecordTarget(c) PROVE Named'
  <2> DEFINE i == call[c].item.target
  <2>1. /\ i \in CloneIds /\ imp' = call[c].item
        /\ clone' = [clone EXCEPT ![i].stage = "statement", ![i].text = source.text]
    BY <1>11 DEF RecordTarget, At, Agreed, CopyAgrees
  <2>2. clone'[i].stage = "statement"
    BY <1>0, <2>1 DEF Clone
  <2>3. QED
    BY <2>1, <2>2 DEF Named
<1>12. ASSUME NEW c \in Calls, BindRevision(c) \/ StoreProof(c) \/ Answer(c) PROVE Named'
  <2>1. /\ UNCHANGED imp
        /\ \/ UNCHANGED clone
           \/ clone' = [clone EXCEPT ![call[c].item.target].stage = "bound"]
           \/ clone' = [clone EXCEPT ![call[c].item.target].stage = "ready"]
           \/ clone' = [clone EXCEPT ![call[c].item.target].verified = TRUE]
    BY <1>12 DEF BindRevision, StoreProof, Answer
  <2>2. \A i \in CloneIds : clone[i].stage \notin Unstated => clone'[i].stage \notin Unstated
    BY <1>0, <2>1 DEF Clone
  <2>3. QED
    BY <1>2, <2>1, <2>2
<1>13. ASSUME NEW c \in Calls, CheckTarget(c) \/ Finalize(c) PROVE Named'
  <2>1. call[c].item \in Import /\ CopyAgrees(call[c]) /\ call[c].pc \in {"check", "finalize"} /\ UNCHANGED clone
    BY <1>0, <1>13 DEF CheckTarget, Finalize, At, Agreed, Call
  <2>2. \/ UNCHANGED imp
        \/ \E st \in {"FAILED", "REVERIFY_REQUIRED", "APPLIED"} : imp' = Write(call[c].item, st)
    BY <1>13 DEF CheckTarget, Finalize
  <2>3. imp'.target = imp.target
    BY <2>1, <2>2, ImportRows DEF CopyAgrees, Targeted
  <2>4. QED
    BY <1>3, <2>1, <2>3
<1>14. ASSUME NEW c \in Calls,
              \/ SwitchToTarget(c) \/ Restore(c) \/ WriteThrows(c)
              \/ (\E own \in Workers : StepBegin(c, own)) \/ StepAct(c) \/ StepEnd(c)
       PROVE  Named'
  BY <1>3, <1>14 DEF SwitchToTarget, Restore, WriteThrows, StepBegin, StepAct, StepEnd
<1>15. CASE UNCHANGED vars
  BY <1>3, <1>15 DEF vars
<1>16. QED
  BY <1>4, <1>5, <1>6, <1>7, <1>8, <1>9, <1>10, <1>11, <1>12, <1>13, <1>14, <1>15 DEF Next

\* As long as no clone was cut short in the making, a claim is the row's target and complete, or it
\* is being made by a call that is alone.
Attributed ==
  ~torn =>
    \A i \in CloneIds : clone[i].stage # "none" =>
      \/ i = imp.target /\ clone[i].stage \in {"bound", "ready"}
      \/ \E c \in Calls : /\ call[c].item.target = i
                          /\ \/ call[c].pc = "revise" /\ clone[i].stage = "bare"
                             \/ call[c].pc = "record" /\ clone[i].stage = "claim"
                             \/ call[c].pc = "bind" /\ clone[i].stage = "statement" /\ i = imp.target

LEMMA NextAttributed == TypeOK /\ Agreed /\ Attributed /\ [Next]_vars => Attributed'
<1> SUFFICES ASSUME TypeOK, Agreed, Attributed, [Next]_vars, ~torn' PROVE Attributed'
  BY DEF Attributed
<1> USE DEF claims, history, Making
<1>0. imp \in Import /\ call \in [Calls -> Call] /\ clone \in [CloneIds -> Clone]
  BY DEF TypeOK
<1>1. ~torn
  <2>1. CASE Restart
    BY <2>1 DEF Restart
  <2>2. ASSUME NEW c \in Calls,
               \/ SwitchToTarget(c) \/ MakeClone(c) \/ CaptureNatural(c) \/ RecordTarget(c) \/ BindRevision(c)
               \/ StoreProof(c) \/ CheckTarget(c) \/ Answer(c) \/ Finalize(c) \/ Restore(c)
        PROVE  UNCHANGED torn
    BY <2>2 DEF SwitchToTarget, MakeClone, CaptureNatural, RecordTarget, BindRevision, StoreProof, CheckTarget,
                Answer, Finalize, Restore
  <2>3. ASSUME NEW c \in Calls, Apply(c) \/ (\E own \in Workers : StepBegin(c, own)) \/ StepAct(c) \/ StepEnd(c)
        PROVE  UNCHANGED torn
    BY <2>3 DEF Apply, StepBegin, StepAct, StepEnd
  <2>4. ASSUME NEW c \in Calls, WriteThrows(c) PROVE torn => torn'
    BY <2>4 DEF WriteThrows
  <2>5. CASE Propose \/ Reject \/ World \/ UNCHANGED vars
    BY <2>5 DEF Propose, Reject, World, vars
  <2>6. QED
    BY <2>1, <2>2, <2>3, <2>4, <2>5 DEF Next
<1>2. imp # NoImport => (imp.target # 0 => imp'.target = imp.target)
  BY NextAgrees DEF RowKept
<1>3. \A i \in CloneIds : i # 0
  BY DEF CloneIds
<1>4. \A i \in CloneIds : i = imp.target => i = imp'.target
  BY <1>2, <1>3 DEF NoImport
<1>5. ASSUME UNCHANGED clone, \A c \in Calls : call[c].pc \in Making => call'[c] = call[c]
      PROVE  Attributed'
  BY <1>1, <1>4, <1>5 DEF Attributed
<1>6. CASE Propose \/ Reject \/ UNCHANGED vars
  BY <1>5, <1>6 DEF Propose, Reject, vars
<1>7. CASE World
  <2>1. CASE UNCHANGED clone
    BY <1>5, <1>7, <2>1 DEF World
  <2>2. CASE CloneChanges
    <3>1. \A c \in Calls : call[c].pc \notin Making
      BY <1>7 DEF World, Quiet, Writing, Making
    <3>2. \A i \in CloneIds : clone[i].stage # "none" => i = imp.target /\ clone[i].stage \in {"bound", "ready"}
      BY <1>1, <3>1 DEF Attributed
    <3>3. \A j \in CloneIds : clone'[j].stage # "none" =>
            clone[j].stage # "none" /\ clone'[j].stage \in {clone[j].stage, "bound", "ready"}
      BY <2>2, CloneMoves
    <3>4. \A j \in CloneIds : clone'[j].stage # "none" => j = imp.target /\ clone'[j].stage \in {"bound", "ready"}
      BY <3>2, <3>3
    <3>5. QED
      BY <1>7, <3>4 DEF World, Attributed
  <2>3. QED
    BY <1>7, <2>1, <2>2 DEF World, SourceChanges, OthersChange
<1>8. CASE Restart
  <2>1. \A c \in Calls : call[c].pc \notin Making
    BY <1>8 DEF Restart
  <2>2. \A i \in CloneIds : clone[i].stage # "none" => i = imp.target /\ clone[i].stage \in {"bound", "ready"}
    BY <1>1, <2>1 DEF Attributed, Making
  <2>3. UNCHANGED <<clone, imp>>
    BY <1>0, <1>8, <2>2 DEF Restart, Backfilled
  <2>4. QED
    BY <2>2, <2>3 DEF Attributed
<1>9. ASSUME NEW c \in Calls, Apply(c) PROVE Attributed'
  <2>1. At(c, "idle") /\ UNCHANGED clone /\ (UNCHANGED call \/ \E k : Become(c, k))
    BY <1>9 DEF Apply
  <2>2. QED
    BY <1>0, <1>5, <2>1 DEF At, Become
<1>10. ASSUME NEW c \in Calls,
             \/ SwitchToTarget(c) \/ CheckTarget(c) \/ Finalize(c) \/ Restore(c)
             \/ (\E own \in Workers : StepBegin(c, own)) \/ StepAct(c) \/ StepEnd(c)
      PROVE  Attributed'
  <2>1. UNCHANGED clone /\ call[c].pc \notin Making /\ \E k : Become(c, k)
    BY <1>10 DEF SwitchToTarget, CheckTarget, Finalize, Restore, StepBegin, StepAct, StepEnd, At, Go
  <2>2. QED
    BY <1>0, <1>5, <2>1 DEF Become
<1>11. ASSUME NEW c \in Calls, MakeClone(c) PROVE Attributed'
  <2>1. PICK i \in CloneIds :
          /\ clone[i].stage = "none"
          /\ clone' = [clone EXCEPT ![i].stage = "bare"]
          /\ Become(c, [call[c] EXCEPT !.pc = "revise", !.item.target = i])
    BY <1>11 DEF MakeClone
  <2>2. imp.target = 0 /\ \A d \in Calls : call[d].pc \notin Making
    BY <1>11 DEF MakeClone, At, Writing, Making, Agreed, Alone, CopyAgrees
  <2>3. \A j \in CloneIds : clone[j].stage = "none"
    BY <1>1, <1>3, <2>2 DEF Attributed
  <2>4. call'[c].pc = "revise" /\ call'[c].item.target = i
    <3>1. call[c] \in Call /\ call[c].item \in Import
      BY <1>0 DEF Call
    <3>2. QED
      BY <1>0, <2>1, <3>1 DEF Become, Call, Import
  <2>5. clone'[i].stage = "bare" /\ \A j \in CloneIds \ {i} : clone'[j].stage = "none"
    BY <1>0, <2>1, <2>3 DEF Clone
  <2>6. QED
    BY <2>4, <2>5 DEF Attributed
<1>12. ASSUME NEW c \in Calls, call[c].pc \in Making
      PROVE  \A j \in CloneIds : clone[j].stage # "none" =>
               \/ j = imp.target /\ clone[j].stage \in {"bound", "ready"}
               \/ j = call[c].item.target
  BY <1>12, <1>1 DEF Attributed, Agreed, Alone, Writing, Making
<1>13. ASSUME NEW c \in Calls, CaptureNatural(c) PROVE Attributed'
  <2> DEFINE i == call[c].item.target
  <2>1. /\ call[c].pc = "revise" /\ i \in CloneIds /\ imp.target = 0 /\ UNCHANGED imp
        /\ Go(c, "record")
        /\ \E same \in BOOLEAN : clone' = [clone EXCEPT ![i].stage = "claim", ![i].sameContext = same]
    BY <1>13 DEF CaptureNatural, At, Agreed, CopyAgrees
  <2>2. \A j \in CloneIds \ {i} : clone[j].stage = "none"
    BY <1>12, <1>3, <2>1 DEF Making
  <2>3. call'[c].pc = "record" /\ call'[c].item.target = i
    BY <1>0, <2>1 DEF Go, Become, Call
  <2>4. clone'[i].stage = "claim" /\ \A j \in CloneIds \ {i} : clone'[j].stage = "none"
    BY <1>0, <2>1, <2>2 DEF Clone
  <2>5. QED
    BY <2>3, <2>4 DEF Attributed
<1>14. ASSUME NEW c \in Calls, WriteThrows(c) PROVE Attributed'
  <2>1. UNCHANGED clone /\ call[c].pc \notin Making /\ \E k : Become(c, k)
    BY <1>14 DEF WriteThrows, At, Go, Making
  <2>2. QED
    BY <1>0, <1>5, <2>1 DEF Become
<1>15. ASSUME NEW c \in Calls, RecordTarget(c) PROVE Attributed'
  <2> DEFINE i == call[c].item.target
  <2>1. /\ call[c].pc = "record" /\ i \in CloneIds /\ imp.target = 0
        /\ imp' = call[c].item /\ Go(c, "bind")
        /\ clone' = [clone EXCEPT ![i].stage = "statement", ![i].text = source.text]
    BY <1>15 DEF RecordTarget, At, Agreed, CopyAgrees
  <2>2. \A j \in CloneIds \ {i} : clone[j].stage = "none"
    BY <1>12, <1>3, <2>1
  <2>3. call'[c].pc = "bind" /\ call'[c].item.target = i /\ imp'.target = i
    BY <1>0, <2>1 DEF Go, Become, Call
  <2>4. clone'[i].stage = "statement" /\ \A j \in CloneIds \ {i} : clone'[j].stage = "none"
    BY <1>0, <2>1, <2>2 DEF Clone
  <2>5. QED
    BY <2>3, <2>4 DEF Attributed
<1>16. ASSUME NEW c \in Calls, BindRevision(c) PROVE Attributed'
  <2> DEFINE i == call[c].item.target
  <2>1. /\ call[c].pc = "bind" /\ i = imp.target /\ UNCHANGED imp
        /\ clone' = [clone EXCEPT ![i].stage = "bound"]
    BY <1>16 DEF BindRevision, At, Agreed, CopyAgrees, Targeted
  <2>2. \A j \in CloneIds : clone[j].stage # "none" => j = imp.target
    BY <1>12, <2>1
  <2>3. \A j \in CloneIds : clone'[j].stage # "none" => j = imp.target /\ clone'[j].stage = "bound"
    BY <1>0, <2>1, <2>2 DEF Clone
  <2>4. QED
    BY <2>1, <2>3 DEF Attributed
<1>17. ASSUME NEW c \in Calls, StoreProof(c) \/ Answer(c) PROVE Attributed'
  <2>1. /\ call[c].pc \in {"store", "verify"} /\ UNCHANGED imp
        /\ call[c].item.target = imp.target
    BY <1>17 DEF StoreProof, Answer, At, Agreed, CopyAgrees, Targeted
  <2>2. \E k : Become(c, k)
    BY <1>17 DEF StoreProof, Answer, Go
  <2>3. CASE UNCHANGED clone
    BY <1>0, <1>5, <2>1, <2>2, <2>3 DEF Become
  <2>4. CASE StoreProof(c)
    <3>1. call[c].pc = "store" /\ clone' = [clone EXCEPT ![imp.target].stage = "ready"]
      BY <2>1, <2>4 DEF StoreProof, At
    <3>2. \A d \in Calls : call[d].pc \notin Making
      BY <3>1 DEF Agreed, Alone, Writing, Making
    <3>3. \A j \in CloneIds : clone[j].stage # "none" => j = imp.target
      BY <1>1, <3>2 DEF Attributed
    <3>4. \A j \in CloneIds : clone'[j].stage # "none" => j = imp.target /\ clone'[j].stage = "ready"
      BY <1>0, <3>1, <3>3 DEF Clone
    <3>5. QED
      BY <2>1, <3>4 DEF Attributed
  <2>5. CASE clone' = [clone EXCEPT ![imp.target].verified = TRUE]
    <3>1. \A j \in CloneIds : clone'[j].stage = clone[j].stage
      BY <1>0, <2>5 DEF Clone
    <3>2. \A d \in Calls : call[d].pc \in Making => call'[d] = call[d]
      BY <1>0, <2>1, <2>2 DEF Become
    <3>3. QED
      BY <1>1, <2>1, <3>1, <3>2 DEF Attributed
  <2>6. QED
    BY <1>17, <2>1, <2>3, <2>4, <2>5 DEF Answer
<1>18. QED
  BY <1>1, <1>8, <1>6, <1>7, <1>9, <1>10, <1>11, <1>13, <1>14, <1>15, <1>16, <1>17 DEF Next

\* The target a row names always has a statement.  Whatever is thrown, refused, killed or overlaps, an
\* import leaves no claim that its row does not name, and none that could never be approved, unless it
\* is cut short between the transactions that make one.
THEOREM ImportsAreWhole == Spec => []NothingHalfDone
<1>1. Init => Attributed /\ Named
  BY DEF Init, Attributed, NoClone, Named, NoImport
<1>2. Attributed /\ Named => NothingHalfDone
  BY DEF Attributed, Named, NothingHalfDone, Attended
<1>3. QED
  BY <1>1, <1>2, InitAgrees, NextAgrees, NextAttributed, NextNamed, TypeCorrect, PTL DEF Spec

=============================================================================
