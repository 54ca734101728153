-------------------------- MODULE ResearchRunProofs --------------------------
(***************************************************************************)
(* Theorems about ResearchRun, for any number of calls and any limits.     *)
(***************************************************************************)
EXTENDS ResearchRun, FiniteSetTheorems, TLAPS

-----------------------------------------------------------------------------
(* The record of the steps *)

Stepping == {"insert", "dispatch", "work", "fail", "check", "conclude"}

\* What the copy of a call in flight still says truly of the step rows, whoever else writes them.
Copy(k) ==
  /\ k.row.step <= k.row.steps
  /\ \A i \in Slots : i <= k.row.step /\ ~(k.pc = "fail" /\ i = k.seq) => rows[i] \in Outcomes
  /\ k.pc = "plan" => k.row.steps < MaxSteps
  /\ k.pc \in Stepping => k.seq <= MaxSteps /\ k.seq <= k.row.steps + 1
  /\ k.pc \in Stepping => \A i \in Slots : i < k.seq => rows[i] \in Outcomes
  /\ k.pc \in Stepping \ {"insert"} => rows[k.seq] # "NONE"

Record ==
  /\ TypeOK
  /\ run.step <= run.steps
  /\ RecordComplete
  /\ \A c \in Calls : Copy(call[c])

\* Outcomes are only ever replaced by outcomes, and no row is taken back.
Grow ==
  \A i \in Slots : /\ rows[i] \in Outcomes => rows'[i] \in Outcomes
                   /\ rows[i] # "NONE" => rows'[i] # "NONE"

\* The rows may grow under a copy.
LEMMA CopyKept ==
  ASSUME NEW k \in CallRow, Copy(k), Grow
  PROVE  Copy(k)'
BY DEF Copy, Grow, CallRow, Stepping

\* What one call does keeps the record if what it writes and what it goes on with do.
LEMMA CallKeepsRecord ==
  ASSUME Record, NEW c \in Calls, NEW k \in CallRow,
         call' = [call EXCEPT ![c] = k], Grow, Copy(k)',
         run' \in Run, rows' \in [Slots -> StepStatus], verified' \in BOOLEAN,
         made' \in [Slots -> 0 .. 2], spent' \in 0 .. MaxModelCalls + 1, killed' \in BOOLEAN,
         run'.step <= run'.steps, RecordComplete'
  PROVE  Record'
<1>1. TypeOK'
  BY DEF Record, TypeOK
<1>2. ASSUME NEW d \in Calls PROVE Copy(call[d])'
  <2>1. CASE d = c
    <3>1. call'[d] = k
      BY <2>1 DEF Record, TypeOK
    <3>2. QED
      BY <3>1 DEF Copy
  <2>2. CASE d # c
    <3>1. call'[d] = call[d] /\ call[d] \in CallRow /\ Copy(call[d])
      BY <2>2 DEF Record, TypeOK
    <3>2. Copy(call[d]) => \A k2 \in CallRow : k2 = call[d] => Copy(k2)'
      BY CopyKept
    <3>3. QED
      BY <3>1, <3>2 DEF Copy
  <2>3. QED
    BY <2>1, <2>2
<1>3. QED
  BY <1>1, <1>2 DEF Record

\* A call that goes on without writing rows.
LEMMA IdleIsTyped == Idle \in CallRow /\ Copy(Idle)
BY ConstantsAssumption DEF Idle, CallRow, Copy, NewRun, Run, Status, Live, Slots, PCs, Writing, Kinds, Stepping

LEMMA InitRecord == Init => Record
<1>1. NewRun \in Run
  BY ConstantsAssumption DEF NewRun, Run, Status, Live
<1>2. ASSUME Init PROVE Record
  <2>1. TypeOK
    <3>1. killed \in BOOLEAN /\ verified \in BOOLEAN
      BY <1>2 DEF Init
    <3>2. QED
      BY <1>1, <1>2, <3>1, IdleIsTyped, ConstantsAssumption DEF Init, TypeOK, StepStatus
  <2>2. RecordComplete /\ run.step <= run.steps
    BY <1>2 DEF Init, RecordComplete, NewRun, Slots
  <2>3. QED
    BY <1>2, <2>1, <2>2, IdleIsTyped DEF Init, Record
<1>3. QED
  BY <1>2

\* What a step adds to the copy of the row.
LEMMA AdvancedRow ==
  ASSUME NEW row \in Run, NEW seq \in Slots, seq <= MaxSteps
  PROVE  LET next == Advanced(row, seq)
         IN  /\ next \in Run /\ next.step = seq /\ next.steps = row.steps + 1
             /\ next.model = row.model /\ next.proof = row.proof
<1>1. Advanced(row, seq) = [row EXCEPT !.step = seq, !.steps = row.steps + 1]
  BY DEF Advanced, Run
<1>2. row.steps + 1 \in Nat /\ seq \in 0 .. MaxSteps
  BY ConstantsAssumption DEF Run, Slots
<1>3. QED
  BY <1>1, <1>2 DEF Run

LEMMA FinishedRow ==
  ASSUME TypeOK, NEW c \in Calls, call[c].seq <= MaxSteps
  PROVE  /\ Finished(c) \in Run /\ Finished(c).step = call[c].seq
         /\ Finished(c).steps = call[c].row.steps + 1 /\ Finished(c).model = call[c].row.model
         /\ Finished(c).proof = call[c].row.proof + IF call[c].kind = "prove" THEN 1 ELSE 0
<1> DEFINE base == Advanced(call[c].row, call[c].seq)
           n == IF call[c].kind = "prove" THEN 1 ELSE 0
<1>1. call[c].row \in Run /\ call[c].seq \in Slots
  BY DEF TypeOK, CallRow
<1>2. /\ base \in Run /\ base.step = call[c].seq /\ base.steps = call[c].row.steps + 1
      /\ base.model = call[c].row.model /\ base.proof = call[c].row.proof
  BY <1>1, AdvancedRow
<1>3. Finished(c) = [base EXCEPT !.status = "RUNNING", !.proof = @ + n]
  BY DEF Finished
<1> HIDE DEF base
<1>4. base.proof + n \in Nat
  BY <1>2 DEF Run
<1>5. Finished(c) = [base EXCEPT !.status = "RUNNING", !.proof = base.proof + n]
  BY <1>2, <1>3 DEF Run
<1> HIDE DEF n
<1>6. [base EXCEPT !.status = "RUNNING", !.proof = base.proof + n] \in Run
  BY <1>2, <1>4 DEF Run, Status, Live
<1>7. Finished(c).proof = base.proof + n
  BY <1>2, <1>5 DEF Run
<1>8. QED
  BY <1>2, <1>5, <1>6, <1>7 DEF Run, n

-----------------------------------------------------------------------------
\* Every action of a call keeps the record, in one process or in several, with kills and refused
\* transactions.
LEMMA NextRecord == Record /\ [Next]_vars => Record'
<1> SUFFICES ASSUME Record, [Next]_vars PROVE Record'
  OBVIOUS
<1> USE ConstantsAssumption
<1>1. ASSUME NEW c \in Calls, NEW k \in CallRow, Goto(c, k), Copy(k),
             UNCHANGED <<run, rows, verified, made, killed>>, spent' \in 0 .. MaxModelCalls + 1
      PROVE  Record'
  <2>1. Grow /\ Copy(k)' /\ RecordComplete'
    BY <1>1 DEF Grow, Copy, RecordComplete, Record
  <2>2. QED
    BY <1>1, <2>1, CallKeepsRecord DEF Goto, Record, TypeOK
<1>2. ASSUME NEW c \in Calls, NEW next \in Status, NEW old \in CallRow, old = call[c],
             old.pc # "fail", run' = [old.row EXCEPT !.status = next],
             NEW k \in CallRow, Goto(c, k), k = Idle \/ k = [Idle EXCEPT !.pc = "loop", !.loop = TRUE],
             rows' = rows \/ rows' = Interrupted, UNCHANGED <<verified, history>>
      PROVE  Record'
  <2>1. Grow /\ rows' \in [Slots -> StepStatus]
    BY <1>2 DEF Grow, Interrupted, Record, TypeOK, StepStatus, Outcomes
  <2>2. Copy(old) /\ run' \in Run /\ run'.step = old.row.step /\ run'.steps = old.row.steps
    BY <1>2 DEF Record, TypeOK, CallRow, Run
  <2>3. Copy(old)'
    BY <2>1, <2>2, CopyKept
  <2>4. RecordComplete'
    <3>1. \A i \in Slots : i <= run'.step => rows'[i] \in Outcomes
      BY <1>2, <2>1, <2>2 DEF Copy, Grow
    <3>2. \A i \in Slots : rows'[i] # "NONE" => rows[i] # "NONE"
      BY <1>2 DEF Interrupted, Record, TypeOK
    <3>3. QED
      BY <3>1, <3>2, <2>1 DEF RecordComplete, Grow, Record, Slots
  <2>5. Copy(k)'
    BY <1>2, IdleIsTyped, CopyKept, <2>1 DEF Copy, Idle, NewRun, Stepping, Slots
  <2>6. QED
    BY <1>2, <2>1, <2>2, <2>4, <2>5, CallKeepsRecord DEF Goto, Record, TypeOK, Copy, history
<1>3. ASSUME NEW c \in Calls, NEW old \in CallRow, old = call[c], NEW k \in CallRow,
             Goto(c, k), Copy(k)', Grow, rows' \in [Slots -> StepStatus], run' \in Run,
             run'.step <= run'.steps, RecordComplete', UNCHANGED <<verified, history>>
      PROVE  Record'
  BY <1>3, CallKeepsRecord DEF Goto, Record, TypeOK, history
<1>4. ASSUME NEW c \in Calls PROVE call[c] \in CallRow /\ Copy(call[c])
  BY DEF Record, TypeOK
<1>5. Idle \in CallRow /\ Copy(Idle)
  BY IdleIsTyped
<1>6. ASSUME NEW c \in Calls, NEW k \in CallRow, k = [Idle EXCEPT !.pc = "loop", !.loop = TRUE]
      PROVE  Copy(k)
  BY <1>6, <1>5 DEF Copy, Idle, NewRun, Stepping
<1>7. [Idle EXCEPT !.pc = "loop", !.loop = TRUE] \in CallRow
  BY <1>5 DEF CallRow, Idle, PCs
<1>8. spent \in 0 .. MaxModelCalls + 1 /\ (Answered => spent' \in 0 .. MaxModelCalls + 1)
  BY DEF Answered, Record, TypeOK
<1>9. run \in Run /\ Record
  BY DEF Record, TypeOK
<1>10. ASSUME NEW c \in Calls, Return(c),
              UNCHANGED <<run, rows, verified, made, killed>>, spent' \in 0 .. MaxModelCalls + 1
       PROVE  Record'
  BY <1>10, <1>1, <1>5, <1>6, <1>7 DEF Return
<1>11. ASSUME NEW c \in Calls, NEW row \in Run, NEW next \in Status, Stopping(c, row, next),
              row.step <= row.steps, \A i \in Slots : i <= row.step => rows[i] \in Outcomes,
              UNCHANGED <<run, rows, verified, made, killed>>, spent' \in 0 .. MaxModelCalls + 1
       PROVE  Record'
  <2> DEFINE k == [Idle EXCEPT !.pc = "stop", !.row = row, !.next = next]
  <2>1. k \in CallRow /\ Copy(k)
    BY <1>11, <1>5 DEF CallRow, Idle, PCs, Writing, Copy, Stepping
  <2>2. QED
    BY <1>11, <2>1, <1>1 DEF Stopping
<1>12. ASSUME NEW c \in Calls, NEW k \in CallRow, Goto(c, k),
              k.pc \in {"launch", "pause", "resume", "reconcile", "plan"},
              k.row.step = run.step, k.row.steps = run.steps, k.pc = "plan" => run.steps < MaxSteps,
              UNCHANGED <<run, rows, verified, history>>
       PROVE  Record'
  <2>1. Copy(k)
    BY <1>12, <1>9 DEF Record, RecordComplete, Copy, Stepping
  <2>2. QED
    BY <1>12, <2>1, <1>1, <1>8 DEF history
<1>13. ASSUME NEW c \in Calls, Start(c) PROVE Record'
  <2> DEFINE k == [Idle EXCEPT !.pc = "launch", !.row = run, !.loop = TRUE]
  <2>1. k \in CallRow /\ k.pc = "launch" /\ k.row = run
    BY <1>5, <1>9 DEF CallRow, Idle, PCs, Writing
  <2>2. QED
    BY <1>13, <2>1, <1>12 DEF Start
<1>14. ASSUME NEW c \in Calls, NEW what \in {"pause", "resume", "reconcile"}, Request(c, what)
       PROVE  Record'
  <2> DEFINE k == [Idle EXCEPT !.pc = what, !.row = run]
  <2>1. k \in CallRow /\ k.pc = what /\ k.row = run
    BY <1>5, <1>9 DEF CallRow, Idle, PCs, Writing
  <2>2. QED
    BY <1>14, <2>1, <1>12 DEF Request
<1>15. ASSUME NEW c \in Calls, NEW loop \in BOOLEAN, Enter(c, loop),
              UNCHANGED <<run, rows, verified, history>>
       PROVE  Record'
  <2>1. CASE Goto(c, Idle)
    BY <1>15, <2>1, <1>1, <1>5, <1>8 DEF history
  <2>2. ASSUME NEW next \in {"BLOCKED", "COMPLETED"}, Stopping(c, run, next) PROVE Record'
    BY <1>15, <2>2, <1>11, <1>9, <1>8 DEF Record, RecordComplete, Status, history
  <2>3. CASE /\ ~Exhausted(run)
             /\ Goto(c, [[Idle EXCEPT !.row = run, !.loop = loop] EXCEPT !.pc = "plan", !.row.model = @ + 1])
    <3> DEFINE k == [[Idle EXCEPT !.row = run, !.loop = loop] EXCEPT !.pc = "plan", !.row.model = @ + 1]
    <3>1. k.row = [run EXCEPT !.model = @ + 1] /\ k.row \in Run
      BY <1>9 DEF Idle, Run
    <3>2. k = [Idle EXCEPT !.pc = "plan", !.row = k.row, !.loop = loop]
      BY <3>1 DEF Idle
    <3>3. k \in CallRow /\ k.pc = "plan" /\ k.row.step = run.step /\ k.row.steps = run.steps
      <4> DEFINE row == k.row
      <4>1. row \in Run /\ row.step = run.step /\ row.steps = run.steps
        BY <3>1, <1>9 DEF Run
      <4>2. k = [Idle EXCEPT !.pc = "plan", !.row = row, !.loop = loop] /\ k.row = row
        BY <3>2
      <4> HIDE DEF row, k
      <4>3. QED
        BY <4>1, <4>2, <1>5 DEF CallRow, Idle, PCs
    <3>4. run.steps < MaxSteps
      BY <2>3, <1>9 DEF Run, Exhausted
    <3>5. QED
      BY <1>15, <2>3, <3>3, <3>4, <1>12
  <2>4. QED
    BY <1>15, <2>1, <2>2, <2>3 DEF Enter
<1>16. ASSUME NEW c \in Calls, StepOnce(c) \/ Loop(c) PROVE Record'
  <2>1. CASE run.status \notin Live /\ Loop(c)
    BY <2>1, <1>1, <1>5, <1>8 DEF Loop, history
  <2>2. QED
    BY <1>16, <2>1, <1>15 DEF StepOnce, Loop
<1>17. ASSUME NEW c \in Calls, PlannerThrows(c) \/ Kill(c) PROVE Record'
  <2>1. CASE PlannerThrows(c)
    BY <1>17, <2>1, <1>1, <1>5, <1>8 DEF PlannerThrows, history
  <2>2. CASE Kill(c)
    <3>1. Copy(Idle)'
      BY <2>2, <1>5, CopyKept DEF Kill, Grow
    <3>2. Grow /\ RecordComplete'
      BY <2>2 DEF Kill, Grow, RecordComplete, Record
    <3>3. QED
      BY <2>2, <3>1, <3>2, <1>5, CallKeepsRecord DEF Kill, Goto, Record, TypeOK
  <2>3. QED
    BY <1>17, <2>1, <2>2
<1>18. ASSUME NEW c \in Calls, PlannerStops(c) PROVE Record'
  <2>1. call[c].row \in Run /\ call[c].row.step <= call[c].row.steps
        /\ \A i \in Slots : i <= call[c].row.step => rows[i] \in Outcomes
    BY <1>18, <1>4 DEF PlannerStops, At, Copy, CallRow
  <2>2. QED
    BY <1>18, <2>1, <1>8, <1>11 DEF PlannerStops, Status
<1>19. ASSUME NEW c \in Calls, NEW kind \in Kinds, Decide(c, kind) PROVE Record'
  <2> DEFINE seq == call[c].row.step + 1
             chosen == [call[c] EXCEPT !.seq = seq, !.kind = kind]
  <2>1. call[c].pc = "plan" /\ seq \in Slots /\ seq <= MaxSteps /\ seq <= call[c].row.steps + 1
        /\ \A i \in Slots : i < seq => rows[i] \in Outcomes
    BY <1>19, <1>4 DEF Decide, At, Copy, CallRow, Run, Slots
  <2>2. ASSUME NEW pc \in {"insert", "dispatch"}, pc = "dispatch" => rows[seq] # "NONE",
               Goto(c, [chosen EXCEPT !.pc = pc])
        PROVE  Record'
    <3>1. [chosen EXCEPT !.pc = pc] \in CallRow
      BY <2>1, <1>4 DEF CallRow, PCs, Writing
    <3>2. /\ [chosen EXCEPT !.pc = pc].row = call[c].row
          /\ [chosen EXCEPT !.pc = pc].pc = pc /\ [chosen EXCEPT !.pc = pc].seq = seq
      BY <1>4 DEF CallRow
    <3>3. Copy([chosen EXCEPT !.pc = pc])
      <4> HIDE DEF chosen
      <4> QED BY <2>1, <2>2, <1>4, <3>2 DEF Copy, Stepping
    <3>4. QED
      BY <1>19, <2>2, <3>1, <3>3, <1>1, <1>8 DEF Decide
  <2>3. QED
    BY <1>19, <2>2, <1>8, <1>10 DEF Decide, Outcomes
<1>20. ASSUME NEW c \in Calls, NEW old \in CallRow, old = call[c], Copy(old), Insert(c) PROVE Record'
  <2> DEFINE k == [old EXCEPT !.pc = "dispatch"]
             seq == old.seq
  <2>1. k \in CallRow /\ k.pc = "dispatch" /\ k.seq = seq /\ k.row = old.row
        /\ old.pc = "insert" /\ seq \in Slots
    BY <1>20 DEF Insert, At, CallRow, PCs, Writing
  <2>2. CASE rows[seq] = "NONE"
    <3>1. rows' = [rows EXCEPT ![seq] = "RUNNING"] /\ Grow /\ rows' \in [Slots -> StepStatus]
      BY <1>20, <2>2 DEF Insert, Grow, Record, TypeOK, StepStatus, Outcomes
    <3>2. Copy(k)'
      <4> HIDE DEF k
      <4> QED BY <1>20, <2>1, <2>2, <3>1 DEF Copy, Stepping, Grow, Record, TypeOK
    <3>3. RecordComplete'
      <4>1. \A i \in Slots : i <= run.step => rows'[i] \in Outcomes
        BY <3>1 DEF Record, RecordComplete, Grow
      <4>2. \A i \in Slots : i < seq => rows'[i] \in Outcomes
        BY <1>20, <2>1, <3>1 DEF Copy, Stepping, Grow
      <4>3. ASSUME NEW i \in Slots, i + 1 \in Slots, rows'[i + 1] # "NONE" PROVE rows'[i] \in Outcomes
        <5>1. CASE i + 1 = seq
          BY <5>1, <4>2, <2>1 DEF Slots
        <5>2. CASE i + 1 # seq
          BY <5>2, <4>3, <3>1 DEF Record, TypeOK, RecordComplete, Grow
        <5>3. QED
          BY <5>1, <5>2
      <4>4. QED
        BY <1>20, <4>1, <4>3 DEF RecordComplete, Insert
    <3>4. Goto(c, k) /\ UNCHANGED <<run, verified, history>>
      BY <1>20, <2>2 DEF Insert
    <3>5. QED
      <4> HIDE DEF k
      <4> QED BY <1>20, <2>1, <3>1, <3>2, <3>3, <3>4, <1>3, <1>9 DEF Record
  <2>3. CASE rows[seq] # "NONE"
    BY <1>20, <2>3, <1>1, <1>5, <1>8 DEF Insert, history
  <2>4. QED
    BY <2>2, <2>3
<1>21. ASSUME NEW c \in Calls, NEW pc \in Stepping \ {"insert"}, NEW k \in CallRow, Goto(c, k),
              call[c].pc \in Stepping \ {"insert", "fail"}, k.pc = pc, k.seq = call[c].seq,
              k.row.step = call[c].row.step, k.row.steps = call[c].row.steps,
              UNCHANGED <<run, rows, verified>>,
              made' \in [Slots -> 0 .. 2], spent' \in 0 .. MaxModelCalls + 1, killed' \in BOOLEAN
       PROVE  Record'
  <2>1. Copy(k)
    BY <1>21, <1>4 DEF Copy, Stepping
  <2>2. Grow /\ Copy(k)' /\ RecordComplete'
    BY <1>21, <2>1 DEF Grow, Copy, RecordComplete, Record
  <2>3. QED
    BY <1>21, <2>2, CallKeepsRecord DEF Goto, Record, TypeOK
<1>22. ASSUME NEW c \in Calls, Look(c) PROVE Record'
  <2> DEFINE k == [call[c] EXCEPT !.pc = "work"]
  <2>1. k \in CallRow /\ k.pc = "work" /\ k.seq = call[c].seq /\ k.row = call[c].row
    BY <1>4 DEF CallRow, PCs
  <2>2. QED
    BY <1>22, <2>1, <1>21, <1>8 DEF Look, At, Stepping, history, Record, TypeOK
<1>23. ASSUME NEW c \in Calls, Subclaim(c) PROVE Record'
  <2> DEFINE k == [call[c] EXCEPT !.pc = "work"]
  <2>1. k \in CallRow /\ k.pc = "work" /\ k.seq = call[c].seq /\ k.row = call[c].row
    BY <1>4 DEF CallRow, PCs
  <2>2. made' \in [Slots -> 0 .. 2]
    <3> DEFINE seq == call[c].seq
    <3>1. seq \in Slots /\ made[seq] \in 0 .. 2
      BY <1>4 DEF CallRow, Record, TypeOK
    <3>2. (IF made[seq] = 2 THEN 2 ELSE made[seq] + 1) \in 0 .. 2
      BY <3>1
    <3>3. QED
      BY <1>23, <3>1, <3>2 DEF Subclaim, Record, TypeOK
  <2>3. killed' \in BOOLEAN
    BY <1>23 DEF Subclaim, Record, TypeOK
  <2>4. QED
    BY <1>23, <2>1, <2>2, <2>3, <1>21, <1>8 DEF Subclaim, At, Stepping
<1>24. ASSUME NEW c \in Calls, NEW body \in BOOLEAN, Prove(c, body) PROVE Record'
  <2>1. PICK old \in CallRow : old = call[c]
    BY <1>4
  <2>2. old.pc = "dispatch" /\ old.row \in Run
    BY <1>24, <2>1 DEF Prove, At, CallRow
  <2>4. ASSUME NEW pc \in {"work", "fail"}, NEW row \in Run, row.step = old.row.step, row.steps = old.row.steps,
               Goto(c, [old EXCEPT !.pc = pc, !.row = row]), UNCHANGED spent \/ Answered
        PROVE  Record'
    <3> DEFINE k == [old EXCEPT !.pc = pc, !.row = row]
    <3>1. Goto(c, k)
      BY <2>4
    <3>2. k \in CallRow /\ k.pc = pc /\ k.seq = old.seq /\ k.row = row
      BY DEF CallRow, PCs, Writing
    <3>3. UNCHANGED <<run, rows, verified, made, killed>> /\ made \in [Slots -> 0 .. 2] /\ killed \in BOOLEAN
      BY <1>24 DEF Prove, Record, TypeOK
    <3>4. QED
      <4> HIDE DEF k
      <4> QED BY <2>1, <2>2, <2>4, <3>1, <3>2, <3>3, <1>8, <1>21 DEF Stepping
  <2>5. CASE Goto(c, [old EXCEPT !.pc = "fail"]) /\ UNCHANGED spent
    <3>1. [old EXCEPT !.pc = "fail"] = [old EXCEPT !.pc = "fail", !.row = old.row]
      BY DEF CallRow
    <3>2. QED
      BY <2>2, <2>4, <2>5, <3>1
  <2>6. CASE Goto(c, [old EXCEPT !.pc = "fail", !.row.proof = @ + 1]) /\ UNCHANGED spent
    <3> DEFINE row == [old.row EXCEPT !.proof = @ + 1]
    <3>1. row \in Run /\ row.step = old.row.step /\ row.steps = old.row.steps
      BY <2>2 DEF Run
    <3>2. [old EXCEPT !.pc = "fail", !.row.proof = @ + 1] = [old EXCEPT !.pc = "fail", !.row = row]
      BY <3>1 DEF CallRow
    <3>3. QED
      <4> HIDE DEF row
      <4> QED BY <2>4, <2>6, <3>1, <3>2
  <2>7. ASSUME NEW asks \in {0, 1}, UNCHANGED spent \/ Answered,
               Goto(c, [old EXCEPT !.pc = "work", !.row.model = @ + asks, !.row.proof = @ + 1])
        PROVE  Record'
    <3> DEFINE row == [old.row EXCEPT !.model = @ + asks, !.proof = @ + 1]
    <3>1. row \in Run /\ row.step = old.row.step /\ row.steps = old.row.steps
      <4>1. old.row.model + asks \in Nat /\ old.row.proof + 1 \in Nat
        BY <2>2 DEF Run
      <4>2. row = [old.row EXCEPT !.model = old.row.model + asks, !.proof = old.row.proof + 1]
        BY <2>2 DEF Run
      <4>3. QED
        BY <2>2, <4>1, <4>2 DEF Run
    <3>2. [old EXCEPT !.pc = "work", !.row.model = @ + asks, !.row.proof = @ + 1]
          = [old EXCEPT !.pc = "work", !.row = row]
      <4>1. [[old EXCEPT !.pc = "work", !.row.model = @ + asks] EXCEPT !.row.proof = @ + 1].row = row
        BY <2>2 DEF CallRow, Run
      <4>2. QED
        BY <2>2, <4>1 DEF CallRow
    <3>3. QED
      <4> HIDE DEF row
      <4> QED BY <2>4, <2>7, <3>1, <3>2
  <2>8. QED
    BY <1>24, <2>1, <2>5, <2>6, <2>7 DEF Prove
<1>25. ASSUME NEW old \in CallRow, Copy(old), old.pc \in Stepping \ {"insert"}, NEW outcome \in Outcomes,
              rows' = [rows EXCEPT ![old.seq] = outcome]
       PROVE  /\ Grow /\ rows' \in [Slots -> StepStatus]
              /\ \A i \in Slots : i <= old.seq => rows'[i] \in Outcomes
              /\ \A i \in Slots : i + 1 \in Slots /\ rows'[i + 1] # "NONE" => rows'[i] \in Outcomes
  <2>1. rows \in [Slots -> StepStatus] /\ old.seq \in Slots /\ outcome # "NONE"
    BY <1>25 DEF Record, TypeOK, CallRow, Outcomes
  <2>2. Grow /\ rows' \in [Slots -> StepStatus]
    BY <1>25, <2>1 DEF Grow, StepStatus
  <2>3. \A i \in Slots : i <= old.seq => rows'[i] \in Outcomes
    BY <1>25, <2>1, <2>2 DEF Copy, Grow, Slots
  <2>4. ASSUME NEW i \in Slots, i + 1 \in Slots, rows'[i + 1] # "NONE" PROVE rows'[i] \in Outcomes
    <3>1. CASE i <= old.seq
      BY <3>1, <2>3
    <3>2. CASE i > old.seq
      BY <3>2, <2>1, <2>2, <2>4, <1>25 DEF Record, RecordComplete, Grow, Slots
    <3>3. QED
      BY <3>1, <3>2, <2>1 DEF Slots
  <2>5. QED
    BY <2>2, <2>3, <2>4
<1>26. ASSUME NEW c \in Calls, NEW old \in CallRow, old = call[c], Copy(old), Finish(c) PROVE Record'
  <2>1. old.pc = "work" /\ old.seq \in Slots /\ old.seq <= MaxSteps /\ old.seq <= old.row.steps + 1
    BY <1>26 DEF Finish, At, Copy, Stepping, CallRow
  <2>2. PICK row : row = Finished(c)
    OBVIOUS
  <2> DEFINE k == [old EXCEPT !.pc = "check", !.row = row]
  <2>4. row \in Run /\ row.step = old.seq /\ row.steps = old.row.steps + 1
    BY <1>26, <2>1, <2>2, FinishedRow DEF Record
  <2>5. run' = row /\ Goto(c, k) /\ UNCHANGED <<verified, history>>
    BY <1>26, <2>2 DEF Finish
  <2>6. /\ Grow /\ rows' \in [Slots -> StepStatus]
        /\ \A i \in Slots : i <= old.seq => rows'[i] \in Outcomes
        /\ \A i \in Slots : i + 1 \in Slots /\ rows'[i + 1] # "NONE" => rows'[i] \in Outcomes
    BY <1>25, <1>26, <2>1 DEF Finish, Stepping
  <2>7. k \in CallRow /\ k.pc = "check" /\ k.seq = old.seq /\ k.row = row
    BY <2>4 DEF CallRow, PCs, Writing
  <2>8. old.row.steps \in Nat
    BY DEF CallRow, Run
  <2> HIDE DEF k
  <2>9. Copy(k)'
    BY <2>1, <2>4, <2>6, <2>7, <2>8 DEF Copy, Stepping, Outcomes, Slots
  <2>10. RecordComplete' /\ run'.step <= run'.steps
    BY <2>1, <2>4, <2>5, <2>6 DEF RecordComplete
  <2>11. QED
    BY <1>26, <2>4, <2>5, <2>6, <2>7, <2>9, <2>10, <1>3
<1>27. ASSUME NEW c \in Calls, NEW old \in CallRow, old = call[c], Copy(old), Fail(c) PROVE Record'
  <2>1. old.pc \in {"work", "fail"} /\ old.seq \in Slots /\ old.seq <= MaxSteps
        /\ old.seq <= old.row.steps + 1
    BY <1>27 DEF Fail, At, Copy, Stepping, CallRow
  <2> DEFINE row == Advanced(old.row, old.seq)
             k == [Idle EXCEPT !.pc = "stop", !.row = row, !.next = "FAILED"]
  <2>2. row \in Run /\ row.step = old.seq /\ row.steps = old.row.steps + 1 /\ old.row.steps \in Nat
    BY <2>1, AdvancedRow DEF CallRow, Run
  <2>3. Goto(c, k) /\ UNCHANGED <<run, verified, history>>
    BY <1>27 DEF Fail, Stopping
  <2> HIDE DEF row
  <2>4. /\ Grow /\ rows' \in [Slots -> StepStatus]
        /\ \A i \in Slots : i <= old.seq => rows'[i] \in Outcomes
        /\ \A i \in Slots : i + 1 \in Slots /\ rows'[i + 1] # "NONE" => rows'[i] \in Outcomes
    <3>1. rows' = [rows EXCEPT ![old.seq] = "FAILED"] /\ "FAILED" \in Outcomes
      BY <1>27 DEF Fail, Outcomes
    <3>2. QED
      BY <1>25, <1>27, <2>1, <3>1 DEF Stepping
  <2>5. k \in CallRow /\ k.pc = "stop" /\ k.row = row
    BY <2>2, <1>5 DEF CallRow, PCs, Writing, Idle, Status
  <2> HIDE DEF k
  <2>6. Copy(k)'
    BY <2>1, <2>2, <2>4, <2>5 DEF Copy, Stepping, Outcomes, Slots
  <2>7. RecordComplete' /\ run'.step <= run'.steps /\ run' \in Run
    BY <2>3, <2>4, <1>9 DEF RecordComplete, Record, Grow
  <2>8. QED
    BY <1>27, <2>3, <2>4, <2>5, <2>6, <2>7, <1>3
<1>28. ASSUME NEW c \in Calls, NEW old \in CallRow, old = call[c], Copy(old),
              Launch(c) \/ Stop(c) \/ Pause(c) \/ Resume(c) \/ Reconcile(c)
       PROVE  Record'
  <2>1. old.pc # "fail" /\ old.next \in Status /\ {"RUNNING", "PAUSED", "READY"} \subseteq Status
    BY <1>28 DEF Launch, Stop, Pause, Resume, Reconcile, At, CallRow, Status, Live
  <2>2. CASE Launch(c)
    BY <1>28, <2>1, <2>2, <1>2, <1>7 DEF Launch
  <2>3. CASE Stop(c)
    BY <1>28, <2>1, <2>3, <1>2, <1>5 DEF Stop
  <2>4. CASE Pause(c)
    BY <1>28, <2>1, <2>4, <1>2, <1>5 DEF Pause
  <2>5. CASE Resume(c)
    BY <1>28, <2>1, <2>5, <1>2, <1>5 DEF Resume
  <2>6. CASE Reconcile(c)
    BY <1>28, <2>1, <2>6, <1>2, <1>5 DEF Reconcile
  <2>7. QED
    BY <1>28, <2>2, <2>3, <2>4, <2>5, <2>6
<1>29. ASSUME NEW c \in Calls, NEW old \in CallRow, old = call[c], Copy(old), Check(c) PROVE Record'
  <2>1. ASSUME NEW next \in {"COMPLETED", "BLOCKED"}, old.pc = "check",
               Goto(c, [old EXCEPT !.pc = "conclude", !.next = next])
        PROVE  Record'
    <3> DEFINE k == [old EXCEPT !.pc = "conclude", !.next = next]
    <3>1. k \in CallRow /\ k.pc = "conclude" /\ k.seq = old.seq /\ k.row = old.row
      BY DEF CallRow, PCs, Writing, Status
    <3>2. UNCHANGED <<run, rows, verified>> /\ made' \in [Slots -> 0 .. 2]
          /\ spent' \in 0 .. MaxModelCalls + 1 /\ killed' \in BOOLEAN
      BY <1>29 DEF Check, Record, TypeOK, history
    <3>3. Goto(c, k)
      BY <2>1
    <3> HIDE DEF k
    <3>4. QED
      BY <1>29, <2>1, <3>1, <3>2, <3>3, <1>21 DEF Stepping
  <2>2. CASE Return(c)
    BY <1>29, <2>2, <1>8, <1>10 DEF Check, history
  <2>3. QED
    BY <1>29, <2>1, <2>2 DEF Check, At
<1>30. ASSUME NEW c \in Calls, NEW old \in CallRow, old = call[c], Copy(old), WriteThrows(c) PROVE Record'
  <2>1. CASE Goto(c, Idle)
    BY <1>30, <2>1, <1>1, <1>5, <1>8 DEF WriteThrows, history
  <2>2. CASE /\ old.pc \in {"dispatch", "conclude"}
             /\ Goto(c, [old EXCEPT !.pc = "fail"])
    <3> DEFINE k == [old EXCEPT !.pc = "fail"]
    <3>1. k \in CallRow /\ k.pc = "fail" /\ k.seq = old.seq /\ k.row = old.row
      BY DEF CallRow, PCs, Writing
    <3>2. UNCHANGED <<run, rows, verified>> /\ made' \in [Slots -> 0 .. 2]
          /\ spent' \in 0 .. MaxModelCalls + 1 /\ killed' \in BOOLEAN
      BY <1>30 DEF WriteThrows, Record, TypeOK, history
    <3>3. Goto(c, k)
      BY <2>2
    <3> HIDE DEF k
    <3>4. QED
      BY <1>30, <2>2, <3>1, <3>2, <3>3, <1>21 DEF Stepping
  <2>3. CASE old.pc = "work" /\ Goto(c, [old EXCEPT !.pc = "fail", !.row = Finished(c)])
    <3>2. PICK row : row = Finished(c)
      OBVIOUS
    <3> DEFINE k == [old EXCEPT !.pc = "fail", !.row = row]
    <3>3. old.row \in Run /\ old.seq \in Slots /\ old.seq <= MaxSteps /\ old.seq <= old.row.steps + 1
      BY <1>30, <2>3 DEF CallRow, Copy, Stepping
    <3>4. row \in Run /\ row.step = old.seq /\ row.steps = old.row.steps + 1
      BY <1>30, <3>2, <3>3, FinishedRow DEF Record
    <3>5. Goto(c, k)
      BY <2>3, <3>2
    <3>6. k \in CallRow /\ k.pc = "fail" /\ k.seq = old.seq /\ k.row = row
      BY <3>4 DEF CallRow, PCs, Writing
    <3> HIDE DEF k
    <3>7. Copy(k)
      BY <1>30, <2>3, <3>3, <3>4, <3>6 DEF Copy, Stepping, Run, Slots
    <3>8. QED
      BY <1>30, <3>5, <3>6, <3>7, <1>1, <1>8 DEF WriteThrows, history
  <2>4. QED
    BY <1>30, <2>1, <2>2, <2>3 DEF WriteThrows, At
<1>31. CASE Restart
  <2>1. Grow /\ rows' \in [Slots -> StepStatus]
    BY <1>31 DEF Restart, Grow, Interrupted, Record, TypeOK, StepStatus, Outcomes
  <2>2. call' = [c \in Calls |-> Idle] /\ UNCHANGED <<verified, made, spent>> /\ killed' = TRUE
    BY <1>31 DEF Restart
  <2>3. run' \in Run /\ run'.step = run.step /\ run'.steps = run.steps
    BY <1>31, <1>9 DEF Restart, Run, Status
  <2>4. \A i \in Slots : rows'[i] # "NONE" => rows[i] # "NONE"
    BY <1>31 DEF Restart, Interrupted, Record, TypeOK
  <2>5. RecordComplete'
    BY <2>1, <2>3, <2>4 DEF Record, RecordComplete, Grow, Slots
  <2>6. Copy(Idle)'
    BY <2>1, <1>5, CopyKept
  <2>7. \A c \in Calls : Copy(call[c])'
    BY <2>2, <2>6 DEF Copy
  <2>8. QED
    BY <2>1, <2>2, <2>3, <2>5, <2>7, <1>5 DEF Record, TypeOK, history
<1>32. CASE Objective \/ UNCHANGED vars
  <2>1. UNCHANGED <<run, rows, call, made, spent, killed>> /\ verified' \in BOOLEAN
    BY <1>32 DEF Objective, vars, history, Record, TypeOK
  <2>2. QED
    BY <2>1 DEF Record, TypeOK, RecordComplete, Copy
<1>33. ASSUME NEW c \in Calls, Advance(c) PROVE Record'
  BY <1>33, <1>4, <1>16, <1>17, <1>18, <1>19, <1>20, <1>22, <1>23, <1>24, <1>26, <1>27, <1>28, <1>29
  DEF Advance
<1>34. QED
  BY <1>4, <1>13, <1>14, <1>16, <1>17, <1>30, <1>31, <1>32, <1>33 DEF Next

\* Every reachable state is well typed; that no step beyond the limit is ever begun is part of it.
THEOREM TypeCorrect == Spec => []TypeOK
<1>1. Record => TypeOK
  BY DEF Record
<1>2. QED
  BY <1>1, InitRecord, NextRecord, PTL DEF Spec

\* The record of the steps has no holes, with any number of controllers in any number of
\* processes, with kills, refused transactions and lost updates.
THEOREM RecordIsComplete == Spec => []RecordComplete
<1>1. Record => RecordComplete
  BY DEF Record
<1>2. QED
  BY <1>1, InitRecord, NextRecord, PTL DEF Spec

-----------------------------------------------------------------------------
(* The budget on record *)

\* Before the outcome of a step is written.
Begun == {"plan", "insert", "dispatch", "work"}

\* Where a call still has to charge a step, there is one left to charge.  A call whose write was
\* refused may charge a second time.
Budgeted(k) ==
  /\ k.row.steps <= MaxSteps + Recharged
  /\ k.row.model <= MaxModelCalls /\ k.row.proof <= MaxProofAttempts + 1
  /\ k.pc \in Begun => k.row.steps < MaxSteps /\ k.row.proof <= MaxProofAttempts
  /\ k.pc = "fail" => k.row.steps < MaxSteps + Recharged
  /\ k.pc \in {"check", "conclude"} => k.row.steps <= MaxSteps

Budget == UsageWithinLimits /\ \A c \in Calls : Budgeted(call[c])

LEMMA RechargedOnce == Recharged \in {0, 1} /\ (WritesFail => Recharged = 1)
BY DEF Recharged

\* A step is charged once, or twice if its write was refused, so what a copy holds stays in the
\* limits until it is written.
LEMMA NextBudget == Record /\ Budget /\ [Next]_vars => Budget'
<1> SUFFICES ASSUME Record, Budget, [Next]_vars PROVE Budget'
  OBVIOUS
<1> USE ConstantsAssumption, RechargedOnce
<1>1. /\ TypeOK /\ run \in Run /\ UsageWithinLimits
      /\ \A c \in Calls : call[c] \in CallRow /\ Copy(call[c]) /\ Budgeted(call[c])
  BY DEF Record, TypeOK, Budget
<1>2. ASSUME NEW c \in Calls, NEW k, Goto(c, k), Budgeted(k), UsageWithinLimits' PROVE Budget'
  BY <1>1, <1>2 DEF Goto, Budget, TypeOK
<1>3. UNCHANGED run => UsageWithinLimits'
  BY <1>1 DEF UsageWithinLimits
<1>4. Budgeted(Idle) /\ Budgeted([Idle EXCEPT !.pc = "loop", !.loop = TRUE])
  BY DEF Budgeted, Idle, NewRun, Begun
<1>5. ASSUME NEW c \in Calls, Return(c), UNCHANGED run PROVE Budget'
  BY <1>2, <1>3, <1>4, <1>5 DEF Return
<1>6. ASSUME NEW c \in Calls, NEW row \in Run, NEW next, Stopping(c, row, next), UNCHANGED run,
             row.steps <= MaxSteps + Recharged, row.model <= MaxModelCalls,
             row.proof <= MaxProofAttempts + 1
      PROVE  Budget'
  <2>1. Budgeted([Idle EXCEPT !.pc = "stop", !.row = row, !.next = next])
    BY <1>6 DEF Budgeted, Idle, Begun
  <2>2. QED
    BY <1>2, <1>3, <1>6, <2>1 DEF Stopping
<1>7. ASSUME NEW c \in Calls, Start(c) \/ \E what \in {"pause", "resume", "reconcile"} : Request(c, what)
      PROVE  Budget'
  <2>1. /\ Budgeted([Idle EXCEPT !.pc = "launch", !.row = run, !.loop = TRUE])
        /\ \A what \in {"pause", "resume", "reconcile"} : Budgeted([Idle EXCEPT !.pc = what, !.row = run])
    BY <1>1 DEF Budgeted, Idle, Begun, UsageWithinLimits
  <2>2. QED
    BY <1>2, <1>3, <1>7, <2>1 DEF Start, Request
<1>8. ASSUME NEW c \in Calls, NEW loop \in BOOLEAN, Enter(c, loop), UNCHANGED run PROVE Budget'
  <2>1. CASE Goto(c, Idle)
    BY <1>2, <1>3, <1>4, <1>8, <2>1
  <2>2. ASSUME NEW next, Stopping(c, run, next) PROVE Budget'
    BY <1>1, <1>6, <1>8, <2>2 DEF UsageWithinLimits
  <2>3. CASE /\ ~Exhausted(run)
             /\ Goto(c, [[Idle EXCEPT !.row = run, !.loop = loop] EXCEPT !.pc = "plan", !.row.model = @ + 1])
    <3> DEFINE k == [[Idle EXCEPT !.row = run, !.loop = loop] EXCEPT !.pc = "plan", !.row.model = @ + 1]
    <3>1. k.row.steps = run.steps /\ k.row.model = run.model + 1 /\ k.row.proof = run.proof
      BY <1>1 DEF Idle, Run
    <3>2. run.steps < MaxSteps /\ run.model + 1 <= MaxModelCalls /\ run.proof < MaxProofAttempts
      BY <1>1, <2>3 DEF Exhausted, Run
    <3>3. Budgeted(k)
      <4> HIDE DEF k
      <4> QED BY <1>1, <3>1, <3>2 DEF Budgeted, Run
    <3>4. QED
      BY <1>2, <1>3, <1>8, <2>3, <3>3
  <2>4. QED
    BY <1>8, <2>1, <2>2, <2>3 DEF Enter
<1>9. ASSUME NEW c \in Calls, NEW old \in CallRow, old = call[c], Budgeted(old), NEW k,
             Goto(c, k), UNCHANGED run, k.row = old.row,
             \/ old.pc \in Begun /\ k.pc \in Begun \union {"fail"}
             \/ old.pc = "check" /\ k.pc = "conclude"
             \/ WritesFail /\ old.pc = "conclude" /\ k.pc = "fail"
      PROVE  Budget'
  <2>1. Budgeted(k)
    BY <1>9 DEF Budgeted, Begun, CallRow, Run
  <2>2. QED
    BY <1>2, <1>3, <1>9, <2>1
<1>10. ASSUME NEW c \in Calls, NEW old \in CallRow, old = call[c], Budgeted(old),
              PlannerThrows(c) \/ PlannerStops(c) \/ (\E kind \in Kinds : Decide(c, kind)) \/ Insert(c)
       PROVE  Budget'
  <2>1. CASE Goto(c, Idle) /\ UNCHANGED run
    BY <1>2, <1>3, <1>4, <2>1
  <2>2. CASE PlannerStops(c)
    BY <1>6, <1>10, <2>2 DEF PlannerStops, Budgeted, CallRow
  <2>3. ASSUME NEW pc \in {"insert", "dispatch"}, NEW seq, NEW kind, old.pc = "plan", UNCHANGED run,
               Goto(c, [[old EXCEPT !.seq = seq, !.kind = kind] EXCEPT !.pc = pc])
        PROVE  Budget'
    <3>1. /\ [[old EXCEPT !.seq = seq, !.kind = kind] EXCEPT !.pc = pc].row = old.row
          /\ [[old EXCEPT !.seq = seq, !.kind = kind] EXCEPT !.pc = pc].pc = pc
      BY DEF CallRow
    <3>2. QED
      BY <1>9, <1>10, <2>3, <3>1 DEF Begun
  <2>4. CASE old.pc = "insert" /\ UNCHANGED run /\ Goto(c, [old EXCEPT !.pc = "dispatch"])
    <3>1. [old EXCEPT !.pc = "dispatch"].row = old.row /\ [old EXCEPT !.pc = "dispatch"].pc = "dispatch"
      BY DEF CallRow
    <3>2. QED
      BY <1>9, <1>10, <2>4, <3>1 DEF Begun
  <2>5. QED
    BY <1>5, <1>10, <2>1, <2>2, <2>3, <2>4 DEF PlannerThrows, Decide, Insert, At
<1>11. ASSUME NEW c \in Calls, NEW old \in CallRow, old = call[c], Budgeted(old), Look(c) \/ Subclaim(c)
       PROVE  Budget'
  <2>1. old.pc = "dispatch" /\ UNCHANGED run /\ Goto(c, [old EXCEPT !.pc = "work"])
    BY <1>11 DEF Look, Subclaim, At
  <2>2. [old EXCEPT !.pc = "work"].row = old.row /\ [old EXCEPT !.pc = "work"].pc = "work"
    BY DEF CallRow
  <2>3. QED
    BY <1>9, <1>11, <2>1, <2>2 DEF Begun
<1>12. ASSUME NEW c \in Calls, NEW old \in CallRow, old = call[c], Budgeted(old),
              NEW body \in BOOLEAN, Prove(c, body)
       PROVE  Budget'
  <2>1. old.pc = "dispatch" /\ old.row \in Run /\ UNCHANGED run
    BY <1>12 DEF Prove, At, CallRow
  <2>2. CASE Goto(c, [old EXCEPT !.pc = "fail"])
    <3>1. [old EXCEPT !.pc = "fail"].row = old.row /\ [old EXCEPT !.pc = "fail"].pc = "fail"
      BY DEF CallRow
    <3>2. QED
      BY <1>9, <1>12, <2>1, <2>2, <3>1 DEF Begun
  <2>3. ASSUME NEW k, Goto(c, k), k.row.steps = old.row.steps, k.row.model <= MaxModelCalls,
               old.row.proof < MaxProofAttempts, k.row.proof = old.row.proof + 1
        PROVE  Budget'
    <3>1. Budgeted(k)
      BY <1>12, <2>1, <2>3 DEF Budgeted, Begun, Run
    <3>2. QED
      BY <1>2, <1>3, <2>1, <2>3, <3>1
  <2>4. CASE old.row.proof < MaxProofAttempts /\ Goto(c, [old EXCEPT !.pc = "fail", !.row.proof = @ + 1])
    <3> DEFINE k == [old EXCEPT !.pc = "fail", !.row.proof = @ + 1]
    <3>1. k.row = [old.row EXCEPT !.proof = @ + 1]
      BY DEF CallRow
    <3>2. k.row.steps = old.row.steps /\ k.row.model = old.row.model /\ k.row.proof = old.row.proof + 1
      BY <2>1, <3>1 DEF Run
    <3> HIDE DEF k
    <3>3. QED
      BY <1>12, <2>3, <2>4, <3>2 DEF Budgeted, k
  <2>5. ASSUME NEW asks \in {0, 1}, old.row.proof < MaxProofAttempts, old.row.model + asks <= MaxModelCalls,
               Goto(c, [old EXCEPT !.pc = "work", !.row.model = @ + asks, !.row.proof = @ + 1])
        PROVE  Budget'
    <3> DEFINE k == [old EXCEPT !.pc = "work", !.row.model = @ + asks, !.row.proof = @ + 1]
    <3>1. k.row = [old.row EXCEPT !.model = @ + asks, !.proof = @ + 1]
      BY <2>1 DEF CallRow, Run
    <3>2. k.row.steps = old.row.steps /\ k.row.model = old.row.model + asks /\ k.row.proof = old.row.proof + 1
      BY <2>1, <3>1 DEF Run
    <3> HIDE DEF k
    <3>3. QED
      BY <2>3, <2>5, <3>2 DEF k
  <2>6. QED
    BY <1>12, <2>2, <2>4, <2>5 DEF Prove
<1>13. ASSUME NEW c \in Calls, NEW old \in CallRow, old = call[c], Budgeted(old),
              Finish(c) \/ (WritesFail /\ UNCHANGED run /\ At(c, "work")
                              /\ Goto(c, [old EXCEPT !.pc = "fail", !.row = Finished(c)]))
       PROVE  Budget'
  <2>1. old.pc = "work" /\ old.seq <= MaxSteps /\ old.row \in Run
    BY <1>1, <1>13 DEF Finish, At, Copy, Stepping, CallRow
  <2>2. PICK row : row = Finished(c)
    OBVIOUS
  <2>3. row.steps = old.row.steps + 1 /\ row.model = old.row.model
        /\ row.proof = old.row.proof + IF old.kind = "prove" THEN 1 ELSE 0
    BY <1>1, <1>13, <2>1, <2>2, FinishedRow
  <2>4. row.steps <= MaxSteps /\ row.model <= MaxModelCalls /\ row.proof <= MaxProofAttempts + 1
    BY <1>13, <2>1, <2>3 DEF Budgeted, Begun, Run
  <2>5. CASE Finish(c)
    <3>1. run' = row /\ Goto(c, [old EXCEPT !.pc = "check", !.row = row])
      BY <1>13, <2>2, <2>5 DEF Finish
    <3>2. Budgeted([old EXCEPT !.pc = "check", !.row = row]) /\ row.steps <= MaxSteps + Recharged
      BY <2>3, <2>1, <2>4 DEF Budgeted, Begun, CallRow, Run
    <3>3. QED
      BY <1>2, <2>4, <3>1, <3>2 DEF UsageWithinLimits
  <2>6. CASE WritesFail /\ UNCHANGED run /\ Goto(c, [old EXCEPT !.pc = "fail", !.row = row])
    <3>1. Budgeted([old EXCEPT !.pc = "fail", !.row = row])
      BY <2>3, <2>1, <2>4, <2>6 DEF Budgeted, Begun, CallRow, Run
    <3>2. QED
      BY <1>2, <1>3, <2>6, <3>1
  <2>7. QED
    BY <1>13, <2>2, <2>5, <2>6
<1>14. ASSUME NEW c \in Calls, NEW old \in CallRow, old = call[c], Budgeted(old), Check(c) PROVE Budget'
  <2>1. ASSUME NEW next, Goto(c, [old EXCEPT !.pc = "conclude", !.next = next]), UNCHANGED run,
               old.pc = "check"
        PROVE  Budget'
    <3>1. /\ [old EXCEPT !.pc = "conclude", !.next = next].row = old.row
          /\ [old EXCEPT !.pc = "conclude", !.next = next].pc = "conclude"
      BY DEF CallRow
    <3>2. QED
      BY <1>9, <1>14, <2>1, <3>1 DEF Begun
  <2>2. QED
    BY <1>5, <1>14, <2>1 DEF Check, At
<1>15. ASSUME NEW c \in Calls, NEW old \in CallRow, old = call[c], Budgeted(old), Fail(c) PROVE Budget'
  <2>1. old.pc \in {"work", "fail"} /\ old.seq \in Slots /\ old.seq <= MaxSteps /\ old.row \in Run
    BY <1>1, <1>15 DEF Fail, At, Copy, Stepping, CallRow
  <2>2. PICK row : row = Advanced(old.row, old.seq)
    OBVIOUS
  <2>3. row \in Run /\ row.steps = old.row.steps + 1 /\ row.model = old.row.model /\ row.proof = old.row.proof
    BY <2>1, <2>2, AdvancedRow
  <2>4. row.steps <= MaxSteps + Recharged /\ row.model <= MaxModelCalls /\ row.proof <= MaxProofAttempts + 1
    BY <1>15, <2>1, <2>3 DEF Budgeted, Begun, Run
  <2>5. QED
    BY <1>6, <1>15, <2>2, <2>3, <2>4 DEF Fail
<1>16. ASSUME NEW c \in Calls, NEW old \in CallRow, old = call[c], Budgeted(old),
              Launch(c) \/ Stop(c) \/ Pause(c) \/ Resume(c) \/ Reconcile(c)
       PROVE  Budget'
  <2>1. PICK next : run' = [old.row EXCEPT !.status = next]
    BY <1>16 DEF Launch, Stop, Pause, Resume, Reconcile
  <2>2. run'.steps = old.row.steps /\ run'.model = old.row.model /\ run'.proof = old.row.proof
    BY <2>1 DEF CallRow, Run
  <2>3. UsageWithinLimits'
    BY <1>16, <2>2 DEF UsageWithinLimits, Budgeted
  <2>4. QED
    BY <1>2, <1>4, <1>16, <2>3 DEF Launch, Stop, Pause, Resume, Reconcile
<1>17. ASSUME NEW c \in Calls, Kill(c) \/ StepOnce(c) \/ Loop(c) PROVE Budget'
  BY <1>2, <1>3, <1>4, <1>8, <1>17 DEF Kill, StepOnce, Loop
<1>18. CASE Restart
  <2>1. run'.steps = run.steps /\ run'.model = run.model /\ run'.proof = run.proof
    BY <1>1, <1>18 DEF Restart, Run
  <2>2. QED
    BY <1>1, <1>4, <1>18, <2>1 DEF Restart, Budget, UsageWithinLimits
<1>19. CASE Objective \/ UNCHANGED vars
  BY <1>1, <1>19 DEF Objective, vars, Budget, UsageWithinLimits
<1>20. ASSUME NEW c \in Calls, WriteThrows(c) PROVE Budget'
  <2> DEFINE old == call[c]
  <2>1. /\ WritesFail /\ UNCHANGED run /\ old \in CallRow /\ Budgeted(old)
        /\ \/ Goto(c, Idle)
           \/ At(c, "work") /\ Goto(c, [old EXCEPT !.pc = "fail", !.row = Finished(c)])
           \/ old.pc \in {"dispatch", "conclude"} /\ Goto(c, [old EXCEPT !.pc = "fail"])
    BY <1>1, <1>20 DEF WriteThrows, At
  <2>2. [old EXCEPT !.pc = "fail"].row = old.row /\ [old EXCEPT !.pc = "fail"].pc = "fail"
    BY <2>1 DEF CallRow
  <2> HIDE DEF old
  <2>3. QED
    BY <1>2, <1>3, <1>4, <1>9, <1>13, <2>1, <2>2 DEF Begun, old
<1>21. ASSUME NEW c \in Calls, Advance(c) PROVE Budget'
  BY <1>1, <1>10, <1>11, <1>12, <1>13, <1>14, <1>15, <1>16, <1>17, <1>21 DEF Advance
<1>22. QED
  BY <1>7, <1>17, <1>18, <1>19, <1>20, <1>21 DEF Next

\* The budget on record is never overdrawn by more than the attempt that is counted twice, and the
\* step whose write was refused, however many controllers lose each other's updates.
THEOREM UsageStaysWithinLimits == Spec => []UsageWithinLimits
<1>1. Init => Budget
  BY ConstantsAssumption, RechargedOnce
     DEF Init, Budget, UsageWithinLimits, Budgeted, NewRun, Idle, Begun
<1>2. Budget => UsageWithinLimits
  BY DEF Budget
<1>3. QED
  BY <1>1, <1>2, InitRecord, NextRecord, NextBudget, PTL DEF Spec

-----------------------------------------------------------------------------
(* Completion, in one process *)

\* Between the look at the objective and the write of the run nothing else happens.
Earned == \A c \in Calls : call[c].pc \in {"stop", "conclude"} /\ call[c].next = "COMPLETED" => verified

LEMMA NextEarned ==
  ~MultiProcess /\ TypeOK /\ Earned /\ [Next]_vars =>
    Earned' /\ (run.status # "COMPLETED" /\ run'.status = "COMPLETED" => verified)
<1> SUFFICES ASSUME ~MultiProcess, TypeOK, Earned, [Next]_vars
             PROVE  Earned' /\ (run'.status = "COMPLETED" => run.status = "COMPLETED" \/ verified)
  OBVIOUS
<1> DEFINE Goal == Earned' /\ (run'.status = "COMPLETED" => run.status = "COMPLETED" \/ verified)
<1>1. run \in Run /\ \A c \in Calls : call[c] \in CallRow
  BY DEF TypeOK
<1>2. ASSUME NEW c \in Calls, NEW k, Goto(c, k), UNCHANGED verified,
             k.pc \in {"stop", "conclude"} /\ k.next = "COMPLETED" => verified
      PROVE  Earned'
  BY <1>2 DEF Goto, Earned, TypeOK
<1>3. ASSUME NEW c \in Calls, Goto(c, Idle) \/ Return(c), UNCHANGED verified PROVE Earned'
  BY <1>2, <1>3 DEF Idle, Return
<1>4. ASSUME NEW c \in Calls, NEW row, NEW next, Stopping(c, row, next), UNCHANGED verified,
             next = "COMPLETED" => verified
      PROVE  Earned'
  <2>1. [Idle EXCEPT !.pc = "stop", !.row = row, !.next = next].next = next
    BY DEF Idle
  <2>2. QED
    BY <1>2, <1>4, <2>1 DEF Stopping
<1>5. ASSUME NEW c \in Calls, Start(c) \/ \E what \in {"pause", "resume", "reconcile"} : Request(c, what)
      PROVE  Goal
  <2>1. UNCHANGED <<run, verified>>
    BY <1>5 DEF Start, Request
  <2>2. [Idle EXCEPT !.pc = "launch", !.row = run, !.loop = TRUE].pc = "launch"
        /\ \A what \in {"pause", "resume", "reconcile"} : [Idle EXCEPT !.pc = what, !.row = run].pc = what
    BY DEF Idle
  <2>3. QED
    BY <1>2, <1>5, <2>1, <2>2 DEF Start, Request
<1>6. ASSUME NEW c \in Calls, NEW loop \in BOOLEAN, Enter(c, loop), UNCHANGED <<run, verified>> PROVE Goal
  <2>1. [[Idle EXCEPT !.row = run, !.loop = loop] EXCEPT !.pc = "plan", !.row.model = @ + 1].pc = "plan"
    BY DEF Idle
  <2>2. QED
    BY <1>2, <1>3, <1>4, <1>6, <2>1 DEF Enter
<1>7. ASSUME NEW c \in Calls, NEW old \in CallRow, old = call[c],
             PlannerThrows(c) \/ PlannerStops(c) \/ (\E kind \in Kinds : Decide(c, kind)) \/ Insert(c)
      PROVE  Goal
  <2>1. UNCHANGED <<run, verified>>
    BY <1>7 DEF PlannerThrows, PlannerStops, Decide, Insert
  <2>2. \A pc \in {"insert", "dispatch"} : \A seq, kind :
          /\ [[old EXCEPT !.seq = seq, !.kind = kind] EXCEPT !.pc = pc].pc = pc
          /\ [old EXCEPT !.pc = pc].pc = pc
    BY DEF CallRow
  <2>3. CASE PlannerStops(c)
    BY <1>4, <2>1, <2>3 DEF PlannerStops
  <2>4. QED
    BY <1>2, <1>3, <1>7, <2>1, <2>2, <2>3 DEF PlannerThrows, Decide, Insert
<1>8. ASSUME NEW c \in Calls, NEW old \in CallRow, old = call[c],
             Look(c) \/ Subclaim(c) \/ (\E body \in BOOLEAN : Prove(c, body))
      PROVE  Goal
  <2>1. UNCHANGED <<run, verified>>
    BY <1>8 DEF Look, Subclaim, Prove
  <2>2. PICK k : Goto(c, k) /\ k.pc \in {"work", "fail"}
    <3>1. \A asks \in {0, 1} :
            [old EXCEPT !.pc = "work", !.row.model = @ + asks, !.row.proof = @ + 1].pc = "work"
      BY DEF CallRow
    <3>2. /\ [old EXCEPT !.pc = "fail", !.row.proof = @ + 1].pc = "fail"
          /\ [old EXCEPT !.pc = "fail"].pc = "fail" /\ [old EXCEPT !.pc = "work"].pc = "work"
      BY DEF CallRow
    <3>3. QED
      BY <1>8, <3>1, <3>2 DEF Look, Subclaim, Prove
  <2>3. QED
    BY <1>2, <2>1, <2>2
<1>9. ASSUME NEW c \in Calls, NEW old \in CallRow, old = call[c], Finish(c) PROVE Goal
  <2>1. PICK row : row = Finished(c)
    OBVIOUS
  <2>2. row.status = "RUNNING"
    <3>1. PICK base, n : row = [base EXCEPT !.status = "RUNNING", !.proof = @ + n] /\ base = Advanced(old.row, old.seq)
      BY <1>9, <2>1 DEF Finished
    <3>2. base = [old.row EXCEPT !.step = old.seq, !.steps = @ + 1] /\ old.row \in Run
      BY <3>1 DEF Advanced, CallRow
    <3>3. QED
      BY <3>1, <3>2 DEF Run
  <2>3. [old EXCEPT !.pc = "check", !.row = row].pc = "check"
    BY DEF CallRow
  <2>4. QED
    BY <1>2, <1>9, <2>1, <2>2, <2>3 DEF Finish
<1>10. ASSUME NEW c \in Calls, NEW old \in CallRow, old = call[c], Check(c) PROVE Goal
  <2>1. \A next : [old EXCEPT !.pc = "conclude", !.next = next].next = next
    BY DEF CallRow
  <2>2. QED
    BY <1>2, <1>3, <1>10, <2>1 DEF Check
<1>11. ASSUME NEW c \in Calls, Fail(c) PROVE Goal
  BY <1>4, <1>11 DEF Fail
<1>12. ASSUME NEW c \in Calls, NEW old \in CallRow, old = call[c],
              Launch(c) \/ Stop(c) \/ Pause(c) \/ Resume(c) \/ Reconcile(c)
       PROVE  Goal
  <2>1. PICK next : run' = [old.row EXCEPT !.status = next] /\ (next = "COMPLETED" => verified)
    BY <1>12 DEF Launch, Stop, Pause, Resume, Reconcile, At, Earned
  <2>2. run'.status = "COMPLETED" => verified
    BY <2>1 DEF CallRow, Run
  <2>3. [Idle EXCEPT !.pc = "loop", !.loop = TRUE].pc = "loop"
    BY DEF Idle
  <2>4. QED
    BY <1>2, <1>3, <1>12, <2>2, <2>3 DEF Launch, Stop, Pause, Resume, Reconcile
<1>13. ASSUME NEW c \in Calls, NEW old \in CallRow, old = call[c], WriteThrows(c) PROVE Goal
  <2>1. \A row : [old EXCEPT !.pc = "fail", !.row = row].pc = "fail" /\ [old EXCEPT !.pc = "fail"].pc = "fail"
    BY DEF CallRow
  <2>2. QED
    BY <1>2, <1>3, <1>13, <2>1 DEF WriteThrows
<1>14. ASSUME NEW c \in Calls, StepOnce(c) \/ Loop(c) PROVE Goal
  BY <1>3, <1>6, <1>14 DEF StepOnce, Loop
<1>15. CASE Restart
  <2>1. run'.status # "COMPLETED" \/ run' = run
    BY <1>1, <1>15 DEF Restart, Run
  <2>2. QED
    BY <1>15, <2>1 DEF Restart, Earned, Idle
<1>16. CASE Objective \/ UNCHANGED vars
  BY <1>16 DEF Objective, vars, Earned, Writing
<1>17. ASSUME NEW c \in Calls, Advance(c) PROVE Goal
  BY <1>1, <1>7, <1>8, <1>9, <1>10, <1>11, <1>12, <1>14, <1>17 DEF Advance
<1>18. QED
  BY <1>1, <1>5, <1>13, <1>14, <1>15, <1>16, <1>17 DEF Next, Kill

\* Within one process a run completes only while its objective is verified, whatever throws, is
\* refused or is restarted.
THEOREM CompletionIsEarned == ~MultiProcess /\ Spec => CompletionEarned
<1>1. Init => Earned
  BY DEF Init, Earned, Idle
<1>2. CASE ~MultiProcess
  <2>1. TypeOK /\ Earned /\ [Next]_vars =>
          Earned' /\ [run.status # "COMPLETED" /\ run'.status = "COMPLETED" => verified]_vars
    BY <1>2, NextEarned
  <2>2. QED
    BY <1>1, <2>1, TypeCorrect, PTL DEF Spec, CompletionEarned
<1>3. QED
  BY <1>2

-----------------------------------------------------------------------------
(* One controller in one process *)

Single == ~MultiProcess /\ ~WritesFail /\ \A c, d \in Controllers : c = d

SameCount(row, other) ==
  row.step = other.step /\ row.steps = other.steps /\ row.model = other.model /\ row.proof = other.proof
Ahead(row, other) ==
  row.step >= other.step /\ row.steps >= other.steps /\ row.model >= other.model /\ row.proof >= other.proof

\* Where the outcome of the step in hand is still to come.
Charging == {"plan", "insert", "dispatch", "work", "fail"}

\* A copy is at most the step in hand ahead of the row of the run, and that step has no outcome yet.
Fresh(k) ==
  /\ k.pc \in {"launch", "pause", "resume", "reconcile"} => SameCount(k.row, run)
  /\ k.pc \notin {"idle", "loop"} => Ahead(k.row, run)
  /\ k.pc \in Charging => k.row.step = run.step
  /\ k.pc \in Charging \ {"plan"} => k.seq = run.step + 1 /\ rows[k.seq] \notin Outcomes

Resting == {"idle", "loop", "plan", "work"}

\* The controller is alone in its stretches, and only it steps.
Alone ==
  /\ OneStepAhead
  /\ \A c \in Calls : Fresh(call[c])
  /\ \A c, d \in Calls : c # d => call[c].pc \in Resting \/ call[d].pc \in Resting
  /\ \A c \in Calls : call[c].pc \in {"idle", "pause", "resume", "reconcile"} \/ c \in Controllers

\* What a step may do to the record: NothingTakenBack.
Forward ==
  /\ \A i \in Slots : rows[i] \in Outcomes => rows'[i] = rows[i]
  /\ Ahead(run', run)

\* Nobody else is in the middle of a stretch when a call moves; with the one controller moving
\* nobody else steps.
LEMMA OthersRest ==
  ASSUME Single, TypeOK, Alone, NEW c \in Calls, NEW pc, At(c, pc), NEW d \in Calls, d # c
  PROVE  call[d].pc \in Resting /\ (c \in Controllers => call[d].pc = "idle")
<1>1. call[d].pc \in PCs /\ call[d].pc \notin Writing
  BY DEF At, Single, TypeOK, CallRow
<1>2. call[d].pc \in Resting
  BY <1>1 DEF PCs, Resting
<1>3. c \in Controllers => d \notin Controllers
  BY DEF Single
<1>4. QED
  BY <1>1, <1>2, <1>3 DEF Alone, Writing

\* A step that leaves the counts alone and gives no step an outcome leaves the copies fresh.
LEMMA FreshKept ==
  ASSUME NEW k \in CallRow, Fresh(k), SameCount(run', run),
         \A i \in Slots : rows[i] \notin Outcomes => rows'[i] \notin Outcomes
  PROVE  Fresh(k)'
BY DEF Fresh, SameCount, Ahead, CallRow, Charging

\* A move of one call that leaves the counts alone and gives no step an outcome.
LEMMA QuietMove ==
  ASSUME Single, TypeOK, Alone, NEW c \in Calls, NEW k, Goto(c, k), SameCount(run', run),
         \A i \in Slots : rows[i] \notin Outcomes => rows'[i] \notin Outcomes,
         \A i \in Slots : i > run.step + 1 => rows'[i] = rows[i] \/ rows[i] # "NONE",
         Fresh(k)',
         k.pc \in Resting \/ \A d \in Calls : d # c => call[d].pc \in Resting,
         k.pc \in {"idle", "pause", "resume", "reconcile"} \/ c \in Controllers
  PROVE  Alone'
<1>1. call' = [call EXCEPT ![c] = k] /\ call \in [Calls -> CallRow]
  BY DEF Goto, TypeOK
<1>2. OneStepAhead'
  BY DEF Alone, OneStepAhead, SameCount
<1>3. ASSUME NEW d \in Calls PROVE Fresh(call[d])'
  <2>1. CASE d = c
    <3>1. call'[d] = k
      BY <1>1, <2>1
    <3>2. QED
      BY <3>1 DEF Fresh
  <2>2. CASE d # c
    <3>1. PICK old \in CallRow : old = call[d] /\ Fresh(old)
      BY <1>1 DEF Alone
    <3>2. Fresh(old)' /\ call'[d] = old
      BY <1>1, <2>2, <3>1, FreshKept
    <3>3. QED
      BY <3>2 DEF Fresh
  <2>3. QED
    BY <2>1, <2>2
<1>4. ASSUME NEW d \in Calls, NEW e \in Calls, d # e
      PROVE  call'[d].pc \in Resting \/ call'[e].pc \in Resting
  BY <1>1, <1>4 DEF Alone
<1>5. ASSUME NEW d \in Calls
      PROVE  call'[d].pc \in {"idle", "pause", "resume", "reconcile"} \/ d \in Controllers
  BY <1>1 DEF Alone
<1>6. QED
  BY <1>2, <1>3, <1>4, <1>5 DEF Alone

\* A move of the controller, while the others are idle.
LEMMA LoneMove ==
  ASSUME Single, TypeOK, Alone, NEW c \in Controllers, NEW k, Goto(c, k), Fresh(k)',
         OneStepAhead', \A d \in Calls : d # c => call[d].pc = "idle"
  PROVE  Alone'
<1>1. c \in Calls /\ call' = [call EXCEPT ![c] = k] /\ call \in [Calls -> CallRow]
  BY ConstantsAssumption DEF Goto, TypeOK
<1>2. ASSUME NEW d \in Calls PROVE Fresh(call[d])'
  <2>1. CASE d = c
    <3>1. call'[d] = k
      BY <1>1, <2>1
    <3>2. QED
      BY <3>1 DEF Fresh
  <2>2. CASE d # c
    <3>1. call'[d].pc = "idle"
      BY <1>1, <2>2
    <3>2. QED
      BY <3>1 DEF Fresh, Charging
  <2>3. QED
    BY <2>1, <2>2
<1>3. ASSUME NEW d \in Calls, NEW e \in Calls, d # e
      PROVE  call'[d].pc \in Resting \/ call'[e].pc \in Resting
  BY <1>1, <1>3 DEF Resting
<1>4. ASSUME NEW d \in Calls
      PROVE  call'[d].pc \in {"idle", "pause", "resume", "reconcile"} \/ d \in Controllers
  BY <1>1 DEF Alone
<1>5. QED
  BY <1>2, <1>3, <1>4 DEF Alone

LEMMA NextAlone == Single /\ Record /\ Alone /\ [Next]_vars => Alone' /\ Forward
<1> SUFFICES ASSUME Single, Record, Alone, [Next]_vars PROVE Alone' /\ Forward
  OBVIOUS
<1> USE ConstantsAssumption
<1> DEFINE Goal == Alone' /\ Forward
<1>1. /\ TypeOK /\ run \in Run /\ rows \in [Slots -> StepStatus] /\ Controllers \subseteq Calls
      /\ \A c \in Calls : call[c] \in CallRow /\ Copy(call[c]) /\ Fresh(call[c])
  BY DEF Record, TypeOK, Alone
<1>2. SameCount(run, run) /\ Ahead(run, run)
  BY <1>1 DEF SameCount, Ahead, Run
<1>3. ASSUME NEW c \in Calls, NEW k, Goto(c, k), UNCHANGED <<run, rows>>, Fresh(k),
             k.pc \in Resting \/ \A d \in Calls : d # c => call[d].pc \in Resting,
             k.pc \in {"idle", "pause", "resume", "reconcile"} \/ c \in Controllers
      PROVE  Goal
  <2>1. Fresh(k)' /\ SameCount(run', run) /\ Forward
    BY <1>2, <1>3 DEF Fresh, Forward
  <2>2. QED
    BY <1>1, <1>3, <2>1, QuietMove
<1>4. ASSUME NEW c \in Calls, Free(c)
      PROVE  \A d \in Calls : d # c => call[d].pc \in Resting
  BY <1>1, <1>4 DEF Free, Single, CallRow, PCs, Resting
<1>5. ASSUME NEW c \in Calls, NEW pc, At(c, pc)
      PROVE  /\ \A d \in Calls : d # c => call[d].pc \in Resting
             /\ pc \notin {"idle", "pause", "resume", "reconcile"} =>
                  c \in Controllers /\ \A d \in Calls : d # c => call[d].pc = "idle"
  BY <1>1, <1>5, OthersRest DEF Alone, At
<1>6. Fresh(Idle) /\ Fresh([Idle EXCEPT !.pc = "loop", !.loop = TRUE])
      /\ Idle.pc = "idle" /\ [Idle EXCEPT !.pc = "loop", !.loop = TRUE].pc = "loop"
  BY DEF Fresh, Idle, Charging
<1>7. ASSUME NEW c \in Calls, Goto(c, Idle), UNCHANGED <<run, rows>> PROVE Goal
  BY <1>3, <1>6, <1>7 DEF Resting
<1>8. ASSUME NEW c \in Controllers, Return(c), UNCHANGED <<run, rows>> PROVE Goal
  BY <1>1, <1>3, <1>6, <1>7, <1>8 DEF Return, Resting
<1>9. ASSUME NEW c \in Controllers, NEW row, NEW next, Stopping(c, row, next), Ahead(row, run),
             UNCHANGED <<run, rows>>, \A d \in Calls : d # c => call[d].pc \in Resting
      PROVE  Goal
  <2>1. LET k == [Idle EXCEPT !.pc = "stop", !.row = row, !.next = next]
        IN  k.pc = "stop" /\ Fresh(k)
    BY <1>9 DEF Fresh, Idle, Charging
  <2>2. QED
    BY <1>1, <1>3, <1>9, <2>1 DEF Stopping
<1>10. ASSUME NEW c \in Calls, Start(c) \/ \E what \in {"pause", "resume", "reconcile"} : Request(c, what)
       PROVE  Goal
  <2>1. LET k == [Idle EXCEPT !.pc = "launch", !.row = run, !.loop = TRUE]
        IN  k.pc = "launch" /\ Fresh(k)
    BY <1>2 DEF Fresh, Idle, Charging
  <2>2. \A what \in {"pause", "resume", "reconcile"} :
          LET k == [Idle EXCEPT !.pc = what, !.row = run] IN k.pc = what /\ Fresh(k)
    BY <1>2 DEF Fresh, Idle, Charging
  <2>3. QED
    BY <1>3, <1>4, <1>10, <2>1, <2>2 DEF Start, Request
<1>11. ASSUME NEW c \in Controllers, NEW loop \in BOOLEAN, Enter(c, loop), UNCHANGED <<run, rows>>,
              \A d \in Calls : d # c => call[d].pc \in Resting
       PROVE  Goal
  <2> DEFINE k == [[Idle EXCEPT !.row = run, !.loop = loop] EXCEPT !.pc = "plan", !.row.model = @ + 1]
  <2>1. k.pc = "plan" /\ k.row.step = run.step /\ k.row.steps = run.steps /\ k.row.model = run.model + 1
        /\ k.row.proof = run.proof
    BY <1>1 DEF Idle, Run
  <2>2. Fresh(k)
    <3> HIDE DEF k
    <3> QED BY <1>1, <2>1 DEF Fresh, Ahead, Charging, Run
  <2>3. CASE Goto(c, k)
    BY <1>1, <1>3, <1>11, <2>1, <2>2, <2>3 DEF Resting
  <2>4. QED
    BY <1>1, <1>2, <1>7, <1>9, <1>11, <2>3 DEF Enter
<1>12. ASSUME NEW c \in Calls, StepOnce(c) \/ Loop(c) PROVE Goal
  <2>1. CASE StepOnce(c)
    BY <1>4, <1>11, <2>1 DEF StepOnce
  <2>2. CASE Loop(c)
    <3>1. At(c, "loop") /\ UNCHANGED <<run, rows>>
      BY <2>2 DEF Loop
    <3>2. c \in Controllers /\ \A d \in Calls : d # c => call[d].pc \in Resting
      BY <1>5, <3>1
    <3>3. QED
      BY <1>7, <1>11, <2>2, <3>1, <3>2 DEF Loop
  <2>3. QED
    BY <1>12, <2>1, <2>2
<1>13. ASSUME NEW c \in Calls, NEW pc, At(c, pc), pc \notin {"idle", "pause", "resume", "reconcile"},
              NEW k, Goto(c, k), UNCHANGED <<run, rows>>, Fresh(k)
       PROVE  Goal
  BY <1>3, <1>5, <1>13
<1>14. ASSUME NEW c \in Calls, NEW old \in CallRow, old = call[c], NEW k, Goto(c, k),
              UNCHANGED <<run, rows>>, At(c, old.pc), old.pc \in Charging \ {"plan"},
              k.pc \in Charging \union {"conclude"}, k.seq = old.seq, Ahead(k.row, old.row),
              k.row.step = old.row.step, k.row.steps \in Nat, k.row.model \in Nat, k.row.proof \in Nat
       PROVE  Goal
  <2>1. Fresh(old) /\ old.row \in Run
    BY <1>1, <1>14 DEF CallRow
  <2>2. Fresh(k)
    BY <1>1, <1>14, <2>1 DEF Fresh, Ahead, Charging, Run
  <2>3. QED
    BY <1>13, <1>14, <2>2 DEF Charging
<1>15. ASSUME NEW c \in Calls, NEW kind \in Kinds, Decide(c, kind) PROVE Goal
  <2>1. PICK old \in CallRow : old = call[c]
    BY <1>1
  <2>2. At(c, "plan") /\ old.pc = "plan" /\ Fresh(old) /\ UNCHANGED <<run, rows>> /\ c \in Controllers
    BY <1>1, <1>5, <1>15, <2>1 DEF Decide, At
  <2> DEFINE seq == old.row.step + 1
  <2>3. ASSUME NEW pc \in {"insert", "dispatch"}, rows[seq] \notin Outcomes,
               Goto(c, [[old EXCEPT !.seq = seq, !.kind = kind] EXCEPT !.pc = pc])
        PROVE  Goal
    <3> DEFINE k == [[old EXCEPT !.seq = seq, !.kind = kind] EXCEPT !.pc = pc]
    <3>1. k.pc = pc /\ k.seq = seq /\ k.row = old.row
      BY DEF CallRow
    <3>2. Fresh(k)
      <4> HIDE DEF k
      <4> QED BY <2>2, <2>3, <3>1 DEF Fresh, Charging
    <3>3. QED
      BY <1>13, <2>2, <2>3, <3>2
  <2>4. QED
    BY <1>8, <1>15, <2>1, <2>2, <2>3 DEF Decide, Outcomes
<1>16. ASSUME NEW c \in Calls, PlannerThrows(c) \/ PlannerStops(c) PROVE Goal
  <2>1. CASE PlannerThrows(c)
    BY <1>7, <2>1 DEF PlannerThrows
  <2>2. CASE PlannerStops(c)
    <3>1. At(c, "plan") /\ call[c].pc = "plan" /\ UNCHANGED <<run, rows>>
      BY <2>2 DEF PlannerStops, At
    <3>2. c \in Controllers /\ Ahead(call[c].row, run) /\ \A d \in Calls : d # c => call[d].pc \in Resting
      BY <1>1, <1>5, <3>1 DEF Fresh
    <3>3. QED
      BY <1>9, <2>2, <3>1, <3>2 DEF PlannerStops
  <2>3. QED
    BY <1>16, <2>1, <2>2
<1>17. ASSUME NEW c \in Calls, NEW old \in CallRow, old = call[c], Insert(c) PROVE Goal
  <2>1. At(c, "insert") /\ old.pc = "insert" /\ Fresh(old) /\ c \in Controllers /\ old.seq \in Slots
        /\ \A d \in Calls : d # c => call[d].pc \in Resting
    BY <1>1, <1>5, <1>17 DEF Insert, At, CallRow
  <2>2. CASE rows[old.seq] = "NONE"
    <3> DEFINE k == [old EXCEPT !.pc = "dispatch"]
    <3>1. k.pc = "dispatch" /\ k.seq = old.seq /\ k.row = old.row
      BY DEF CallRow
    <3>2. /\ rows' = [rows EXCEPT ![old.seq] = "RUNNING"] /\ Goto(c, k) /\ UNCHANGED run
      BY <1>17, <2>2 DEF Insert
    <3>3. old.seq = run.step + 1
      BY <2>1 DEF Fresh, Charging
    <3>4. \A i \in Slots : /\ rows[i] \notin Outcomes => rows'[i] \notin Outcomes
                           /\ rows[i] \in Outcomes => rows'[i] = rows[i]
                           /\ i > run.step + 1 => rows'[i] = rows[i]
      BY <1>1, <2>2, <3>2, <3>3 DEF Outcomes, Run
    <3>5. Fresh(k)'
      <4> HIDE DEF k
      <4> QED BY <1>1, <2>1, <3>1, <3>2, <3>4 DEF Fresh, Charging
    <3>6. Forward
      BY <1>2, <3>2, <3>4 DEF Forward
    <3>7. SameCount(run', run)
      BY <1>2, <3>2
    <3> HIDE DEF k
    <3>8. QED
      BY <1>1, <2>1, <3>1, <3>2, <3>4, <3>5, <3>6, <3>7, QuietMove
  <2>3. CASE rows[old.seq] # "NONE"
    BY <1>7, <1>17, <2>3 DEF Insert
  <2>4. QED
    BY <2>2, <2>3
<1>18. ASSUME NEW c \in Calls, NEW old \in CallRow, old = call[c], Look(c) \/ Subclaim(c) PROVE Goal
  <2>1. /\ At(c, "dispatch") /\ old.pc = "dispatch" /\ UNCHANGED <<run, rows>>
        /\ Goto(c, [old EXCEPT !.pc = "work"])
    BY <1>18 DEF Look, Subclaim, At
  <2>2. LET k == [old EXCEPT !.pc = "work"] IN k.pc = "work" /\ k.seq = old.seq /\ k.row = old.row
    BY DEF CallRow
  <2>3. old.row \in Run /\ Ahead(old.row, old.row)
    BY DEF CallRow, Run, Ahead
  <2>4. QED
    BY <1>14, <1>18, <2>1, <2>2, <2>3 DEF Charging, Run
<1>19. ASSUME NEW c \in Calls, NEW old \in CallRow, old = call[c], NEW body \in BOOLEAN, Prove(c, body)
       PROVE  Goal
  <2>1. At(c, "dispatch") /\ old.pc = "dispatch" /\ UNCHANGED <<run, rows>> /\ old.row \in Run
    BY <1>19 DEF Prove, At, CallRow
  <2>2. ASSUME NEW k, Goto(c, k), k.pc \in {"work", "fail"}, k.seq = old.seq, k.row \in Run,
               Ahead(k.row, old.row), k.row.step = old.row.step
        PROVE  Goal
    BY <1>14, <1>19, <2>1, <2>2 DEF Charging, Run
  <2>3. CASE Goto(c, [old EXCEPT !.pc = "fail"])
    <3>1. LET k == [old EXCEPT !.pc = "fail"] IN k.pc = "fail" /\ k.seq = old.seq /\ k.row = old.row
      BY DEF CallRow
    <3>2. Ahead(old.row, old.row)
      BY <2>1 DEF Ahead, Run
    <3>3. QED
      BY <2>1, <2>2, <2>3, <3>1, <3>2
  <2>4. CASE Goto(c, [old EXCEPT !.pc = "fail", !.row.proof = @ + 1])
    <3> DEFINE k == [old EXCEPT !.pc = "fail", !.row.proof = @ + 1]
    <3>1. k.row = [old.row EXCEPT !.proof = @ + 1] /\ k.pc = "fail" /\ k.seq = old.seq
      BY DEF CallRow
    <3>2. k.row \in Run /\ Ahead(k.row, old.row) /\ k.row.step = old.row.step
      BY <2>1, <3>1 DEF Run, Ahead
    <3> HIDE DEF k
    <3>3. QED
      BY <2>2, <2>4, <3>1, <3>2 DEF k
  <2>5. ASSUME NEW asks \in {0, 1},
               Goto(c, [old EXCEPT !.pc = "work", !.row.model = @ + asks, !.row.proof = @ + 1])
        PROVE  Goal
    <3> DEFINE k == [old EXCEPT !.pc = "work", !.row.model = @ + asks, !.row.proof = @ + 1]
    <3>1. k.row = [old.row EXCEPT !.model = @ + asks, !.proof = @ + 1] /\ k.pc = "work" /\ k.seq = old.seq
      BY <2>1 DEF CallRow, Run
    <3>2. old.row.model + asks \in Nat /\ old.row.proof + 1 \in Nat
      BY <2>1 DEF Run
    <3>3. k.row = [old.row EXCEPT !.model = old.row.model + asks, !.proof = old.row.proof + 1]
      BY <2>1, <3>1 DEF Run
    <3>4. k.row \in Run /\ Ahead(k.row, old.row) /\ k.row.step = old.row.step
      <4> HIDE DEF k
      <4>1. /\ k.row \in Run /\ k.row.step = old.row.step /\ k.row.steps = old.row.steps
            /\ k.row.model = old.row.model + asks /\ k.row.proof = old.row.proof + 1
        BY <2>1, <3>2, <3>3 DEF Run
      <4>2. asks \in Nat /\ old.row.model \in Nat /\ old.row.proof \in Nat
            /\ old.row.step \in Int /\ old.row.steps \in Nat
        BY <2>1 DEF Run
      <4>3. QED
        BY <4>1, <4>2 DEF Ahead
    <3> HIDE DEF k
    <3>5. QED
      BY <2>2, <2>5, <3>1, <3>4 DEF k
  <2>6. QED
    BY <1>19, <2>3, <2>4, <2>5 DEF Prove
<1>20. ASSUME NEW c \in Calls, NEW old \in CallRow, old = call[c], old.pc \in Charging \ {"plan"},
              At(c, old.pc), NEW outcome \in Outcomes, rows' = [rows EXCEPT ![old.seq] = outcome]
       PROVE  /\ old.seq = run.step + 1 /\ old.seq \in Slots /\ c \in Controllers
              /\ \A i \in Slots : rows[i] \in Outcomes => rows'[i] = rows[i]
              /\ \A i \in Slots : i > run.step + 1 => rows'[i] = "NONE"
              /\ \A d \in Calls : d # c => call[d].pc = "idle"
              /\ Ahead(old.row, run)
  <2>1. Fresh(old) /\ old.seq \in Slots
    BY <1>1, <1>20 DEF CallRow
  <2>2. old.seq = run.step + 1 /\ rows[old.seq] \notin Outcomes /\ Ahead(old.row, run)
    BY <1>20, <2>1 DEF Fresh, Charging
  <2>3. c \in Controllers /\ \A d \in Calls : d # c => call[d].pc = "idle"
    BY <1>5, <1>20 DEF Charging
  <2>4. \A i \in Slots : i > run.step + 1 => rows'[i] = "NONE"
    BY <1>1, <1>20, <2>1, <2>2 DEF Alone, OneStepAhead, Run
  <2>5. \A i \in Slots : rows[i] \in Outcomes => rows'[i] = rows[i]
    BY <1>1, <1>20, <2>2
  <2>6. QED
    BY <2>1, <2>2, <2>3, <2>4, <2>5
<1>21. ASSUME NEW c \in Calls, NEW old \in CallRow, old = call[c], Finish(c) PROVE Goal
  <2>1. At(c, "work") /\ old.pc = "work" /\ old.seq <= MaxSteps /\ old.row \in Run
    BY <1>1, <1>21 DEF Finish, At, Copy, Stepping, CallRow
  <2>2. PICK outcome \in Outcomes : rows' = [rows EXCEPT ![old.seq] = outcome]
    BY <1>21 DEF Finish
  <2>3. PICK row : row = Finished(c)
    OBVIOUS
  <2>4. row \in Run /\ row.step = old.seq /\ row.steps = old.row.steps + 1 /\ row.model = old.row.model
        /\ row.proof = old.row.proof + IF old.kind = "prove" THEN 1 ELSE 0
    BY <1>1, <1>21, <2>1, <2>3, FinishedRow
  <2> DEFINE k == [old EXCEPT !.pc = "check", !.row = row]
  <2>5. run' = row /\ Goto(c, k)
    BY <1>21, <2>3 DEF Finish
  <2>6. k.pc = "check" /\ k.row = row
    BY DEF CallRow
  <2>7. /\ old.seq = run.step + 1 /\ old.seq \in Slots /\ c \in Controllers
        /\ \A i \in Slots : rows[i] \in Outcomes => rows'[i] = rows[i]
        /\ \A i \in Slots : i > run.step + 1 => rows'[i] = "NONE"
        /\ \A d \in Calls : d # c => call[d].pc = "idle"
        /\ Ahead(old.row, run)
    BY <1>20, <1>21, <2>1, <2>2 DEF Charging
  <2>8. Ahead(row, run) /\ Ahead(row, row)
    BY <1>1, <2>1, <2>4, <2>7 DEF Ahead, Run
  <2>9. OneStepAhead' /\ Forward
    BY <1>1, <2>4, <2>5, <2>7, <2>8 DEF OneStepAhead, Forward, Run, Slots
  <2>10. Fresh(k)'
    <3> HIDE DEF k
    <3> QED BY <2>5, <2>6, <2>8 DEF Fresh, Charging
  <2> HIDE DEF k
  <2>11. QED
    BY <1>1, <2>5, <2>7, <2>9, <2>10, LoneMove
<1>22. ASSUME NEW c \in Calls, NEW old \in CallRow, old = call[c], Fail(c) PROVE Goal
  <2>1. old.pc \in {"work", "fail"} /\ At(c, old.pc) /\ old.seq <= MaxSteps /\ old.row \in Run /\ old.seq \in Slots
    BY <1>1, <1>22 DEF Fail, At, Copy, Stepping, CallRow
  <2>2. rows' = [rows EXCEPT ![old.seq] = "FAILED"] /\ "FAILED" \in Outcomes /\ UNCHANGED run
    BY <1>22 DEF Fail, Outcomes
  <2>3. PICK row : row = Advanced(old.row, old.seq)
    OBVIOUS
  <2>4. row.step = old.seq /\ row.steps = old.row.steps + 1 /\ row.model = old.row.model
        /\ row.proof = old.row.proof
    BY <2>1, <2>3, AdvancedRow
  <2> DEFINE k == [Idle EXCEPT !.pc = "stop", !.row = row, !.next = "FAILED"]
  <2>5. Goto(c, k) /\ k.pc = "stop" /\ k.row = row
    BY <1>22, <2>3 DEF Fail, Stopping, Idle
  <2>6. /\ old.seq = run.step + 1 /\ old.seq \in Slots /\ c \in Controllers
        /\ \A i \in Slots : rows[i] \in Outcomes => rows'[i] = rows[i]
        /\ \A i \in Slots : i > run.step + 1 => rows'[i] = "NONE"
        /\ \A d \in Calls : d # c => call[d].pc = "idle"
        /\ Ahead(old.row, run)
    BY <1>20, <1>22, <2>1, <2>2 DEF Charging
  <2>7. Ahead(row, run)
    BY <1>1, <2>1, <2>4, <2>6 DEF Ahead, Run
  <2>8. OneStepAhead' /\ Forward
    BY <1>2, <2>2, <2>6 DEF OneStepAhead, Forward
  <2> HIDE DEF k
  <2>9. Fresh(k)'
    BY <2>2, <2>5, <2>7 DEF Fresh, Charging
  <2>10. QED
    BY <1>1, <2>5, <2>6, <2>8, <2>9, LoneMove
<1>23. ASSUME NEW c \in Calls, NEW old \in CallRow, old = call[c], Check(c) PROVE Goal
  <2>1. At(c, "check") /\ old.pc = "check" /\ UNCHANGED <<run, rows>> /\ Fresh(old) /\ c \in Controllers
    BY <1>1, <1>5, <1>23 DEF Check, At
  <2>2. ASSUME NEW next, Goto(c, [old EXCEPT !.pc = "conclude", !.next = next]) PROVE Goal
    <3> DEFINE k == [old EXCEPT !.pc = "conclude", !.next = next]
    <3>1. k.pc = "conclude" /\ k.row = old.row
      BY DEF CallRow
    <3>2. Fresh(k)
      <4> HIDE DEF k
      <4> QED BY <2>1, <3>1 DEF Fresh, Charging
    <3>3. QED
      BY <1>13, <2>1, <2>2, <3>2
  <2>3. QED
    BY <1>8, <1>23, <2>1, <2>2 DEF Check
<1>24. ASSUME NEW c \in Calls, NEW old \in CallRow, old = call[c], Stop(c) PROVE Goal
  <2>1. old.pc \in {"stop", "conclude"} /\ At(c, old.pc) /\ Fresh(old) /\ UNCHANGED rows /\ Goto(c, Idle)
        /\ run' = [old.row EXCEPT !.status = old.next]
    BY <1>1, <1>24 DEF Stop, At
  <2>2. c \in Controllers /\ \A d \in Calls : d # c => call[d].pc = "idle"
    BY <1>5, <1>24, <2>1
  <2>3. SameCount(run', old.row) /\ Ahead(old.row, run)
    BY <2>1 DEF Fresh, SameCount, CallRow, Run
  <2>4. Ahead(run', run) /\ run'.step >= run.step /\ run'.step \in Nat
    BY <1>1, <2>3 DEF Ahead, SameCount, CallRow, Run
  <2>5. OneStepAhead' /\ Forward
    BY <1>1, <2>1, <2>4 DEF Alone, OneStepAhead, Forward, Run, Slots
  <2>6. Fresh(Idle)'
    BY DEF Fresh, Idle, Charging
  <2>7. QED
    BY <1>1, <2>1, <2>2, <2>5, <2>6, LoneMove
<1>25. ASSUME NEW c \in Calls, NEW old \in CallRow, old = call[c],
              Launch(c) \/ Pause(c) \/ Resume(c) \/ Reconcile(c)
       PROVE  Goal
  <2>1. /\ old.pc \in {"launch", "pause", "resume", "reconcile"} /\ At(c, old.pc) /\ Fresh(old)
        /\ rows' = rows \/ rows' = Interrupted
        /\ \E next : run' = [old.row EXCEPT !.status = next]
    BY <1>1, <1>25 DEF Launch, Pause, Resume, Reconcile, At
  <2>2. SameCount(run', run) /\ Ahead(run', run)
    BY <1>1, <2>1 DEF Fresh, SameCount, Ahead, CallRow, Run
  <2>3. \A i \in Slots : /\ rows[i] \notin Outcomes => rows'[i] \notin Outcomes
                         /\ rows[i] \in Outcomes => rows'[i] = rows[i]
                         /\ rows'[i] = rows[i] \/ rows[i] # "NONE"
    BY <1>1, <2>1 DEF Interrupted, Outcomes
  <2>4. PICK k : Goto(c, k) /\ k.pc \in {"idle", "loop"} /\ (k.pc = "loop" => old.pc = "launch")
    BY <1>6, <1>25, <2>1 DEF Launch, Pause, Resume, Reconcile, At
  <2>5. Fresh(k)' /\ k.pc \in Resting /\ (k.pc = "idle" \/ c \in Controllers)
    BY <1>5, <2>1, <2>4 DEF Fresh, Charging, Resting
  <2>6. QED
    BY <1>1, <2>2, <2>3, <2>4, <2>5, QuietMove DEF Forward
<1>26. CASE Restart
  <2>1. /\ call' = [c \in Calls |-> Idle] /\ SameCount(run', run) /\ Ahead(run', run)
        /\ rows' = rows \/ rows' = Interrupted
    BY <1>1, <1>26 DEF Restart, SameCount, Ahead, Run
  <2>2. \A i \in Slots : /\ rows[i] \in Outcomes => rows'[i] = rows[i]
                         /\ rows[i] = "NONE" => rows'[i] = "NONE"
    BY <1>1, <2>1 DEF Interrupted, Outcomes
  <2>3. \A c \in Calls : call'[c].pc = "idle"
    BY <2>1 DEF Idle
  <2>4. OneStepAhead' /\ Forward
    BY <2>1, <2>2 DEF Alone, OneStepAhead, Forward, SameCount
  <2>5. QED
    BY <2>3, <2>4 DEF Alone, Fresh, Charging, Resting
<1>27. CASE Objective \/ UNCHANGED vars
  <2>1. UNCHANGED <<run, rows, call>>
    BY <1>27 DEF Objective, vars
  <2>2. QED
    BY <1>2, <2>1 DEF Alone, OneStepAhead, Fresh, Forward
<1>28. ASSUME NEW c \in Calls, Advance(c) PROVE Goal
  BY <1>1, <1>12, <1>15, <1>16, <1>17, <1>18, <1>19, <1>21, <1>22, <1>23, <1>24, <1>25, <1>28 DEF Advance
<1>29. QED
  BY <1>10, <1>12, <1>26, <1>27, <1>28 DEF Next, WriteThrows, Kill, Single

\* One controller in one process, restarted at any point: what holds of every state, and of every
\* step.
LEMMA SingleAlone == Single /\ Spec => []Alone /\ [][Forward]_vars
<1>1. Init => Alone
  BY ConstantsAssumption DEF Init, Alone, OneStepAhead, Fresh, Idle, Charging, Resting
<1>2. CASE Single
  <2>1. Record /\ Alone /\ [Next]_vars => Alone' /\ [Forward]_vars
    BY <1>2, NextAlone
  <2>2. QED
    BY <1>1, <2>1, InitRecord, NextRecord, PTL DEF Spec
<1>3. QED
  BY <1>2

\* The engine is never more than one step ahead of the row of the run, so a crash leaves at most
\* the next step to take up.
THEOREM OneStepIsAhead == Single /\ Spec => []OneStepAhead
<1>1. Alone => OneStepAhead
  BY DEF Alone
<1>2. QED
  BY <1>1, SingleAlone, PTL

\* No pause, resume or restart takes the run back, forgets usage that was on record or executes a
\* step again that has its outcome.
THEOREM NothingIsTakenBack == Single /\ Spec => NothingTakenBack
<1>1. [Forward]_vars => [/\ \A i \in Slots : rows[i] \in Outcomes => rows'[i] = rows[i]
                         /\ run'.step >= run.step /\ run'.steps >= run.steps
                         /\ run'.model >= run.model /\ run'.proof >= run.proof]_vars
  BY DEF Forward, Ahead
<1>2. QED
  BY <1>1, SingleAlone, PTL DEF NothingTakenBack

-----------------------------------------------------------------------------
(***************************************************************************)
(* What the history says of one controller in one process that has not     *)
(* been killed.  A kill loses the copy, and with it the charge of a call   *)
(* that was answered and the count of a step that has its outcome.         *)
(***************************************************************************)

\* Where the copy holds an answer the row of the run does not.
Spending == {"insert", "dispatch", "work", "fail", "stop"}

\* The call accounts for the row of step i, which the row of the run does not count.
Taken(k, i) ==
  \/ k.pc \in {"dispatch", "work", "fail"} /\ k.seq = i
  \/ k.pc = "stop" /\ k.row.step = i

Settled(k) ==
  /\ k.row.step = k.row.steps
  /\ k.pc = "dispatch" => made[k.seq] = 0
  /\ k.pc = "plan" => spent < k.row.model
  /\ k.pc \in Spending => spent <= k.row.model

Tallied ==
  /\ run.step = run.steps
  /\ \A i \in Slots : i > run.step /\ rows[i] # "NONE" => \E c \in Calls : Taken(call[c], i)
  /\ \A i \in Slots : made[i] <= 1 /\ (rows[i] = "NONE" => made[i] = 0)
  /\ (\A c \in Calls : call[c].pc \notin Spending) => spent <= run.model
  /\ \A c \in Calls : Settled(call[c])

\* A move of the controller, while the others are idle.
LEMMA LoneTally ==
  ASSUME TypeOK, Tallied, NEW c \in Calls, NEW k, Goto(c, k), Settled(k)',
         \A d \in Calls : d # c => call[d].pc = "idle",
         run'.step = run'.steps,
         \A i \in Slots : i > run'.step /\ rows'[i] # "NONE" => Taken(k, i),
         \A i \in Slots : made'[i] <= 1 /\ (rows'[i] = "NONE" => made'[i] = 0),
         k.pc \notin Spending => spent' <= run'.model
  PROVE  Tallied'
<1>1. call'[c] = k /\ \A d \in Calls : d # c => call'[d] = call[d]
  BY DEF Goto, TypeOK
<1>2. ASSUME NEW d \in Calls PROVE Settled(call[d])'
  <2>1. CASE d = c
    BY <1>1, <2>1 DEF Settled
  <2>2. CASE d # c
    BY <1>1, <2>2 DEF Settled, Tallied, Spending
  <2> QED BY <2>1, <2>2
<1>3. \A i \in Slots : Taken(k, i) => Taken(call[c], i)'
  BY <1>1 DEF Taken
<1> QED BY <1>1, <1>2, <1>3 DEF Tallied

\* A move that counts nothing, of a call that has nothing to account for.
LEMMA QuietTally ==
  ASSUME TypeOK, Tallied, NEW c \in Calls, NEW k, Goto(c, k), SameCount(run', run),
         \A i \in Slots : rows'[i] = "NONE" <=> rows[i] = "NONE", UNCHANGED <<made, spent>>,
         call[c].pc \notin Spending, k.pc \notin Spending \union {"plan"}, k.row.step = k.row.steps
  PROVE  Tallied'
<1>1. call'[c] = k /\ \A d \in Calls : d # c => call'[d] = call[d]
  BY DEF Goto, TypeOK
<1>2. ASSUME NEW d \in Calls PROVE Settled(call[d])'
  <2>1. CASE d = c
    BY <1>1, <2>1 DEF Settled, Spending
  <2>2. CASE d # c
    BY <1>1, <2>2 DEF Settled, Tallied
  <2> QED BY <2>1, <2>2
<1>3. ASSUME NEW i \in Slots, i > run'.step, rows'[i] # "NONE" PROVE \E d \in Calls : Taken(call[d], i)'
  <2>1. PICK d \in Calls : Taken(call[d], i)
    BY <1>3 DEF Tallied, SameCount
  <2>2. d # c
    BY <2>1 DEF Taken, Spending
  <2> QED BY <1>1, <2>1, <2>2 DEF Taken
<1>4. (\A d \in Calls : call'[d].pc \notin Spending) => spent' <= run'.model
  BY <1>1 DEF Tallied, SameCount
<1> QED BY <1>2, <1>3, <1>4 DEF Tallied, SameCount

\* What the controller may rely on, while the others are idle.
LEMMA Undivided ==
  ASSUME Tallied, NEW c \in Calls, \A d \in Calls : d # c => call[d].pc = "idle"
  PROVE  /\ \A i \in Slots : i > run.step /\ rows[i] # "NONE" => Taken(call[c], i)
         /\ call[c].pc \notin Spending => spent <= run.model
         /\ run.step = run.steps /\ Settled(call[c])
         /\ \A i \in Slots : made[i] <= 1 /\ (rows[i] = "NONE" => made[i] = 0)
<1>1. \A d \in Calls : d # c => call[d].pc \notin Spending /\ \A i \in Slots : ~Taken(call[d], i)
  BY DEF Spending, Taken
<1> QED BY <1>1 DEF Tallied

\* The steps before the answer of the planner, and the requests of the others.
LEMMA TalliedBefore ==
  ASSUME Single, Record, Alone, Tallied, NEW c \in Calls,
         \/ Start(c) \/ StepOnce(c) \/ \E what \in {"pause", "resume", "reconcile"} : Request(c, what)
         \/ Launch(c) \/ Loop(c) \/ PlannerThrows(c) \/ Check(c)
         \/ Pause(c) \/ Resume(c) \/ Reconcile(c)
  PROVE  Tallied'
<1> USE ConstantsAssumption
<1>1. /\ TypeOK /\ run \in Run /\ rows \in [Slots -> StepStatus] /\ Controllers \subseteq Calls
      /\ call[c] \in CallRow /\ Fresh(call[c]) /\ spent \in Nat /\ run.step = run.steps /\ Settled(call[c])
  BY DEF Record, TypeOK, Alone, Tallied
<1>2. Idle.row.step = Idle.row.steps /\ Idle.pc = "idle" /\ SameCount(run, run)
  BY DEF Idle, NewRun, SameCount
<1>3. ASSUME NEW k, Goto(c, k), UNCHANGED <<run, rows, made, spent>>, call[c].pc \notin Spending,
             k.pc \notin Spending \union {"plan"}, k.row.step = k.row.steps
      PROVE  Tallied'
  BY <1>1, <1>2, <1>3, QuietTally
<1>4. [Idle EXCEPT !.pc = "loop", !.loop = TRUE].pc = "loop"
      /\ [Idle EXCEPT !.pc = "loop", !.loop = TRUE].row.step = [Idle EXCEPT !.pc = "loop", !.loop = TRUE].row.steps
  BY <1>2 DEF Idle
<1>5. ASSUME NEW loop \in BOOLEAN, Enter(c, loop), UNCHANGED <<run, rows, made, spent>>,
             call[c].pc \in {"idle", "loop"}, \A d \in Calls : d # c => call[d].pc = "idle"
      PROVE  Tallied'
  <2>1. /\ \A i \in Slots : i > run.step => rows[i] = "NONE"
        /\ spent <= run.model /\ \A i \in Slots : made[i] <= 1 /\ (rows[i] = "NONE" => made[i] = 0)
    BY <1>5, Undivided DEF Taken, Spending
  <2>2. ASSUME NEW k, Goto(c, k), k.pc \in {"plan", "stop"}, k.row.step = k.row.steps,
               k.pc = "plan" => spent < k.row.model, k.pc = "stop" => spent <= k.row.model
        PROVE  Tallied'
    <3>1. Settled(k)'
      BY <1>5, <2>2 DEF Settled, Spending
    <3> QED BY <1>1, <1>5, <2>1, <2>2, <3>1, LoneTally
  <2>3. CASE Goto(c, Idle)
    BY <1>2, <1>3, <1>5, <2>3 DEF Spending
  <2>4. ASSUME NEW next, Stopping(c, run, next) PROVE Tallied'
    <3> DEFINE k == [Idle EXCEPT !.pc = "stop", !.row = run, !.next = next]
    <3>1. k.pc = "stop" /\ k.row = run
      BY DEF Idle
    <3> QED BY <1>1, <2>1, <2>2, <2>4, <3>1 DEF Stopping
  <2>5. CASE Goto(c, [[Idle EXCEPT !.row = run, !.loop = loop] EXCEPT !.pc = "plan", !.row.model = @ + 1])
    <3> DEFINE k == [[Idle EXCEPT !.row = run, !.loop = loop] EXCEPT !.pc = "plan", !.row.model = @ + 1]
    <3>1. k.pc = "plan" /\ k.row.step = run.step /\ k.row.steps = run.steps /\ k.row.model = run.model + 1
      BY <1>1 DEF Idle, Run
    <3>2. spent < k.row.model
      BY <1>1, <2>1, <3>1 DEF Run
    <3> HIDE DEF k
    <3> QED BY <1>1, <2>2, <2>5, <3>1, <3>2 DEF k
  <2> QED BY <1>5, <2>3, <2>4, <2>5 DEF Enter
<1>6. CASE Start(c)
  <2>1. LET k == [Idle EXCEPT !.pc = "launch", !.row = run, !.loop = TRUE]
        IN  k.pc = "launch" /\ k.row = run
    BY DEF Idle
  <2> QED BY <1>1, <1>3, <1>6, <2>1 DEF Start, Free, Spending, history
<1>7. ASSUME NEW what \in {"pause", "resume", "reconcile"}, Request(c, what) PROVE Tallied'
  <2>1. LET k == [Idle EXCEPT !.pc = what, !.row = run] IN k.pc = what /\ k.row = run
    BY DEF Idle
  <2> QED BY <1>1, <1>3, <1>7, <2>1 DEF Request, Free, Spending, history
<1>8. CASE StepOnce(c)
  <2>1. \A d \in Calls : d # c => d \notin Controllers /\ call[d].pc \notin Writing
    BY <1>8 DEF StepOnce, Free, Single
  <2>2. \A d \in Calls : d # c => call[d].pc = "idle"
    BY <2>1 DEF Alone, Writing
  <2> QED BY <1>5, <1>8, <2>2 DEF StepOnce, Free, history
<1>9. CASE Loop(c)
  <2>1. At(c, "loop") /\ call[c].pc = "loop" /\ UNCHANGED <<run, rows, made, spent>>
    BY <1>9 DEF Loop, At, history
  <2>2. \A d \in Calls : d # c => call[d].pc = "idle"
    BY <1>1, <2>1, OthersRest DEF Alone
  <2> QED BY <1>2, <1>3, <1>5, <1>9, <2>1, <2>2 DEF Loop, Spending
<1>10. CASE PlannerThrows(c)
  BY <1>2, <1>3, <1>10 DEF PlannerThrows, At, Spending, history
<1>11. CASE Check(c)
  <2>1. \A next : /\ [call[c] EXCEPT !.pc = "conclude", !.next = next].pc = "conclude"
                  /\ [call[c] EXCEPT !.pc = "conclude", !.next = next].row = call[c].row
    BY <1>1 DEF CallRow
  <2>2. call[c].row.step = call[c].row.steps
    BY <1>1 DEF Settled
  <2> QED BY <1>2, <1>3, <1>4, <1>11, <2>1, <2>2 DEF Check, At, Return, Spending, history
<1>12. CASE Launch(c) \/ Pause(c) \/ Resume(c) \/ Reconcile(c)
  <2>1. /\ call[c].pc \in {"launch", "pause", "resume", "reconcile"}
        /\ \E next : run' = [call[c].row EXCEPT !.status = next]
        /\ rows' = rows \/ rows' = Interrupted
        /\ UNCHANGED <<made, spent>>
    BY <1>12 DEF Launch, Pause, Resume, Reconcile, At, history
  <2>2. SameCount(run', run)
    BY <1>1, <2>1 DEF Fresh, SameCount, CallRow, Run
  <2>3. \A i \in Slots : rows'[i] = "NONE" <=> rows[i] = "NONE"
    BY <1>1, <2>1 DEF Interrupted
  <2>4. \E k : Goto(c, k) /\ k.pc \in {"idle", "loop"} /\ k.row.step = k.row.steps
    BY <1>2, <1>4, <1>12 DEF Launch, Pause, Resume, Reconcile
  <2> QED BY <1>1, <2>1, <2>2, <2>3, <2>4, QuietTally DEF Spending
<1> QED BY <1>6, <1>7, <1>8, <1>9, <1>10, <1>11, <1>12

\* The steps of the controller with an answer in hand.
LEMMA TalliedAfter ==
  ASSUME Single, Record, Alone, Tallied, NEW c \in Calls, NEW old, old = call[c],
         \/ PlannerStops(c) \/ (\E kind \in Kinds : Decide(c, kind)) \/ Insert(c)
         \/ Look(c) \/ (\E body \in BOOLEAN : Prove(c, body)) \/ Subclaim(c)
         \/ Finish(c) \/ Fail(c) \/ Stop(c)
  PROVE  Tallied'
<1> USE ConstantsAssumption
<1>1. /\ TypeOK /\ run \in Run /\ rows \in [Slots -> StepStatus] /\ made \in [Slots -> 0 .. 2]
      /\ old \in CallRow /\ old.row \in Run /\ old.seq \in Slots /\ Copy(old) /\ Fresh(old) /\ spent \in Nat
      /\ Controllers \subseteq Calls
  BY DEF Record, TypeOK, Alone, CallRow
<1>2. At(c, old.pc) /\ old.pc \in {"plan", "insert", "dispatch", "work", "fail", "stop", "conclude"}
  BY DEF PlannerStops, Decide, Insert, Look, Prove, Subclaim, Finish, Fail, Stop, At
<1>3. c \in Controllers /\ \A d \in Calls : d # c => call[d].pc = "idle"
  BY <1>1, <1>2, OthersRest DEF Alone
<1>4. /\ \A i \in Slots : i > run.step /\ rows[i] # "NONE" => Taken(old, i)
      /\ old.pc \notin Spending => spent <= run.model
      /\ run.step = run.steps /\ Settled(old)
      /\ \A i \in Slots : made[i] <= 1 /\ (rows[i] = "NONE" => made[i] = 0)
  BY <1>3, Undivided
<1>5. old.row.step = old.row.steps /\ old.row.step \in Nat /\ run.step \in Nat
      /\ old.row.model \in Nat /\ run.model \in Nat
  BY <1>1, <1>4 DEF Settled, Run
<1>6. ASSUME NEW k, Goto(c, k), UNCHANGED <<run, made>>, k.row.step = k.row.steps,
             k.pc \in Spending, k.pc = "dispatch" => made[k.seq] = 0, spent' <= k.row.model,
             \A i \in Slots : i > run.step /\ rows'[i] # "NONE" => Taken(k, i),
             \A i \in Slots : rows'[i] = "NONE" => rows[i] = "NONE"
      PROVE  Tallied'
  <2>1. Settled(k)'
    BY <1>6 DEF Settled, Spending
  <2> QED BY <1>1, <1>3, <1>4, <1>6, <2>1, LoneTally
<1>7. Answered => spent' <= spent + 1 /\ spent' \in Nat
  BY <1>1 DEF Answered
<1>8. old.pc \in {"plan", "insert"} => \A i \in Slots : i > run.step => rows[i] = "NONE"
  BY <1>4 DEF Taken
<1>9. CASE PlannerStops(c)
  <2>1. PICK next : Stopping(c, old.row, next)
    BY <1>9 DEF PlannerStops
  <2> DEFINE k == [Idle EXCEPT !.pc = "stop", !.row = old.row, !.next = next]
  <2>2. k.pc = "stop" /\ k.row = old.row /\ Goto(c, k)
    BY <2>1 DEF Idle, Stopping
  <2>3. old.pc = "plan" /\ UNCHANGED <<run, rows, made>> /\ spent' <= old.row.model
    <3>1. old.pc = "plan" /\ UNCHANGED <<run, rows, made>> /\ Answered
      BY <1>9 DEF PlannerStops, At
    <3> QED BY <1>1, <1>4, <1>5, <1>7, <3>1 DEF Settled
  <2> HIDE DEF k
  <2> QED BY <1>5, <1>6, <1>8, <2>2, <2>3 DEF Spending
<1>10. ASSUME NEW kind \in Kinds, Decide(c, kind) PROVE Tallied'
  <2> DEFINE seq == old.row.step + 1
             k == [[old EXCEPT !.seq = seq, !.kind = kind] EXCEPT !.pc = "insert"]
  <2>1. old.pc = "plan" /\ UNCHANGED <<run, rows, made>> /\ spent' <= old.row.model
    <3>1. old.pc = "plan" /\ UNCHANGED <<run, rows, made>> /\ Answered
      BY <1>10 DEF Decide, At
    <3> QED BY <1>1, <1>4, <1>5, <1>7, <3>1 DEF Settled
  <2>2. seq = run.step + 1 /\ seq \in Slots
    <3>1. old.row.step = run.step /\ run.step \in 0 .. MaxSteps /\ MaxSteps \in Nat
      BY <1>1, <2>1 DEF Fresh, Charging, Run
    <3> QED BY <3>1 DEF Slots
  <2>3. rows[seq] = "NONE"
    BY <1>5, <1>8, <2>1, <2>2
  <2>4. k.pc = "insert" /\ k.row = old.row
    BY <1>1 DEF CallRow
  <2>5. Goto(c, k)
    BY <1>10, <2>3 DEF Decide, Outcomes
  <2> HIDE DEF k
  <2> QED BY <1>5, <1>6, <1>8, <2>1, <2>4, <2>5 DEF Spending
<1>11. CASE Insert(c)
  <2> DEFINE k == [old EXCEPT !.pc = "dispatch"]
  <2>1. old.pc = "insert" /\ UNCHANGED <<run, made, spent>> /\ old.seq = run.step + 1
    BY <1>1, <1>11 DEF Insert, At, history, Fresh, Charging
  <2>2. rows[old.seq] = "NONE"
    BY <1>1, <1>5, <1>8, <2>1
  <2>3. rows' = [rows EXCEPT ![old.seq] = "RUNNING"] /\ Goto(c, k)
    BY <1>11, <2>2 DEF Insert
  <2>4. k.pc = "dispatch" /\ k.row = old.row /\ k.seq = old.seq
    BY <1>1 DEF CallRow
  <2>5. /\ \A i \in Slots : i > run.step /\ rows'[i] # "NONE" => i = old.seq
        /\ \A i \in Slots : rows'[i] = "NONE" => rows[i] = "NONE"
    BY <1>1, <1>8, <2>1, <2>2, <2>3
  <2>6. made[old.seq] = 0 /\ spent <= old.row.model
    BY <1>1, <1>4, <2>1, <2>2 DEF Settled, Spending
  <2> HIDE DEF k
  <2> QED BY <1>5, <1>6, <2>1, <2>3, <2>4, <2>5, <2>6 DEF Spending, Taken
<1>12. ASSUME NEW k, Goto(c, k), UNCHANGED <<run, rows, made>>, old.pc = "dispatch", k.pc \in {"work", "fail"},
              k.seq = old.seq, k.row.step = old.row.step, k.row.steps = old.row.steps, spent' <= k.row.model
       PROVE  Tallied'
  <2>1. \A i \in Slots : Taken(old, i) => Taken(k, i)
    BY <1>12 DEF Taken
  <2> QED BY <1>4, <1>5, <1>6, <1>12, <2>1 DEF Spending
<1>13. CASE Look(c)
  <2>1. LET k == [old EXCEPT !.pc = "work"] IN k.pc = "work" /\ k.row = old.row /\ k.seq = old.seq
    BY <1>1 DEF CallRow
  <2>2. old.pc = "dispatch" /\ UNCHANGED <<run, rows, made, spent>> /\ Goto(c, [old EXCEPT !.pc = "work"])
    BY <1>13 DEF Look, At, history
  <2>3. spent <= old.row.model
    BY <1>4, <2>2 DEF Settled, Spending
  <2> QED BY <1>12, <2>1, <2>2, <2>3
<1>14. ASSUME NEW body \in BOOLEAN, Prove(c, body) PROVE Tallied'
  <2> DEFINE asks == IF body THEN 0 ELSE 1
  <2>1. old.pc = "dispatch" /\ UNCHANGED <<run, rows, made>>
    BY <1>14 DEF Prove, At
  <2>2. spent <= old.row.model
    BY <1>4, <2>1 DEF Settled, Spending
  <2>3. CASE Goto(c, [old EXCEPT !.pc = "fail"]) /\ UNCHANGED spent
    <3>1. LET k == [old EXCEPT !.pc = "fail"] IN k.pc = "fail" /\ k.row = old.row /\ k.seq = old.seq
      BY <1>1 DEF CallRow
    <3> QED BY <1>12, <2>1, <2>2, <2>3, <3>1
  <2>4. CASE Goto(c, [old EXCEPT !.pc = "fail", !.row.proof = @ + 1]) /\ UNCHANGED spent
    <3> DEFINE k == [old EXCEPT !.pc = "fail", !.row.proof = @ + 1]
    <3>1. /\ k.row.step = old.row.step /\ k.row.steps = old.row.steps /\ k.row.model = old.row.model
          /\ k.pc = "fail" /\ k.seq = old.seq
      BY <1>1 DEF CallRow, Run
    <3> HIDE DEF k
    <3> QED BY <1>12, <2>1, <2>2, <2>4, <3>1 DEF k
  <2>5. CASE /\ Goto(c, [old EXCEPT !.pc = "work", !.row.model = @ + asks, !.row.proof = @ + 1])
             /\ IF body THEN UNCHANGED spent ELSE Answered
    <3> DEFINE k == [old EXCEPT !.pc = "work", !.row.model = @ + asks, !.row.proof = @ + 1]
    <3>1. k.row = [old.row EXCEPT !.model = @ + asks, !.proof = @ + 1] /\ k.pc = "work" /\ k.seq = old.seq
      BY <1>1 DEF CallRow, Run
    <3>2. k.row.step = old.row.step /\ k.row.steps = old.row.steps /\ k.row.model = old.row.model + asks
      <4> HIDE DEF k, asks
      <4> QED BY <1>1, <3>1 DEF Run
    <3>3. spent' <= k.row.model
      BY <1>1, <1>5, <1>7, <2>2, <2>5, <3>2
    <3> HIDE DEF k
    <3> QED BY <1>12, <2>1, <2>5, <3>1, <3>2, <3>3 DEF k
  <2> QED BY <1>14, <2>3, <2>4, <2>5 DEF Prove
<1>15. CASE Subclaim(c)
  <2> DEFINE k == [old EXCEPT !.pc = "work"]
  <2>1. old.pc = "dispatch" /\ UNCHANGED <<run, rows, spent>> /\ Goto(c, k)
        /\ made' = [made EXCEPT ![old.seq] = IF @ = 2 THEN 2 ELSE @ + 1]
    BY <1>15 DEF Subclaim, At
  <2>2. k.pc = "work" /\ k.row = old.row /\ k.seq = old.seq
    BY <1>1 DEF CallRow
  <2>3. made[old.seq] = 0 /\ spent <= old.row.model /\ rows[old.seq] # "NONE"
    BY <1>1, <1>4, <2>1 DEF Settled, Spending, Copy, Stepping
  <2>4. \A i \in Slots : made'[i] <= 1 /\ (rows'[i] = "NONE" => made'[i] = 0)
    BY <1>1, <1>4, <2>1, <2>3
  <2> HIDE DEF k
  <2>5. Settled(k)' /\ k.pc \in Spending
    BY <1>5, <2>1, <2>2, <2>3 DEF Settled, Spending
  <2>6. \A i \in Slots : Taken(old, i) => Taken(k, i)
    BY <2>1, <2>2 DEF Taken
  <2> QED BY <1>1, <1>3, <1>4, <2>1, <2>4, <2>5, <2>6, LoneTally
<1>16. CASE Finish(c)
  <2>1. old.pc = "work" /\ UNCHANGED <<made, spent>> /\ old.seq = run.step + 1 /\ old.row.step = run.step
        /\ old.seq <= MaxSteps /\ spent <= old.row.model
    BY <1>1, <1>4, <1>16 DEF Finish, At, history, Fresh, Charging, Copy, Stepping, Settled, Spending
  <2>2. PICK outcome \in Outcomes : rows' = [rows EXCEPT ![old.seq] = outcome]
    BY <1>16 DEF Finish
  <2>3. PICK row : row = Finished(c)
    OBVIOUS
  <2>4. row.step = old.seq /\ row.steps = old.row.steps + 1 /\ row.model = old.row.model
    BY <1>1, <2>1, <2>3, FinishedRow
  <2> DEFINE k == [old EXCEPT !.pc = "check", !.row = row]
  <2>5. run' = row /\ Goto(c, k) /\ k.pc = "check" /\ k.row = row
    BY <1>1, <1>16, <2>3 DEF Finish, CallRow
  <2>6. row.step = row.steps
    BY <1>5, <2>1, <2>4
  <2>7. \A i \in Slots : /\ i > row.step => rows'[i] = "NONE"
                         /\ rows'[i] = "NONE" => rows[i] = "NONE"
    <3>1. \A i \in Slots : i > row.step => i # old.seq /\ i > run.step /\ ~Taken(old, i)
      BY <1>5, <2>1, <2>4 DEF Taken, Slots
    <3> QED BY <1>1, <1>4, <2>2, <3>1 DEF Outcomes
  <2> HIDE DEF k
  <2>8. Settled(k)'
    BY <2>5, <2>6 DEF Settled, Spending
  <2> QED BY <1>1, <1>3, <1>4, <2>1, <2>4, <2>5, <2>6, <2>7, <2>8, LoneTally
<1>17. CASE Fail(c)
  <2>1. old.pc \in {"work", "fail"} /\ UNCHANGED <<run, made, spent>> /\ old.seq = run.step + 1
        /\ old.row.step = run.step /\ old.seq <= MaxSteps /\ spent <= old.row.model
    BY <1>1, <1>4, <1>17 DEF Fail, At, history, Fresh, Charging, Copy, Stepping, Settled, Spending
  <2>2. rows' = [rows EXCEPT ![old.seq] = "FAILED"]
    BY <1>17 DEF Fail
  <2>3. PICK row : row = Advanced(old.row, old.seq)
    OBVIOUS
  <2>4. row.step = old.seq /\ row.steps = old.row.steps + 1 /\ row.model = old.row.model
    BY <1>1, <2>1, <2>3, AdvancedRow
  <2> DEFINE k == [Idle EXCEPT !.pc = "stop", !.row = row, !.next = "FAILED"]
  <2>5. Goto(c, k) /\ k.pc = "stop" /\ k.row = row
    BY <1>17, <2>3 DEF Fail, Stopping, Idle
  <2>6. row.step = row.steps
    BY <1>5, <2>1, <2>4
  <2>7. \A i \in Slots : /\ i > run.step /\ rows'[i] # "NONE" => i = old.seq
                         /\ rows'[i] = "NONE" => rows[i] = "NONE"
    <3>1. \A i \in Slots : Taken(old, i) => i = old.seq
      BY <2>1 DEF Taken
    <3> QED BY <1>1, <1>4, <2>2, <3>1
  <2> HIDE DEF k
  <2> QED BY <1>6, <2>1, <2>4, <2>5, <2>6, <2>7 DEF Spending, Taken
<1>18. CASE Stop(c)
  <2>1. /\ old.pc \in {"stop", "conclude"} /\ UNCHANGED <<rows, made, spent>> /\ Goto(c, Idle)
        /\ run' = [old.row EXCEPT !.status = old.next]
    BY <1>18 DEF Stop, At, history
  <2>2. run'.step = old.row.step /\ run'.steps = old.row.steps /\ run'.model = old.row.model
    BY <1>1, <2>1 DEF Run
  <2>3. old.row.step >= run.step /\ old.row.model >= run.model
    BY <1>1, <2>1 DEF Fresh, Ahead
  <2>4. spent <= run'.model
    BY <1>1, <1>4, <1>5, <2>1, <2>2, <2>3 DEF Settled, Spending
  <2>5. ASSUME NEW i \in Slots, i > run'.step PROVE rows'[i] = "NONE"
    BY <1>4, <1>5, <2>1, <2>2, <2>3, <2>5 DEF Taken, Slots
  <2>6. Settled(Idle)' /\ Idle.pc = "idle"
    BY DEF Settled, Idle, NewRun, Spending
  <2> QED BY <1>1, <1>3, <1>4, <1>5, <2>1, <2>2, <2>4, <2>5, <2>6, LoneTally
<1> QED BY <1>9, <1>10, <1>11, <1>13, <1>14, <1>15, <1>16, <1>17, <1>18

LEMMA NextTallied ==
  ASSUME Single, Record, Alone, ~killed => Tallied, [Next]_vars, ~killed'
  PROVE  Tallied'
<1>1. ~Restart /\ \A c \in Calls : ~Kill(c) /\ ~WriteThrows(c)
  BY DEF Restart, Kill, WriteThrows, Single
<1>2. CASE Objective \/ UNCHANGED vars
  BY <1>2 DEF Objective, vars, history, Tallied, Taken, Settled
<1>3. ASSUME NEW c \in Calls,
             \/ Start(c) \/ StepOnce(c) \/ \E what \in {"pause", "resume", "reconcile"} : Request(c, what)
             \/ Advance(c)
      PROVE  Tallied'
  <2>1. UNCHANGED killed
    BY <1>3 DEF Start, StepOnce, Request, Advance, Launch, Loop, PlannerThrows, PlannerStops, Decide, Insert,
                Look, Prove, Subclaim, Finish, Check, Fail, Stop, Pause, Resume, Reconcile, history
  <2> QED BY <1>3, <2>1, TalliedBefore, TalliedAfter DEF Advance
<1> QED BY <1>1, <1>2, <1>3 DEF Next

LEMMA SingleTallied == Single /\ Spec => [](Record /\ Alone /\ (~killed => Tallied))
<1>1. Init => Tallied
  BY ConstantsAssumption DEF Init, Tallied, Settled, NewRun, Idle, Spending
<1>2. CASE Single
  <2>1. Record /\ Alone /\ (~killed => Tallied) /\ [Next]_vars => (~killed => Tallied)'
    BY <1>2, NextTallied
  <2> QED BY <1>1, <1>2, <2>1, InitRecord, NextRecord, SingleAlone, PTL DEF Spec
<1> QED BY <1>2

\* Between two transitions of a run that was not killed, its count of the steps is the number of
\* step rows that have an outcome.
THEOREM OutcomesAreCounted == Single /\ Spec => []OutcomesCounted
<1>1. Single /\ Record /\ Alone /\ (~killed => Tallied) => OutcomesCounted
  <2> SUFFICES ASSUME Record, Alone, Tallied, \A c \in Calls : call[c].pc \notin Writing
               PROVE  Cardinality({i \in Slots : rows[i] \in Outcomes}) = run.steps
    BY DEF OutcomesCounted
  <2>1. run.step \in 0 .. MaxSteps /\ MaxSteps \in Nat
    BY ConstantsAssumption DEF Record, TypeOK, Run
  <2>2. ASSUME NEW i \in Slots, i > run.step, rows[i] \in Outcomes PROVE FALSE
    <3>1. PICK c \in Calls : Taken(call[c], i)
      BY <2>2 DEF Tallied, Outcomes
    <3>2. call[c].pc = "work" /\ call[c].seq = i
      BY <3>1 DEF Taken, Writing
    <3> QED BY <2>2, <3>2 DEF Alone, Fresh, Charging
  <2>3. {i \in Slots : rows[i] \in Outcomes} = 1 .. run.step
    BY <2>1, <2>2 DEF Record, RecordComplete, Slots
  <2>4. Cardinality(1 .. run.step) = run.step
    BY <2>1, FS_Interval
  <2> QED BY <2>3, <2>4 DEF Tallied
<1>2. CASE Single
  BY <1>1, <1>2, SingleTallied, PTL
<1> QED BY <1>2

\* What a step creates is created once, unless the process was killed.
THEOREM CreatedAtMostOnce == Single /\ Spec => []CreatedOnce
<1>1. (~killed => Tallied) => CreatedOnce
  BY DEF Tallied, CreatedOnce
<1> QED BY <1>1, SingleTallied, PTL

\* The model calls a run really made stay within its limit, unless the process was killed: each was
\* charged, and the charge was kept.
THEOREM SpendingStaysWithinBudget == Single /\ Spec => []SpendingWithinBudget
<1>1. Init => Budget
  BY ConstantsAssumption, RechargedOnce
     DEF Init, Budget, UsageWithinLimits, Budgeted, NewRun, Idle, Begun
<1>2. Record /\ Budget /\ (~killed => Tallied) => SpendingWithinBudget
  <2> SUFFICES ASSUME Record, Budget, Tallied PROVE spent <= MaxModelCalls
    BY DEF SpendingWithinBudget
  <2>1. /\ spent \in Nat /\ run.model \in Nat /\ run.model <= MaxModelCalls /\ MaxModelCalls \in Nat
        /\ \A c \in Calls : call[c].row.model \in Nat /\ call[c].row.model <= MaxModelCalls
    BY ConstantsAssumption DEF Record, TypeOK, CallRow, Run, Budget, UsageWithinLimits, Budgeted
  <2> QED BY <2>1 DEF Tallied, Settled
<1> QED
  BY <1>1, <1>2, SingleTallied, InitRecord, NextRecord, NextBudget, PTL DEF Spec
=============================================================================
