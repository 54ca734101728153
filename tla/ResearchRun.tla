----------------------------- MODULE ResearchRun -----------------------------
(***************************************************************************)
(* One research run: a planner is asked for the next action, the engine    *)
(* records a step row, executes the action, and records the outcome and    *)
(* the budget it used.                                                     *)
(*                                                                         *)
(* Every call reads the whole row of the run, changes its copy, and writes *)
(* the whole row back: step() keeps its copy across the awaits of the      *)
(* planner and of the action.  Between two awaits a call is not            *)
(* interrupted by the others of its process, but a kill may end it, and    *)
(* with MultiProcess every call is a process of its own.                   *)
(*                                                                         *)
(* Of the usage the row holds, steps, model calls and proof attempts are   *)
(* modelled; Lean calls are charged like model calls.  Blockers, the focus *)
(* and the reason of a stop decide nothing here and are left out.          *)
(***************************************************************************)
EXTENDS Integers, FiniteSets

CONSTANTS
  Calls,          \* calls that may be in flight together
  Controllers,    \* those of them that step the run; the others pause and resume it
  MaxSteps, MaxModelCalls, MaxProofAttempts,  \* limits of the run
  Kills,          \* TRUE: processes are killed, and the workspace is opened again
  WritesFail,     \* TRUE: a transaction may be refused
  MultiProcess    \* TRUE: every call runs in an operating system process of its own

ASSUME ConstantsAssumption ==
  /\ Controllers \subseteq Calls
  /\ {MaxSteps, MaxModelCalls, MaxProofAttempts} \subseteq Nat
  /\ {Kills, WritesFail, MultiProcess} \subseteq BOOLEAN

\* The idempotency keys a run could use, one more than its budget allows.
Slots == 1 .. MaxSteps + 1
Kinds == {"look", "prove", "subclaim", "ask"}  \* what the planner's action does
Outcomes == {"SUCCEEDED", "FAILED"}
StepStatus == Outcomes \union {"NONE", "RUNNING", "INTERRUPTED"}
Live == {"READY", "RUNNING"}
Status == Live \union {"PAUSED", "BLOCKED", "COMPLETED", "FAILED"}
Run == [status : Status, step : 0 .. MaxSteps, steps : Nat, model : Nat, proof : Nat]

VARIABLES
  run,       \* the row of research_runs: status, current_step and usage
  rows,      \* research_steps.status, by sequence
  verified,  \* the objective is KERNEL_VERIFIED
  call,      \* the calls in flight, each with its copy of the row
  made,      \* history: how often the subclaim of a step was created, up to twice
  spent,     \* history: model calls that were answered, up to one above the limit
  killed     \* history: a process was killed

vars == <<run, rows, verified, call, made, spent, killed>>
history == <<made, spent, killed>>

\* Places in the middle of a synchronous stretch.
Writing == {"launch", "insert", "dispatch", "fail", "check", "conclude", "stop",
            "pause", "resume", "reconcile"}
PCs == Writing \union {"idle", "loop", "plan", "work"}

NewRun == [status |-> "READY", step |-> 0, steps |-> 0, model |-> 0, proof |-> 0]
Idle == [pc |-> "idle", row |-> NewRun, seq |-> 1, kind |-> "look", loop |-> FALSE, next |-> "BLOCKED"]
CallRow == [pc : PCs, row : Run, seq : Slots, kind : Kinds, loop : BOOLEAN, next : Status]

TypeOK ==
  /\ run \in Run
  /\ rows \in [Slots -> StepStatus]
  /\ verified \in BOOLEAN
  /\ call \in [Calls -> CallRow]
  /\ made \in [Slots -> 0 .. 2]
  /\ spent \in 0 .. MaxModelCalls + 1
  /\ killed \in BOOLEAN

\* ResearchEngine.start, for the one run modelled.
Init ==
  /\ run = NewRun
  /\ rows = [i \in Slots |-> "NONE"]
  /\ verified \in BOOLEAN
  /\ call = [c \in Calls |-> Idle]
  /\ made = [i \in Slots |-> 0]
  /\ spent = 0
  /\ killed = FALSE

-----------------------------------------------------------------------------
(* Scheduling *)

Free(c) == call[c].pc = "idle" /\ (MultiProcess \/ \A d \in Calls : call[d].pc \notin Writing)
At(c, pc) == call[c].pc = pc /\ (MultiProcess \/ \A d \in Calls \ {c} : call[d].pc \notin Writing)
Goto(c, next) == call' = [call EXCEPT ![c] = next]

\* step() is done: run() asks for another one.
Return(c) == Goto(c, IF call[c].loop THEN [Idle EXCEPT !.pc = "loop", !.loop = TRUE] ELSE Idle)

\* Nothing but the row and the verdict is used after this point.
Stopping(c, row, next) == Goto(c, [Idle EXCEPT !.pc = "stop", !.row = row, !.next = next])

Answered == spent' = IF spent > MaxModelCalls THEN spent ELSE spent + 1

-----------------------------------------------------------------------------
(* run and step, up to the planner *)

\* run() reads the row and sets its status, whatever it was.
Start(c) ==
  /\ c \in Controllers /\ Free(c)
  /\ Goto(c, [Idle EXCEPT !.pc = "launch", !.row = run, !.loop = TRUE])
  /\ UNCHANGED <<run, rows, verified, history>>

Launch(c) ==
  /\ At(c, "launch")
  /\ run' = [call[c].row EXCEPT !.status = "RUNNING"]
  /\ Goto(c, [Idle EXCEPT !.pc = "loop", !.loop = TRUE])
  /\ UNCHANGED <<rows, verified, history>>

\* Mutant: the limits are compared with > instead of >=.
ExhaustedLate(row) == row.steps > MaxSteps \/ row.model >= MaxModelCalls \/ row.proof >= MaxProofAttempts

Exhausted(row) == row.steps >= MaxSteps \/ row.model >= MaxModelCalls \/ row.proof >= MaxProofAttempts

\* step() reads the row, checks it, and asks the planner; the model call is charged to the copy.
Enter(c, loop) ==
  LET copy == [Idle EXCEPT !.row = run, !.loop = loop]
  IN \/ run.status = "COMPLETED" /\ Goto(c, Idle)
     \/ /\ run.status # "COMPLETED" /\ Exhausted(run)
        /\ Stopping(c, run, "BLOCKED")
     \/ /\ run.status # "COMPLETED" /\ ~Exhausted(run) /\ verified
        /\ Stopping(c, run, "COMPLETED")
     \/ /\ run.status # "COMPLETED" /\ ~Exhausted(run) /\ ~verified
        /\ Goto(c, [copy EXCEPT !.pc = "plan", !.row.model = @ + 1])

StepOnce(c) ==
  /\ c \in Controllers /\ Free(c) /\ Enter(c, FALSE)
  /\ UNCHANGED <<run, rows, verified, history>>

Loop(c) ==
  /\ At(c, "loop")
  /\ IF run.status \in Live THEN Enter(c, TRUE) ELSE Goto(c, Idle)
  /\ UNCHANGED <<run, rows, verified, history>>

\* The provider fails: step() throws, and the charge is gone with the copy.
PlannerThrows(c) ==
  /\ At(c, "plan") /\ Goto(c, Idle)
  /\ UNCHANGED <<run, rows, verified, history>>

\* Mutant: the planner's word for it that the objective is verified is taken.
PlannerStopsCredulous(c) ==
  /\ At(c, "plan")
  /\ \E next \in {"BLOCKED", "COMPLETED"} : Stopping(c, call[c].row, next)
  /\ Answered
  /\ UNCHANGED <<run, rows, verified, made, killed>>

\* The planner wants to stop, has no valid decision, or repeats itself.  The objective counts as
\* verified only if it is.
PlannerStops(c) ==
  /\ At(c, "plan")
  /\ \E next \in {"BLOCKED", "COMPLETED"} :
       /\ next = "COMPLETED" => verified
       /\ Stopping(c, call[c].row, next)
  /\ Answered
  /\ UNCHANGED <<run, rows, verified, made, killed>>

\* Mutant: the next sequence is one more than there are rows.
DecideByRows(c, kind) ==
  LET seq == Cardinality({i \in Slots : rows[i] # "NONE"}) + 1
  IN /\ At(c, "plan") /\ seq \in Slots
     /\ Goto(c, [call[c] EXCEPT !.pc = "insert", !.seq = seq, !.kind = kind])
     /\ Answered
     /\ UNCHANGED <<run, rows, verified, made, killed>>

\* executeDecision looks for the row of the next sequence: one with an outcome ends the step,
\* one without is taken up again as it is.
Decide(c, kind) ==
  LET seq == call[c].row.step + 1
      chosen == [call[c] EXCEPT !.seq = seq, !.kind = kind]
  IN /\ At(c, "plan")
     /\ \/ rows[seq] \in Outcomes /\ Return(c)
        \/ rows[seq] = "NONE" /\ Goto(c, [chosen EXCEPT !.pc = "insert"])
        \/ rows[seq] \in {"RUNNING", "INTERRUPTED"} /\ Goto(c, [chosen EXCEPT !.pc = "dispatch"])
     /\ Answered
     /\ UNCHANGED <<run, rows, verified, made, killed>>

\* idempotency_key is UNIQUE: if another process has inserted it meanwhile, step() throws.
Insert(c) ==
  LET seq == call[c].seq
  IN /\ At(c, "insert")
     /\ IF rows[seq] = "NONE"
        THEN /\ rows' = [rows EXCEPT ![seq] = "RUNNING"]
             /\ Goto(c, [call[c] EXCEPT !.pc = "dispatch"])
        ELSE UNCHANGED rows /\ Goto(c, Idle)
     /\ UNCHANGED <<run, verified, history>>

-----------------------------------------------------------------------------
(* The action and its outcome *)

\* Searches, analyses, verifications and experiments await their service.
Look(c) ==
  /\ At(c, "dispatch") /\ call[c].kind \in {"look", "ask"}
  /\ Goto(c, [call[c] EXCEPT !.pc = "work"])
  /\ UNCHANGED <<run, rows, verified, history>>

\* Mutant: the proof budget is not asked.
ProveUncharged(c, body) ==
  /\ At(c, "dispatch") /\ call[c].kind = "prove"
  /\ Goto(c, [call[c] EXCEPT !.pc = "work", !.row.model = @ + IF body THEN 0 ELSE 1, !.row.proof = @ + 1])
  /\ IF body THEN UNCHANGED spent ELSE Answered
  /\ UNCHANGED <<run, rows, verified, made, killed>>

\* ATTEMPT_PROOF charges an attempt, and a model call unless the planner has written the proof.
\* A refused charge throws inside executeDecision.
Prove(c, body) ==
  LET row == call[c].row
      asks == IF body THEN 0 ELSE 1
  IN /\ At(c, "dispatch") /\ call[c].kind = "prove"
     /\ \/ /\ row.proof < MaxProofAttempts /\ row.model + asks <= MaxModelCalls
           /\ Goto(c, [call[c] EXCEPT !.pc = "work", !.row.model = @ + asks, !.row.proof = @ + 1])
           /\ IF body THEN UNCHANGED spent ELSE Answered
        \/ /\ row.proof >= MaxProofAttempts
           /\ Goto(c, [call[c] EXCEPT !.pc = "fail"]) /\ UNCHANGED spent
        \/ /\ row.proof < MaxProofAttempts /\ row.model + asks > MaxModelCalls
           /\ Goto(c, [call[c] EXCEPT !.pc = "fail", !.row.proof = @ + 1]) /\ UNCHANGED spent
     /\ UNCHANGED <<run, rows, verified, made, killed>>

\* CREATE_SUBCLAIM inserts the claim in a transaction of its own.
Subclaim(c) ==
  /\ At(c, "dispatch") /\ call[c].kind = "subclaim"
  /\ made' = [made EXCEPT ![call[c].seq] = IF @ = 2 THEN 2 ELSE @ + 1]
  /\ Goto(c, [call[c] EXCEPT !.pc = "work"])
  /\ UNCHANGED <<run, rows, verified, spent, killed>>

\* Mutants: a step counts twice; the current step stays.
AdvancedTwice(row, seq) == [row EXCEPT !.step = seq, !.steps = @ + 2]
AdvancedNot(row, seq) == [row EXCEPT !.steps = @ + 1]

Advanced(row, seq) == [row EXCEPT !.step = seq, !.steps = @ + 1]

\* An attempt is charged when it starts and added again with the result.
Finished(c) ==
  [Advanced(call[c].row, call[c].seq) EXCEPT
     !.status = "RUNNING", !.proof = @ + IF call[c].kind = "prove" THEN 1 ELSE 0]

\* Mutant: the run is written, the step row is left for later.
FinishRunOnly(c) ==
  /\ At(c, "work")
  /\ run' = Finished(c)
  /\ Goto(c, [call[c] EXCEPT !.pc = "check", !.row = Finished(c)])
  /\ UNCHANGED <<rows, verified, history>>

\* The action has answered, and failed or not: one transaction for the step row and the run row.
Finish(c) ==
  /\ At(c, "work")
  /\ \E outcome \in Outcomes :
       /\ outcome = "FAILED" => call[c].kind \in {"look", "prove"}
       /\ rows' = [rows EXCEPT ![call[c].seq] = outcome]
  /\ run' = Finished(c)
  /\ Goto(c, [call[c] EXCEPT !.pc = "check", !.row = Finished(c)])
  /\ UNCHANGED <<verified, history>>

Check(c) ==
  /\ At(c, "check")
  /\ \/ verified /\ Goto(c, [call[c] EXCEPT !.pc = "conclude", !.next = "COMPLETED"])
     \/ ~verified /\ call[c].kind = "ask" /\ Goto(c, [call[c] EXCEPT !.pc = "conclude", !.next = "BLOCKED"])
     \/ ~verified /\ call[c].kind # "ask" /\ Return(c)
  /\ UNCHANGED <<run, rows, verified, history>>

\* Mutant: the step of an action that threw is left to be tried again.
FailRetried(c) ==
  /\ At(c, "work") \/ At(c, "fail")
  /\ Stopping(c, call[c].row, "FAILED")
  /\ UNCHANGED <<run, rows, verified, history>>

\* The action throws: one transaction for the step row; the run row follows in stop().
Fail(c) ==
  /\ At(c, "work") \/ At(c, "fail")
  /\ rows' = [rows EXCEPT ![call[c].seq] = "FAILED"]
  /\ Stopping(c, Advanced(call[c].row, call[c].seq), "FAILED")
  /\ UNCHANGED <<run, verified, history>>

Stop(c) ==
  /\ At(c, "stop") \/ At(c, "conclude")
  /\ run' = [call[c].row EXCEPT !.status = call[c].next]
  /\ Goto(c, Idle)
  /\ UNCHANGED <<rows, verified, history>>

-----------------------------------------------------------------------------
(* pause, resume, and opening the workspace *)

\* pause() and resume() read the row before their transaction.  So does the reconciliation that
\* every process runs when it opens the workspace, which only looks for RUNNING runs.
Request(c, what) ==
  /\ Free(c)
  /\ what = "reconcile" => MultiProcess /\ run.status = "RUNNING"
  /\ Goto(c, [Idle EXCEPT !.pc = what, !.row = run])
  /\ UNCHANGED <<run, rows, verified, history>>

Pause(c) ==
  /\ At(c, "pause")
  /\ run' = [call[c].row EXCEPT !.status = "PAUSED"]
  /\ Goto(c, Idle)
  /\ UNCHANGED <<rows, verified, history>>

\* Mutant: every step is marked, not only those that are RUNNING.
InterruptedAll == [i \in Slots |-> IF rows[i] = "NONE" THEN "NONE" ELSE "INTERRUPTED"]

\* The steps that were cut off.
Interrupted == [i \in Slots |-> IF rows[i] = "RUNNING" THEN "INTERRUPTED" ELSE rows[i]]

Resume(c) ==
  /\ At(c, "resume")
  /\ rows' = Interrupted
  /\ run' = [call[c].row EXCEPT !.status = "READY"]
  /\ Goto(c, Idle)
  /\ UNCHANGED <<verified, history>>

Reconcile(c) ==
  /\ At(c, "reconcile")
  /\ rows' = Interrupted
  /\ run' = [call[c].row EXCEPT !.status = "PAUSED"]
  /\ Goto(c, Idle)
  /\ UNCHANGED <<verified, history>>

-----------------------------------------------------------------------------
(* Failures and the rest of the system *)

\* A transaction is refused and its mutate() throws.  Inside executeDecision's try block the
\* step is then recorded as failed; everywhere else the call ends.
WriteThrows(c) ==
  /\ WritesFail
  /\ \/ /\ \E pc \in {"launch", "insert", "fail", "work", "stop", "pause", "resume", "reconcile"} : At(c, pc)
        /\ Goto(c, Idle)
     \/ At(c, "work") /\ Goto(c, [call[c] EXCEPT !.pc = "fail", !.row = Finished(c)])
     \/ At(c, "dispatch") /\ call[c].kind = "subclaim" /\ Goto(c, [call[c] EXCEPT !.pc = "fail"])
     \/ At(c, "conclude") /\ Goto(c, [call[c] EXCEPT !.pc = "fail"])
  /\ UNCHANGED <<run, rows, verified, history>>

\* The one process is killed; the next one opens the workspace before anything else.
Restart ==
  /\ Kills /\ ~MultiProcess
  /\ call' = [c \in Calls |-> Idle]
  /\ IF run.status = "RUNNING"
     THEN run' = [run EXCEPT !.status = "PAUSED"] /\ rows' = Interrupted
     ELSE UNCHANGED <<run, rows>>
  /\ killed' = TRUE
  /\ UNCHANGED <<verified, made, spent>>

\* One of several processes is killed.
Kill(c) ==
  /\ Kills /\ MultiProcess
  /\ call[c].pc # "idle" /\ Goto(c, Idle)
  /\ killed' = TRUE
  /\ UNCHANGED <<run, rows, verified, made, spent>>

\* The gate verifies the objective, or a merge makes it stale.
Objective ==
  /\ MultiProcess \/ \A c \in Calls : call[c].pc \notin Writing
  /\ verified' = ~verified
  /\ UNCHANGED <<run, rows, call, history>>

Advance(c) ==
  \/ Launch(c) \/ Loop(c)
  \/ PlannerThrows(c) \/ PlannerStops(c) \/ (\E kind \in Kinds : Decide(c, kind)) \/ Insert(c)
  \/ Look(c) \/ (\E body \in BOOLEAN : Prove(c, body)) \/ Subclaim(c)
  \/ Finish(c) \/ Check(c) \/ Fail(c) \/ Stop(c)
  \/ Pause(c) \/ Resume(c) \/ Reconcile(c)

Next ==
  \/ \E c \in Calls :
       \/ Start(c) \/ StepOnce(c) \/ \E what \in {"pause", "resume", "reconcile"} : Request(c, what)
       \/ Advance(c) \/ WriteThrows(c) \/ Kill(c)
  \/ Restart \/ Objective

Spec == Init /\ [][Next]_vars

\* A call in flight goes on: planner, prover and services answer or time out, and the event loop
\* runs what became ready in turn, however often other calls come between.
FairSpec == Spec /\ \A c \in Calls : SF_vars(Advance(c))

-----------------------------------------------------------------------------
(* Properties *)

\* The record has no holes: every step the run counts as done has an outcome, and no step is
\* begun before the one in front of it has its outcome, whatever is killed, refused or overwritten.
RecordComplete ==
  /\ \A i \in Slots : i <= run.step => rows[i] \in Outcomes
  /\ \A i \in Slots : i + 1 \in Slots /\ rows[i + 1] # "NONE" => rows[i] \in Outcomes

\* The step whose result was refused is charged again when it is recorded as failed.
Recharged == IF WritesFail THEN 1 ELSE 0

\* The budget on record is never overdrawn, however many controllers lose each other's updates.
\* An attempt counts twice, when it is charged and with its result, so the last one may exceed.
UsageWithinLimits ==
  /\ run.steps <= MaxSteps + Recharged
  /\ run.model <= MaxModelCalls
  /\ run.proof <= MaxProofAttempts + 1

\* With one controller in one process the engine is never more than one step ahead of the run row:
\* there is at most one step to take up after a crash, the next one.
OneStepAhead == \A i \in Slots : i > run.step + 1 => rows[i] = "NONE"

\* With one controller in one process no pause, resume or restart executes a step again that has an
\* outcome, takes the run back to an earlier step or forgets usage that was on record.
NothingTakenBack ==
  [][/\ \A i \in Slots : rows[i] \in Outcomes => rows'[i] = rows[i]
     /\ run'.step >= run.step /\ run'.steps >= run.steps
     /\ run'.model >= run.model /\ run'.proof >= run.proof]_vars

\* In one process a run completes only while its objective is verified: no planner can claim it,
\* and no result that was retracted during an await counts.
CompletionEarned == [][run.status # "COMPLETED" /\ run'.status = "COMPLETED" => verified]_vars

\* No transaction is refused: a controller that steps or runs comes to an end, unless a process
\* was killed.
RunEnds == \A c \in Controllers : call[c].pc # "idle" ~> call[c].pc = "idle" \/ killed

\* "an objective and a budget": a run comes to an end, whatever was killed before.
RunAlwaysEnds == \A c \in Controllers : call[c].pc # "idle" ~> call[c].pc = "idle"

\* "all repository ... writes for one semantic transition": unless a process was killed, between
\* two transitions the run has counted the steps that have outcomes.
OutcomesCounted ==
  ~killed /\ (\A c \in Calls : call[c].pc \notin Writing) =>
    Cardinality({i \in Slots : rows[i] \in Outcomes}) = run.steps

\* What a step creates is created once, unless a process was killed.
CreatedOnce == ~killed => \A i \in Slots : made[i] <= 1

\* "within a budget": the model calls a run really made stay within its limit, unless a process
\* was killed.
SpendingWithinBudget == ~killed => spent <= MaxModelCalls
=============================================================================
