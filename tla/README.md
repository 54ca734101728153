# A verification project for MathOS

MathOS keeps a mathematical workspace: claims, their formalizations in Lean, proofs, human
approvals, experiments, literature, teams of research agents. This directory holds TLA+ modules
that model its core, TLC configurations that check them on small instances, and TLAPS proofs of
the main results for every instance. Paths below are relative to `src/packages/` unless they
start with `docs/` or `apps/`.

- [The system](#the-system)
- [The plan](#the-plan)
- [VerificationGate and TrustModel](#verificationgate-and-trustmodel)
- [EventProjection](#eventprojection)
- [ResearchRun](#researchrun)
- [TeamResearch](#teamresearch)
- [ArtifactImport](#artifactimport)
- [Updater](#updater)
- [What is proved](#what-is-proved)
- [Limits](#limits)

## The system

Everything lives in one SQLite database per workspace plus a few files beside it. The command
line, the terminal and desktop interfaces and the VS Code extension each open the workspace in a
process of their own; inside a process the services are asynchronous methods that interleave at
their awaits. A service changes rows through `MutationRecorder.mutate`, which runs the change and
an event row in one SQLite transaction.

| Component | State it keeps | Operations | Interacts with | Hard behaviour | What makes it correct |
|---|---|---|---|---|---|
| Verification gate (`core/src/services/verification-service.ts`, `core/src/verify.ts`, `storage/src/internal/verification-claim-promoter.ts`) | `verification_runs`, the status of a claim | `verify`, `promoteVerifiedClaim` | Lean (await), formal statements, proofs, alignments, triggers | everything read before Lean answers can be outdated after; several processes | a verified claim has, and keeps, exactly the evidence it was promoted on |
| Formalization and alignment (`formalization-service.ts`, `alignment-service.ts`, `statement-revision-service.ts`) | `formal_statements`, `statement_revisions`, `formal_alignments` | `formalize`, `approveFormal`, `rejectFormal`, `run`, `approve`, `reject`, `capture`, `backfillLegacy` | model providers (await), the gate | late answers, crash between transactions | one current statement per claim; an approval is bound to what was approved |
| Proof search (`proof-service.ts`, `prove.ts`, repair, portfolio) | `proof_attempts` | `prove`, rounds, repair | models and Lean (await), the gate | proof of a statement that is no longer current | an accepted proof names the statement Lean checked |
| Claims, contexts, branches, experiments | `claims`, `context_*`, `branches`, `experiments` | create, apply context, fork, merge, run experiment | write the status of a claim | stale previews, writers of one column | none of them makes a claim verified or removes evidence |
| Event history (`events/src`) | `events`, `event_projection_health`, `events.jsonl`, `events.jsonl.lock` | `mutateAndRecord`, `record`, `inspect`, `rebuild` | every mutation of every service | kills at any instruction, stale locks, failed writes, several processes | rows canonical, file never ahead, gaps on record, rebuild complete |
| Research runs (`research-engine.ts`) | `research_runs`, `research_steps`, planner cursors | start, step, run, pause, resume, stop | planner, prover, verifier (await) | pause while a step awaits, crash and resume, budgets | one outcome per step, budgets hold, a run that began ends |
| Research teams (`team-research-coordinator.ts`) | sessions, workers, round plans, leases, imports | start, step, pause, resume, cancel, propose, reject and apply an import | research runs, branches, the gate | leases that expire under a live worker, stale sessions, imports applied late | one holder per lease, imported artifacts stay faithful to their source |
| Reviews and semantic merge | reviews, merge previews | request, decide, preview, merge | branches, claims | preview stale at merge | only what was reviewed is merged |
| Plugins, assistant | grants, approvals | install, grant, call, revoke; propose, approve, cancel | services | approval used after a change | nothing runs without a current grant |
| Model router, provider clients | health, usage, budgets | complete, fall back | network | retry of what was done, budget shared by calls | budgets hold, fallback order kept |
| Lean installation, updater | toolchain, staged versions | install, stage, activate, roll back | file system, network | kill between two renames | an installed version is complete, rollback restores |
| Workspace, backup, version control | files, lock, archives | open, init, back up, restore | file system, git | two processes open at once | one writer, restore is what was saved |
| Graph, retrieval | views and rankings | build, query, rank | read only | cycles, ties | results equal their definition |
| Computation, literature, solvers, publication, notebooks | rows and files of their own | run, search, ingest, render | sandbox, network | timeouts | results are never taken as proof |
| User interfaces (`apps/`) | view state | call the services | all of the above | stale views | none of their own |

The components at the heart are the verification gate, which everything else feeds and which
the trust model of `docs/TRUST_MODEL_V1.md` is about, the event history, which every mutation
of every service goes through, and the research run, the loop that drives the other services,
alone or as one of the workers of a team.

## The plan

In order of importance. Items 1 to 6 are done; the others are not begun.

1. `TrustModel`, `VerificationGate`, `VerificationGateProofs`: how a claim is verified, as the
   implementation of an abstract trust model.
2. `DurableHistory`, `EventProjection`, `EventProjectionProofs`: the durable history and its lock,
   as the implementation of a history without processes.
3. `ResearchRun`, `ResearchRunProofs`: one research run, its steps, budgets, pause and crash
   recovery, with one controller and with several. An abstract ledger, in which a step is charged
   once and a pause holds until `resume`, is not stated: the code departs from it, and the
   properties say what is left of it.
4. `TeamRounds`, `TeamResearch`, `TeamResearchProofs`: several runs under a session with rounds,
   leases and timeouts, as the implementation of rounds to which every worker contributes.
5. `ArtifactImport`, `ArtifactImportProofs`: a worker's verified claim in another worker's branch,
   and the one current branch that imports and steps share.
6. `Updater`, `UpdaterProofs`: the file system protocol of an update, with kills.
7. `BranchMerge` and `Review`: preview, review and merge as three steps of different actors.
8. `LeanInstall`, `WorkspaceLock`; `PluginGrants`, `AssistantActions`, `ModelRouter`.
9. Pure algorithms against reference definitions: graph impact, rank fusion.

| Module | Composes with |
|---|---|
| `TrustModel` | implemented by `VerificationGate` |
| `DurableHistory` | implemented by `EventProjection` |
| `TeamRounds` | implemented by `TeamResearch` |
| `ResearchRun` | one run; `TeamResearch` keeps of it whether it is live, blocked or completed |
| `ArtifactImport` | keeps of `VerificationGate` whether source and target are approved and verified, and of a step of `ResearchRun` its branch |

Modules to be proved about use recursive functions and folds and no RECURSIVE operator, keep their
parameters as CONSTANTS with a named assumption, and have one action per operation or per piece of
an operation between two points where another actor can intervene.

## VerificationGate and TrustModel

**State.** A claim's status, the formal statements, accepted proofs and accepted runs with the
columns the guards read, the latest natural and formal revision of each claim, the alignments, the
context in force, and `job`: for each call in flight, where it is and what it has read. A row that
does not exist yet has `None` for its claim. Failed runs and attempts, fidelity reviews and
events are left out, because no guard reads them.

**Actions.** A method that awaits is split at its awaits: `VerifyBegin` (reads), `VerifyGate`
(Lean answered, the report), `Promote` (the transaction). Where a method does several transactions
in a row without an await it is split between them as well, because a process can die there and,
with `MultiProcess`, another process can get in: `FormalizePersist`, `CaptureNatural`,
`CaptureFormal`; `ApproveBegin`, `ApproveWrite`, `BindApproval`. `Turn` and `Quiet` express that
within one process such a stretch is not interrupted. `Throw` is any call failing at any point,
and, for all calls of a process together, its crash. The verdicts of Lean and of the models are
free choices. `EvidenceBacks` is the join in `promoteVerifiedClaim` and in the trigger
`claims_kernel_verified_update_guard`; `Frozen` is the trigger that refuses to change a statement
behind a verified claim.

**Abstraction.** `TrustModel` knows the set of verified claims and the backing of each. It
promises that backing only grows while a claim is verified, that promotion needs backing, and that
retraction is explicit. `ImplementsTrustModel` maps the tables to it.

| Run | Question | Bounds |
|---|---|---|
| `gate` | Do two calls of one process disturb each other, does evidence survive merges, re-formalization and a second verification, and do the services implement `TrustModel`? | 1 claim, 2 jobs, 2 statements, 2 proofs, 2 runs, 1 alignment, 2 revisions, 2 contexts |
| `gate_approval_binding` | Does an approval name what the human approved? (violated) | 1 job |

One claim suffices because no guard relates two claims, except that rows of different claims must
not be mixed; the proofs cover any number. Two statements are what it takes for one to be stale.
Symmetry over jobs and contexts is sound: no property distinguishes them and there is no liveness here.
Deadlock is not checked, because full tables stop the model. `PromotionNeedsCurrentApproval` and
`OnlyMergeRetracts` are claimed for one process only: across processes `approveFormal` may write
back the status it read before another process promoted the claim. That the transactions and
triggers suffice when every call is in a process of its own is not a run but what the theorems
about the other six say, which do not assume one process.

**Finding.** `gate_approval_binding`: `approveFormal` takes the id of any statement and then
approves the alignment of the claim's latest revisions, so approving an older statement approves
a newer one; the same happens after a crash between inserting a statement and capturing its
revision. `docs/ALIGNMENT_WORKFLOW.md` says that an approval is bound to exact revisions. It also
says that any change makes an approval stale; in the code and in the model a change of context
captures no revision, so an approval given in the old context stays current.

## EventProjection

**State.** `committed` rows (an event is its `projection_order`), the lines of `events.jsonl`, the
health row, the lock directory with the pid in its owner file (`by` is a history variable: who
made it), and for each process its place, its task, the owner it read and the rows it listed.

**Actions.** One per system call or transaction another process can observe: `MakeLock` (mkdir),
`WriteOwner`, `ReadOwner`, `Probe` (`kill(pid, 0)`), `BreakLock` (rm of an abandoned lock),
`Release` for `synchronize`; `Commit` or `Rollback`, `AppendLine` or `AppendThrows`, `Degrade`,
`List`, `Compare` for `mutateAndRecord` and `inspect`; `Snapshot`, `Replace`, `ReplaceThrows` for
`rebuild`; `RowsThrow` for a failing database; `End` for a process that exits or is killed
anywhere. What may go wrong is a scenario, a set of `Faults`: processes end, owner files are not
written, appends fail, rows cannot be written. `Scenarios` names the ones a run allows, and the
variable `faults` is the one of a behaviour. Each property says what it needs: the exclusion and
what rests on it that owner files are written, `GapReported` that nothing but appends fails. Half of
`OnlyBehind` needs nothing: that the file holds no line that is not a row.

**Abstraction.** `DurableHistory` is a table that grows, a file and a verdict on it, and five
operations each of which sees the table as it is: `Record`, `Project` (only the newest event, only
behind earlier ones), `Rebuild`, `Judge`, `Suspect`. There is no lock in it. `ImplementsDurableHistory`
says that the steps of all processes are such operations, as long as owner files are written, so
no append, rebuild or comparison works on rows that are outdated when its effect is seen.

| Run | Question | Bounds and assumptions |
|---|---|---|
| `events` | What can the file look like, what do rebuild and health promise, is an abandoned lock broken, and do the processes implement `DurableHistory`? | 2 processes, 2 events; three scenarios: appends fail; processes are killed too and rows fail; owner files fail too. Liveness, so no symmetry |
| `events_takeover` | Does the lock exclude when a third process takes over? (violated) | 3 processes, kills |

Two events tell a missing line from a reordered or a duplicated one. With kills, two processes are
the most for which exclusion holds: it takes one dead owner and two waiters to lose it, which is
the finding of `events_takeover`. One waiter reads the dead owner and is about to remove the
directory; the other does the same faster and makes a directory of its own; the first then removes
that. The same `rm` at release also removes a lock that is no longer one's own. A process may end
for good, so deadlock is not checked.

`AbandonedLockBroken` assumes weak fairness of each process's own steps: a running process goes on
running, and its loop sleeps 10 ms between attempts. Nobody is obliged to call, and a process may
give up after 30 s, which the property allows. No symmetry is used there. Assumptions: 5 s outlast
the gap between mkdir and the write of the owner file in a live process; a pid is not reused; a
process may be signalled by the others; a line is appended entirely or not at all. An owner file
left empty by a kill inside its write is never recovered from: the model has that state, and the
property does not promise anything about it, nor does the code's documentation.

## ResearchRun

**State.** The row of the run (`run`: status, current step and usage), the status of its step rows
by sequence (`rows`), whether the objective is `KERNEL_VERIFIED` (`verified`), and for each call in
flight its place and its copy of the row (`call`). `step()` reads the row once, works on the copy
across the awaits of the planner and of the action, and writes all of it back; so do `pause`,
`resume` and `stop`. This is where everything that can go wrong here comes from. `made` and
`spent` are history: how often the subclaim of a step was created, and how many model calls were
answered. No action reads them.

**Actions.** `Start` and `Launch` are `run()` up to its loop, `Loop` one turn of it, `StepOnce`
a `step()` of its own. `Enter` reads the row, checks it and charges the planner's call to the copy.
At the first await the call is in `plan`; the planner fails (`PlannerThrows`), stops or is not
understood (`PlannerStops`), or chooses an action (`Decide`, which looks for the row of the
next sequence). Then come the writes of `executeDecision`: `Insert` of the step row, `Look`,
`Prove` or `Subclaim` up to the second await, `work`; `Finish`, the transaction of step and run,
or `Fail`, the transaction of the step alone; `Check` of the objective; `Stop`. `Request` begins
`pause`, `resume` or the reconciliation at open, which read before they write. The places in
`Writing` are inside synchronous stretches: within one process no other call intervenes there,
but the process may be killed (`Restart`, which opens the workspace again at once), and with
`MultiProcess` every call is in a process of its own and is killed alone (`Kill`). `WriteThrows`
is a transaction that is refused, with what the `catch` around it does. `Objective` is
the rest of the system: the gate verifies the objective, a merge makes it stale.

Lean calls are charged like model calls and left out. So are blockers, the focus and the reason of
a stop, which decide nothing; the status `CANCELLED`, which no method of the engine sets; and the
branch of `executeDecision` that recovers an interrupted result, which no row reaches, because a
row without outcome has an empty result.

| Run | Question | Bounds |
|---|---|---|
| `research` | Does the record only go forward when the process is killed anywhere, is a completion earned, and, until the first kill, does every step count, act and charge once and every call end? | 1 controller and 1 other call, 3 steps, 4 model calls, 2 attempts; liveness, no symmetry |
| `research_refused` | Does the record have holes, or is the budget on record overdrawn, when controllers lose each other's updates, processes die and transactions are refused? | 2 controllers in 2 processes, 2 steps, 2 model calls, 1 attempt |
| `research_loop` | Does every call of `run()` come to an end? (violated) | 1 controller, 2 steps, 3 model calls, 2 attempts |

Two calls are one controller and one that pauses, resumes or reconciles, or two controllers that
lose each other's updates. One controller is what the interfaces allow: the desktop application
disables its buttons while a call of its own is under way. A second process may
still step the same run, and the run with two controllers is about that. Two steps are one to
complete and one to take up again; each limit is reached in every run. `research_refused`
leaves the history out of the fingerprint (`VIEW`), which changes nothing for properties that
do not mention it. Deadlock is checked: a call can always be made.

`RunEnds` assumes strong fairness of each call's own steps. Planners, provers and services answer
or time out, so an await ends; the event loop runs what became ready in turn, so a call that is
ready again and again, between the synchronous stretches of others, gets its turn, which weak
fairness would not say. Nobody is obliged to start a call.

**Finding.** `research_loop`: the outcome of an action that throws and the run row are written in
two transactions. After a kill between them and a resume, `executeDecision` finds the outcome under
the key of its next step and returns the `RUNNING` run without storing anything, so `run()` goes
round for ever, asking the planner each time, and no budget ever counts it.

**What a kill takes away.** `OutcomesCounted`, `CreatedOnce`, `SpendingWithinBudget` and `RunEnds`
are stated up to the first kill (`killed`), because the code does not keep them after one.
Besides the loop above: a subclaim is committed before the step row knows of it, so a step cut off
in between creates it again, although `tests/research-hardening.test.ts:118` says it does not; and a
model call is charged to the copy of the row, which a kill or a failing planner throws away.
Without any kill, a step under way when the run is paused writes `RUNNING` over `PAUSED`, and
`run()` goes on (`apps/desktop/src/views/Research.tsx:26` says that pausing is immediate); no
property claims otherwise.

## TeamResearch

**State.** The rows: the session (status, round, and one counter of the usage that is reserved
during a step), the rounds by sequence, who has made progress in which round, the status of the
workers and of their runs, the workers with a solution candidate, the leases. In memory: the calls
of `runTeam` and `stepTeam` in flight, each with the copy of the session it read before the round;
the worker steps in flight; the steps that have outlived their time limit (`orphans`); the
requests to pause and cancel. `setup` is what `startTeam` has fixed: the checkers, and the width
of a chunk (width 1 is the sequential mode). A worker's run is the subject of `ResearchRun`; here
it is live, blocked or completed. `spent` is history.

**Actions.** `Enter` is `stepTeam` up to the round, `Plan` the choice of the eligible workers,
`Chunk` one turn of the loop over slices: each worker takes a lease and begins its step, and one
that is leased already throws. A step is one await (`Answer`, `Throw`, `Timeout`) during which
calls are reserved (`Charge`) in a transaction that reads the session; then come its writes,
`Progress`, `Candidate`, `Release`, between which only a kill intervenes. `Promise.all` rejects
with the first worker that throws, so `Fail` and `Halt` run while the others of the chunk go on.
`Finish` reads the session again and completes the round; `Decide` looks at the requests, the
candidates and the workers. `PauseTeam`, `CancelTeam` and `ResumeTeam` come at any await, `Restart`
anywhere; it forgets what is in memory and leaves the leases. `Retract` is the rest of the system
taking a worker's verification back.

**Abstraction.** `TeamRounds` knows which rounds are over, who has contributed to which round, whose
run is live, who is blocked, and what the user has asked for. It promises that a worker contributes
once to a round and only while it is not blocked, that blocked is for good, that a run that has
stopped comes back only behind a blocked worker, and that a round nobody cuts short ends when every
worker that is left has contributed. `ImplementsTeamRounds` maps the rows to it.

| Run | Question | Bounds |
|---|---|---|
| `team` | Do leases, rounds, blocked workers and usage stay in order, whatever fails, times out or is killed, and does the session implement `TeamRounds`? | 2 workers, 2 calls, width 2, 2 rounds, 1 call on the budget |
| `team_overspend` | Does the limit of the session hold? (violated) | 2 workers, 1 call, 1 round, no kills |

Two workers are a chunk in which one can fail while the other goes on, or, with width 1, two
chunks between which a pause comes; the second call is the one that begins while steps of the
failed round go on. Two rounds are one to be left unfinished and one to be reached too early.
Agents are numbers, because a slice takes them in the order of their ids, so there is symmetry in
the calls only. `team` leaves the history `spent` out of the fingerprint (`VIEW`): no action reads it,
and of the run's properties only the type invariant mentions it. Deadlock is checked.

`Impatient = FALSE` in both runs: the user starts a call when none is under way and resumes when no
step is in flight. The interfaces suggest it and the code does not check it: `resumeTeam`
interrupts whatever lease it finds. With `Impatient = TRUE` one worker can be stepped twice at
once, and `StepUnderLease` and `RoundsInOrder` are lost, and with them what the proofs of
`BlockedForGood` and `ImplementsTeamRounds` rest on.

**Finding.** `team_overspend`: when a worker throws, `stopTeam` writes the session as it was before
the round over what its colleagues have reserved meanwhile. `OnlyFailureForgets` says that
this is the only such place.

Left out: `startTeam`, which builds the initial state and has nothing beside it; the digest,
except for the checkers' verdict; the stop for `LOW_ASSIGNMENT_DIVERSITY`, which `startTeam` has
excluded; the steps counter, which is written from differences; the exceptions with the message
`crash`, which only tests throw. A candidate counts for a checker while its claim is verified;
that its formal statement and run are the current ones as well is part of that here.

## ArtifactImport

**State.** One import: its row (`imp`), the source claim (verified, approved, the record number of
its formal statement and run, the text), the dependencies, what stands in the target's branch
(`rival`), the claims that were made for the import and how far each has come (`clone`: a claim,
its natural revision, its statement, the statement's revision, the proof), the current branch of the workspace and the
abandoned ones, and the calls in flight, each with its copy of the row and the branch it will
switch back to.

**Actions.** `Propose`, `Reject`, and `Apply` up to `APPLYING`, with the refusals in the order of
the code. Then one action for each transaction, because a kill may come between any two:
`SwitchToTarget`; `MakeClone` and `CaptureNatural`, which are `createClaim`; `RecordTarget`,
`BindRevision`, `StoreProof`, `CheckTarget`; the await of the verification (`Answer`); `Finalize`,
which reads everything again; `Restore`, the `finally`. `WriteThrows` is the refusal of any of these
transactions: nothing is undone but that transaction, and the `finally` runs; if the refused one is
the `finally`'s own switch, the call ends in the branch it was in. A refusal before the `try` changes
nothing and needs no action. `StepBegin`, `StepAct`, `StepEnd` are a worker's research step as far as the current
branch goes. The rest is the world at the awaits: source and clones are approved, verified, merged
and formalized anew, lemmas and dependencies change, the user switches and abandons branches.
`Restart` ends the process, in the middle of calls or not, and opens the workspace again, which
supplies the revisions that are missing (`Backfilled`).

| Run | Question | Bounds |
|---|---|---|
| `imports` | Is an import applied on evidence that still stands, is its target kept and complete, and is the user left in the right branch? | 2 calls, 1 lemma, 2 texts, 2 records, 2 clones, 3 changes by the world, kills or refusals |
| `imports_isolation` | Does what a worker makes stay in its branch? (violated) | 2 calls, no changes, kills or refusals |

Two calls are two applications that overlap, or one and a worker's step. Three changes are the
approval of the clone, which every application that succeeds needs, and two more: one that
spoils and one that repairs, a rejection, a kill or a refused transaction. Two clones are enough
for the one that was cut short and the one that is made instead. `MaxMoves` ends the behaviours, so deadlock is not
checked. Symmetry in calls, lemmas and texts is sound: there is no liveness.

`BranchRestored` speaks of calls that did not overlap each other or a switch, and whose own switch
back was not refused (`disturbed`): the `finally` has no second chance, and the user is left in the
branch of the target.

`NothingHalfDone` holds in its first part whatever is killed or refused: the row never names a target
without a statement, because one transaction writes both. The second part, that there is no other
claim and the statement has a revision of its own, is stated until the making of a clone is cut short
(`torn`): by a kill or a refused transaction between the claim (`team-research-coordinator.ts:745`)
and the revision of its statement (`:761`). The code does not keep it after that. Before the row
names the claim, the claim stays behind, and the next application makes a second one. After that, the
target has a statement without a revision; the import is `FAILED` until the next opening supplies
one, but in the context `CR-LEGACY`, which is not the natural revision's, so that the target cannot
be approved until it is formalized anew. Anything else that is killed or refused, the switch, the
proof, the checks, the verification or the final transaction, leaves the clone whole. All of this is
in the model; `docs/multi-agent-quality.md` promises nothing about kills or refusals there.

**Finding.** `imports_isolation`: two steps in parallel share the one current branch, and the
subclaim of the first is made in the branch of the second.

Left out: several imports at once; sessions and agents that do not match, which the interfaces do
not offer; the file in the worktree (that it cannot be written is, for the states here, a refusal
after the proof has been stored); an import being applied while the worker is leased, which
`applyImport` refuses.

## Updater

**State.** The executable, the one before it at `<current>.previous`, the copies the call has made
(`saved`, `prior`), the copies that calls have left behind (`strays`), the place in the call.
`before` is history: what the last call found.

**Actions.** One per file system call of `applyAtomicUpdate` and `rollbackUpdate`, each of which
may fail, with what the `catch` around it does; `Smoke` is the test after the installation; `Kill`
ends the process between any two. A file that is being copied is left out, because its name is
unique and nothing reads it before it is whole; renames are atomic. One updater at a time is
assumed: the code takes no lock.

| Run | Question | Bounds |
|---|---|---|
| `updater` | Is the canonical path ever empty, is anything lost that a call found, is the result true? | 3 versions; no other bound |

Three versions are the candidate, the executable and its backup. Symmetry is sound, there is no
liveness. A call can always be made, so deadlock is checked. The `cause` of an error is left out,
as are `checkUpdate`, which compares versions, and `uninstallMathOS`.

## What is proved

`tlapm` checks every theorem for all values of the constants.

`VerificationGateProofs`. Types (`TypeCorrect`). The inductive invariant is `Inv`: types, stored
runs refer to rows of their claim (`RunsReferToRows`), a verified claim has its evidence
(`VerifiedHasEvidence`), one current statement (`OneCurrentFormal`). `VerifiedHasEvidence` alone
is not inductive: that a formalization keeps the current statement of a verified claim depends on
the trigger finding the run that names it, hence the other parts. From `Inv` follow the action
properties `EvidenceImmutable` and `AcceptedRunPromotes`, and `ImplementsTrust`: each action is
mapped to gathering, promotion or retraction of `TrustModel`. For one process a second invariant
describes a synchronous stretch: the other calls stand still in it, so what `VerifyGate` saw still
holds in `Promote`; from it follow `PromotionIsApproved` and `OnlyMergeTakesBack`.

`EventProjectionProofs`. Types (`TypeCorrect`) without any assumption on failures; it needs
`Numbered`, that a row about to be appended has a number. `FileIsNeverAhead` needs no assumption
either: what a process writes was listed or committed before (`Listed`), and rows are not deleted.
`GapIsReported` follows from a process that attends to every gap (`GapAttended`), for any number of
processes, and needs no lock: it speaks of behaviours in which nobody dies.
The rest speaks of behaviours that are `Sheltered`: owner files are written, and either nobody is
killed or there are at most two processes. Then `LockHeld` is inductive: the lock names the process
inside from mkdir to rm, and a process about to break a lock is the only one alive. `Protected` adds
what the section protects: the process inside knows the committed history (`Known`), the row it is
about to append is the newest (`NotAppended`), the lines are in order (`Ordered`). From it follow
`SectionIsExclusive`, `FileOnlyBehind`, `RebuildIsComplete` and, step by step, `ImplementsHistory`;
`GapIsNotHidden` is a consequence of the last that is stated for the reader. These theorems assume `Protectable`: the constants allow only behaviours that are
sheltered or that lose owner files, of which the properties say nothing. With kills and
three processes the exclusion is false, as `events_takeover` shows; the configuration of `events`, two
processes with kills, is covered.

`ResearchRunProofs`. Types and `RecordIsComplete` hold for any number of controllers, processes,
kills and refused transactions. `RecordComplete` alone is not inductive: a call writes rows and run
from a copy read long before. `Record` adds what each copy still says truly (`Copy`): steps it
counts have outcomes, and the sequence it is about to use follows one that has its outcome. It is
kept because rows with outcomes only get other outcomes and no row is taken back (`Grow`), whoever
writes. `Budget` says of each copy how much the call may still charge at its place (`Budgeted`);
with it `UsageStaysWithinLimits` holds for any number of controllers. Two amounts over the limits
are stated in it, because the code charges them: an attempt counts when it starts and with its
result, and a step whose `Finish` is refused counts again when it is recorded as failed
(`Recharged`). Within one process `Earned`
says that a call about to write `COMPLETED` is in a stretch in which the objective is still
verified. Under `Single`, one process, one controller and no refused transaction, `Alone` says
that a copy in a synchronous stretch is the row itself, and the controller's copy is ahead of the
row or equal to it; every step then goes `Forward`, which gives `OneStepIsAhead`,
and `NothingIsTakenBack`. With two controllers both are false: the slower
one writes back an older row. Up to the first kill `Tallied` relates the history to the
record: the count of the steps is their sequence number, in the row and in every copy; a step row
beyond that count belongs to the call that is at work on it and will count it (`Taken`); a step that
has no row has created nothing, and none has created twice; and the model calls really made are on
record in the row or, while a call carries an answer it has not stored, charged in its copy
(`Spending`, `Settled`). With `Record` it gives `OutcomesAreCounted` (the rows with an outcome are
those up to the count) and `CreatedAtMostOnce`, and with `Budget`
`SpendingStaysWithinBudget`. A kill breaks all of it, by losing the copy.

`TeamResearchProofs`. Types, `UsageIsKept` and `LeaseIsGivenBack` hold with impatient users as well;
the latter two are read off the actions. `OneStepPerLease` is inductive with the types, for
`~Impatient`: a call begins only the steps whose leases it takes, a resume comes when none is in
flight, and a kill ends the steps and leaves the leases. `RoundsAreInOrder` needs more (`Order`): at
most one call is attended, and one inside a round is at the session's next round and its copy says
so, or what `Halt` writes back could be an earlier round.

`BlockedStaysBlocked` and `ImplementsRounds` need to know why the choice of workers a round begins
with is still right when its last chunk begins, since steps that a failed round has left behind may
go on beside it. The argument is `Fit`. Only one call or step is in the middle of a stretch
(`Sole`); a step under way has a worker that can take part in its round, and one that was answered
is not blocked, and no orphan (`Sound`); at the places between chunks a call has no steps of its own
(`Home`). The strays belong to the next round unless a request has cut one short, and fewer
workers than a chunk holds can step before theirs (`Strays`), because they began in the first
chunk their call had left, and everyone before that one had stepped or was blocked. Hence in
the next attempt strays are in the first chunk, whose leases they hold, and it fails at once; a
call that goes on to a second chunk has none beside it, and its queue is exactly the workers that can
step (`QueuedFor`). Whoever is blocked is not in it, and when it is empty nobody is left. The step to
`TeamRounds` also needs that strays are of the next round or an earlier one (`Late`).

`ArtifactImportProofs`. `Agreed` says that every call in flight carries the record and, from
`record` on, the target that the row names, which makes it harmless that each writes its copy of
the row over the others'; it gives `TargetIsReused`, and with the re-check in `Finalize`,
`AppliedIsEarned`. `Undisturbed` says that while nothing has been disturbed a call in flight is the
only one and will switch back to the branch the user chose (`BranchIsRestored`). `Attributed`
says of every clone which call is completing it, until one is cut short by a kill or a refused
transaction; `Named`, which needs no such condition, says that the target of the row has a statement
(together `ImportsAreWhole`).

`UpdaterProofs`. `Copied` says what the copies hold for the types. `Located` says at each
place in a call where the two generations are; with `GenerationsKept` it is inductive (`Kept`), and
it contains `ResultTrue`.

## Limits

Every safety invariant, action property and refinement that a passing run checks is also a theorem.
Only model-checked are the liveness properties `AbandonedLockBroken` and `RunEnds` (liveness
under fairness is out of the prover's reach). The theorems with the assumptions `Protectable`,
`Single`, `~Impatient` or `~MultiProcess` say nothing beyond them, and nothing more holds: the runs
that expect a violation and the sections above say what is lost. Nothing recursive is proved:
`Closure` is a recursive function of which the proofs use no more than that it is some set.

The six operations modules stand side by side: what one keeps of another (a run's status, whether a
claim is verified) is a free choice of the other's outcomes, not a refinement.

Not modelled, and why:

- `startTeam`, forking of branches, intake, `checkUpdate`, `uninstallMathOS`: sequences of writes
  without anything beside them.
- Several runs on one branch, several imports, several updaters: the code relates them only through
  the current branch and through fixed file names.
- Reviews and semantic merge, plugins, assistant, model router: of the inventory, these have
  protocols of their own worth modelling; they are left for later (items 7 and 8 of the plan).
- Lean, models, provider clients, literature, solvers, notebooks, publication, computation: input
  and output around rows; their verdicts and failures are free choices in the modules above.
- Knowledge graph and retrieval: pure functions of the rows, without state.
- The interfaces, the localisation tables and the retrieval fixtures, which make up most of the
  repository's lines: they hold no state of the system.
