---------------------------- MODULE TeamResearch ----------------------------
(***************************************************************************)
(* A team session: in each round every eligible worker makes one step of   *)
(* its own research run, under a lease, in chunks of bounded width.  The   *)
(* session ends when a candidate is accepted, a limit is reached or every  *)
(* worker is blocked; a user may pause, resume and cancel it meanwhile.    *)
(*                                                                         *)
(* The program is one process.  Between two awaits nothing interleaves     *)
(* but a kill.  A step of a worker is one await: it is answered, throws,   *)
(* or is given up after the time limit, and then goes on unattended.       *)
(*                                                                         *)
(* A worker's run is the subject of ResearchRun; here it is live, blocked  *)
(* (or failed) or completed.  Of the usage only one of the counters        *)
(* reserved during a step is kept.  Starting a team, the digest and the    *)
(* diversity of the assignments decide nothing here.                       *)
(***************************************************************************)
EXTENDS Integers, FiniteSets

CONSTANTS
  Agents,       \* the workers, as numbers: the order of their ids
  Drivers,      \* calls of runTeam or stepTeam that may be in flight together
  MaxWidth,     \* HARD_MAX_PARALLEL_WORKERS; a width of 1 is the sequential mode
  MaxRounds,
  MaxCalls,     \* maxTotalModelCalls
  Kills,        \* TRUE: the process is killed, and the workspace is opened again
  Nobody,       \* no call holds the lease
  Impatient     \* TRUE: the user starts a call, or resumes, while another one is under way

ASSUME ConstantsAssumption ==
  /\ Agents \subseteq Nat /\ IsFiniteSet(Agents)
  /\ Nobody \notin Drivers
  /\ MaxWidth \in Nat \ {0}
  /\ {MaxRounds, MaxCalls} \subseteq Nat
  /\ {Kills, Impatient} \subseteq BOOLEAN

Final == {"SOLUTION_FOUND", "CANCELLED"}
Status == Final \union {"READY", "RUNNING", "PAUSED", "BLOCKED"}
Setup == [checkers : SUBSET Agents, width : 1 .. MaxWidth]
Session == [status : Status, round : 0 .. MaxRounds, calls : 0 .. MaxCalls]
RoundStatus == {"NONE", "RUNNING", "COMPLETED", "FAILED", "INTERRUPTED"}
Rounds == 1 .. MaxRounds
RunStatus == {"LIVE", "BLOCKED", "COMPLETED"}

VARIABLES
  setup,      \* what startTeam has fixed: the workers that are checkers, maxParallelWorkers
  session,    \* the row of multi_agent_sessions
  rounds,     \* multi_agent_rounds.status, by sequence
  progress,   \* agent_round_progress
  agent,      \* research_agents.status
  runs,       \* the workers' research runs
  verified,   \* workers whose local claim is KERNEL_VERIFIED
  solved,     \* workers with a row in solution_candidates
  lease,      \* the call that holds the worker's RUNNING lease, or Nobody
  call,       \* the calls in flight
  task,       \* the worker steps in flight, by call and worker
  orphans,    \* steps that go on after their time limit
  asked,      \* the requests held in memory: {"pause", "cancel"}
  spent       \* history: model calls reserved so far, up to one above the limit

store == <<setup, session, rounds, progress, agent, runs, verified, solved, lease>>
memory == <<call, task, orphans, asked>>
vars == <<store, memory, spent>>

\* Places in the middle of a synchronous stretch.
CallWriting == {"loop", "plan", "chunk", "fail", "halt", "finish", "decide"}
TaskWriting == {"timed", "answered", "candidate", "thrown", "release"}

NewSession == [status |-> "READY", round |-> 0, calls |-> 0]
Idle == [pc |-> "idle", loop |-> FALSE, seq |-> 1, copy |-> NewSession, queue |-> {}]
Call == [pc : CallWriting \union {"idle", "await"}, loop : BOOLEAN, seq : Nat \ {0},
         copy : Session, queue : SUBSET Agents]
Task == TaskWriting \union {"none", "checking", "step"}

\* The call works on a round, or steps of a round that has failed go on.
InRound(d) == call[d].pc \notin {"idle", "loop"} \/ \E a \in Agents : task[d][a] # "none"

TypeOK ==
  /\ setup \in Setup
  /\ session \in Session
  /\ rounds \in [Rounds -> RoundStatus]
  /\ progress \subseteq Rounds \X Agents
  /\ agent \in [Agents -> {"READY", "RUNNING", "BLOCKED"}]
  /\ runs \in [Agents -> RunStatus]
  /\ verified \subseteq Agents /\ solved \subseteq Agents
  /\ lease \in [Agents -> Drivers \union {Nobody}] /\ orphans \subseteq Agents
  /\ call \in [Drivers -> Call]
  /\ \A d \in Drivers : InRound(d) => call[d].seq \in Rounds
  /\ task \in [Drivers -> [Agents -> Task]]
  /\ asked \subseteq {"pause", "cancel"}
  /\ spent \in 0 .. MaxCalls + 1

\* startTeam has made the workers, their branches, claims and runs.
Init ==
  /\ setup \in Setup
  /\ session = NewSession
  /\ rounds = [r \in Rounds |-> "NONE"]
  /\ progress = {}
  /\ agent = [a \in Agents |-> "READY"]
  /\ runs = [a \in Agents |-> "LIVE"]
  /\ verified = {} /\ solved = {} /\ orphans = {}
  /\ lease = [a \in Agents |-> Nobody]
  /\ call = [d \in Drivers |-> Idle]
  /\ task = [d \in Drivers |-> [a \in Agents |-> "none"]]
  /\ asked = {}
  /\ spent = 0

-----------------------------------------------------------------------------
(* Scheduling *)

Quiet == /\ \A d \in Drivers : call[d].pc \notin CallWriting
         /\ \A d \in Drivers, a \in Agents : task[d][a] \notin TaskWriting
Attended == \E d \in Drivers : call[d].pc # "idle"
Flying == \E d \in Drivers, a \in Agents : task[d][a] # "none"
Free(d) == /\ Quiet /\ (Impatient \/ ~Attended)
           /\ call[d].pc = "idle" /\ \A a \in Agents : task[d][a] = "none"
At(d, pc) == call[d].pc = pc
In(d, a, place) == task[d][a] = place /\ (place \in TaskWriting \/ Quiet)
Goto(d, next) == call' = [call EXCEPT ![d] = next]
Move(d, a, place) == task' = [task EXCEPT ![d][a] = place]

-----------------------------------------------------------------------------
(* stepTeam, up to its first worker *)

\* The session is read, and the copy is kept.  A stop writes it back at once.
Enter(d, loop) ==
  LET seq == session.round + 1
      stops == session.round >= MaxRounds \/ session.calls >= MaxCalls
  IN \/ /\ session.status \in Final
        /\ Goto(d, Idle) /\ UNCHANGED <<session, rounds>>
     \/ /\ session.status \notin Final /\ stops
        /\ session' = [session EXCEPT !.status = "BLOCKED"]
        /\ Goto(d, Idle) /\ UNCHANGED rounds
     \/ /\ session.status \notin Final /\ ~stops /\ rounds[seq] = "COMPLETED"
        /\ Goto(d, IF loop THEN [Idle EXCEPT !.pc = "loop", !.loop = TRUE] ELSE Idle)
        /\ UNCHANGED <<session, rounds>>
     \/ /\ session.status \notin Final /\ ~stops /\ rounds[seq] # "COMPLETED"
        /\ rounds' = [rounds EXCEPT ![seq] = "RUNNING"]
        /\ Goto(d, [pc |-> "plan", loop |-> loop, seq |-> seq, copy |-> session, queue |-> {}])
        /\ UNCHANGED session

StepTeam(d) ==
  /\ Free(d) /\ Enter(d, FALSE)
  /\ UNCHANGED <<setup, progress, agent, runs, verified, solved, lease, task, orphans, asked, spent>>

\* runTeam writes RUNNING whatever the status was.
RunTeam(d) ==
  /\ Free(d)
  /\ session' = [session EXCEPT !.status = "RUNNING"]
  /\ Goto(d, [Idle EXCEPT !.pc = "loop", !.loop = TRUE])
  /\ UNCHANGED <<setup, rounds, progress, agent, runs, verified, solved, lease, task, orphans, asked, spent>>

\* A call that comes round after the last round stops the session, even one that was just paused.
Loop(d) ==
  /\ At(d, "loop")
  /\ IF session.status \in {"READY", "RUNNING"} \/ session.round >= MaxRounds
     THEN Enter(d, TRUE)
     ELSE Goto(d, Idle) /\ UNCHANGED <<session, rounds>>
  /\ UNCHANGED <<setup, progress, agent, runs, verified, solved, lease, task, orphans, asked, spent>>

\* Mutant: a blocked worker is taken up again when its run is live.
EligibleByRun(d) == {a \in Agents : runs[a] = "LIVE" /\ <<call[d].seq, a>> \notin progress}

\* Workers that take part in the round; one that has its progress row does not step again.
Eligible(d) ==
  {a \in Agents : agent[a] # "BLOCKED" /\ runs[a] = "LIVE" /\ <<call[d].seq, a>> \notin progress}

\* The workers whose runs have stopped are blocked, the others are planned.
Plan(d) ==
  /\ At(d, "plan")
  /\ agent' = [a \in Agents |-> IF runs[a] = "BLOCKED" THEN "BLOCKED" ELSE agent[a]]
  /\ Goto(d, [call[d] EXCEPT !.pc = "chunk", !.queue = Eligible(d)])
  /\ UNCHANGED <<setup, session, rounds, progress, runs, verified, solved, lease, task, orphans, asked, spent>>

\* The next workers of the plan.
First(d) == {a \in call[d].queue : Cardinality({b \in call[d].queue : b < a}) < setup.width}

\* Mutant: the active lease is not looked for.
UnleasedAll == Agents

\* Workers without an active lease.
Unleased == {a \in Agents : lease[a] = Nobody}

\* Each worker of the chunk takes its lease and begins its step; one that is leased already makes
\* the round fail, while the others of the chunk have begun.
Chunk(d) ==
  LET rest == call[d].queue \ First(d)
      begun == First(d) \intersect Unleased
  IN /\ At(d, "chunk")
     /\ IF call[d].queue = {} \/ asked # {}
        THEN Goto(d, [call[d] EXCEPT !.pc = "finish", !.queue = {}]) /\ UNCHANGED <<lease, task>>
        ELSE /\ lease' = [a \in Agents |-> IF a \in begun THEN d ELSE lease[a]]
             /\ task' = [task EXCEPT ![d] = [a \in Agents |->
                           IF a \notin begun THEN @[a] ELSE IF a \in setup.checkers THEN "checking" ELSE "step"]]
             /\ Goto(d, [call[d] EXCEPT !.pc = IF begun = First(d) THEN "await" ELSE "fail",
                                        !.queue = rest])
     /\ UNCHANGED <<setup, session, rounds, progress, agent, runs, verified, solved, orphans, asked, spent>>

-----------------------------------------------------------------------------
(* The step of a worker *)

Reserved == spent' = IF spent > MaxCalls THEN spent ELSE spent + 1

\* Mutant: off by one.
AllowsAtLimit == session.calls <= MaxCalls

Allows == session.calls < MaxCalls

\* A model call is reserved in a transaction that reads the session's usage.
Reserve ==
  /\ Quiet /\ Allows
  /\ session' = [session EXCEPT !.calls = @ + 1]
  /\ Reserved
  /\ UNCHANGED <<setup, rounds, progress, agent, runs, verified, solved, lease, memory>>

Charge(d, a) == task[d][a] = "step" /\ Reserve
ChargeOrphan(a) == a \in orphans /\ Reserve

\* A checker has nothing to execute.
Checked(d, a) ==
  /\ In(d, a, "checking") /\ Move(d, a, "answered")
  /\ UNCHANGED <<store, call, orphans, asked, spent>>

\* How a step leaves the run and the claim.
Stepped(a) ==
  \E result \in RunStatus :
    /\ runs' = [runs EXCEPT ![a] = result]
    /\ verified' = IF result = "COMPLETED" THEN verified \union {a} ELSE verified

Answer(d, a) ==
  /\ In(d, a, "step") /\ Stepped(a) /\ Move(d, a, "answered")
  /\ UNCHANGED <<setup, session, rounds, progress, agent, solved, lease, call, orphans, asked, spent>>

\* The provider fails: step() throws.
Throw(d, a) ==
  /\ In(d, a, "step") /\ Move(d, a, "thrown")
  /\ UNCHANGED <<store, call, orphans, asked, spent>>

\* STEP_TIMEOUT: the run is stopped, then the worker is blocked.  The step goes on.
Timeout(d, a) ==
  /\ In(d, a, "step")
  /\ runs' = [runs EXCEPT ![a] = "BLOCKED"]
  /\ orphans' = orphans \union {a}
  /\ Move(d, a, "timed")
  /\ UNCHANGED <<setup, session, rounds, progress, agent, verified, solved, lease, call, asked, spent>>

TimedOut(d, a) ==
  /\ In(d, a, "timed")
  /\ agent' = [agent EXCEPT ![a] = "BLOCKED"]
  /\ Move(d, a, "release")
  /\ UNCHANGED <<setup, session, rounds, progress, runs, verified, solved, lease, call, orphans, asked, spent>>

\* It ends: its engine writes its copy of the run over what the stop has written.
OrphanEnds(a) ==
  /\ Quiet /\ a \in orphans
  /\ orphans' = orphans \ {a}
  /\ Stepped(a) \/ UNCHANGED <<runs, verified>>
  /\ UNCHANGED <<setup, session, rounds, progress, agent, solved, lease, call, task, asked, spent>>

\* Mutant: the session of the caller is written, not one that is read here.
ProgressStale(d, a) ==
  /\ In(d, a, "answered")
  /\ progress' = progress \union {<<call[d].seq, a>>}
  /\ session' = call[d].copy
  /\ agent' = [agent EXCEPT ![a] = IF runs[a] = "BLOCKED" THEN "BLOCKED" ELSE "RUNNING"]
  /\ Move(d, a, "candidate")
  /\ UNCHANGED <<setup, rounds, runs, verified, solved, lease, call, orphans, asked, spent>>

\* One transaction: progress, usage of the session as it is now, and status of the worker.
Progress(d, a) ==
  /\ In(d, a, "answered")
  /\ progress' = progress \union {<<call[d].seq, a>>}
  /\ agent' = [agent EXCEPT ![a] = IF runs[a] = "BLOCKED" THEN "BLOCKED" ELSE "RUNNING"]
  /\ Move(d, a, "candidate")
  /\ UNCHANGED <<setup, session, rounds, runs, verified, solved, lease, call, orphans, asked, spent>>

\* A worker whose claim is verified has one candidate.
Candidate(d, a) ==
  /\ In(d, a, "candidate")
  /\ solved' = solved \union ({a} \intersect (verified \ setup.checkers))
  /\ Move(d, a, "release")
  /\ UNCHANGED <<setup, session, rounds, progress, agent, runs, verified, lease, call, orphans, asked, spent>>

\* The lease of this step, if a resume has not taken it.
Released(d, a) == [lease EXCEPT ![a] = IF @ = d THEN Nobody ELSE @]

\* Mutant: the chunk is over when its last step is, whether or not one has thrown.
AfterSettled(d, thrown, last) ==
  Goto(d, IF call[d].pc = "await" /\ last THEN [call[d] EXCEPT !.pc = "chunk"] ELSE call[d])

\* The first step of a chunk that throws fails the round; otherwise the last one lets it go on.
After(d, thrown, last) ==
  Goto(d, IF call[d].pc = "await" /\ thrown THEN [call[d] EXCEPT !.pc = "fail"]
          ELSE IF call[d].pc = "await" /\ last THEN [call[d] EXCEPT !.pc = "chunk"] ELSE call[d])

\* Mutant: the lease of a step that threw is kept.
ReleaseAnswered(d, a, thrown) ==
  /\ In(d, a, IF thrown THEN "thrown" ELSE "release")
  /\ lease' = IF thrown THEN lease ELSE Released(d, a)
  /\ Move(d, a, "none")
  /\ After(d, thrown, \A b \in Agents \ {a} : task[d][b] = "none")
  /\ UNCHANGED <<setup, session, rounds, progress, agent, runs, verified, solved, orphans, asked, spent>>

Release(d, a, thrown) ==
  /\ In(d, a, IF thrown THEN "thrown" ELSE "release")
  /\ lease' = Released(d, a)
  /\ Move(d, a, "none")
  /\ After(d, thrown, \A b \in Agents \ {a} : task[d][b] = "none")
  /\ UNCHANGED <<setup, session, rounds, progress, agent, runs, verified, solved, orphans, asked, spent>>

-----------------------------------------------------------------------------
(* The end of a round *)

\* The round fails, and the session is written as it was read before the round.  Steps that still
\* go on belong to that round.
Fail(d) ==
  /\ At(d, "fail")
  /\ rounds' = [rounds EXCEPT ![call[d].seq] = "FAILED"]
  /\ Goto(d, [call[d] EXCEPT !.pc = "halt"])
  /\ UNCHANGED <<setup, session, progress, agent, runs, verified, solved, lease, task, orphans, asked, spent>>

Halt(d) ==
  /\ At(d, "halt")
  /\ session' = [call[d].copy EXCEPT !.status = "BLOCKED"]
  /\ Goto(d, [Idle EXCEPT !.seq = call[d].seq])
  /\ UNCHANGED <<setup, rounds, progress, agent, runs, verified, solved, lease, task, orphans, asked, spent>>

\* Mutant: the round is completed before the session moves to it.
FinishRound(d) ==
  /\ At(d, "finish")
  /\ rounds' = [rounds EXCEPT ![call[d].seq] = "COMPLETED"]
  /\ Goto(d, [call[d] EXCEPT !.pc = "decide"])
  /\ UNCHANGED <<setup, session, progress, agent, runs, verified, solved, lease, task, orphans, asked, spent>>

\* One transaction, with the session as it is now.
Finish(d) ==
  /\ At(d, "finish")
  /\ rounds' = [rounds EXCEPT ![call[d].seq] = "COMPLETED"]
  /\ session' = [session EXCEPT !.round = call[d].seq, !.status = "RUNNING"]
  /\ Goto(d, [call[d] EXCEPT !.pc = "decide"])
  /\ UNCHANGED <<setup, progress, agent, runs, verified, solved, lease, task, orphans, asked, spent>>

\* A checker accepts a candidate whose claim is still verified; without one every candidate counts.
Accepted == IF setup.checkers = {} THEN solved ELSE solved \intersect verified

\* A pause or cancel writes the session unless a lease is active.
Suspended(status) ==
  session' = IF Unleased = Agents THEN [session EXCEPT !.status = status] ELSE session

\* The requests first, then the candidates, then the workers that are left.
Decide(d) ==
  LET blocked == \A a \in Agents : agent[a] = "BLOCKED"
      Stop(status) == session' = [session EXCEPT !.status = status]
      again == call[d].loop /\ session'.status \notin Final \union {"BLOCKED"}
  IN /\ At(d, "decide")
     /\ \/ "pause" \in asked /\ Suspended("PAUSED")
        \/ "pause" \notin asked /\ "cancel" \in asked /\ Suspended("CANCELLED")
        \/ asked = {} /\ Accepted # {} /\ Stop("SOLUTION_FOUND")
        \/ asked = {} /\ Accepted = {} /\ blocked /\ Stop("BLOCKED")
        \/ asked = {} /\ Accepted = {} /\ ~blocked /\ UNCHANGED session
     /\ Goto(d, IF again THEN [Idle EXCEPT !.pc = "loop", !.loop = TRUE] ELSE Idle)
     /\ UNCHANGED <<setup, rounds, progress, agent, runs, verified, solved, lease, task, orphans, asked, spent>>

-----------------------------------------------------------------------------
(* The user, the process and the rest of the system *)

PauseTeam ==
  /\ Quiet
  /\ asked' = asked \union {"pause"} /\ Suspended("PAUSED")
  /\ UNCHANGED <<setup, rounds, progress, agent, runs, verified, solved, lease, call, task, orphans, spent>>

CancelTeam ==
  /\ Quiet
  /\ asked' = asked \union {"cancel"} /\ Suspended("CANCELLED")
  /\ UNCHANGED <<setup, rounds, progress, agent, runs, verified, solved, lease, call, task, orphans, spent>>

\* One transaction: the rounds and leases that are RUNNING are interrupted, whoever works on them.
ResumeTeam ==
  /\ Quiet /\ (Impatient \/ ~(Attended \/ Flying))
  /\ asked' = asked \ {"pause"}
  /\ rounds' = [r \in Rounds |-> IF rounds[r] = "RUNNING" THEN "INTERRUPTED" ELSE rounds[r]]
  /\ lease' = [a \in Agents |-> Nobody]
  /\ session' = [session EXCEPT !.status = "READY"]
  /\ UNCHANGED <<setup, progress, agent, runs, verified, solved, call, task, orphans, spent>>

\* The process is killed, and the next one pauses what was RUNNING.  The leases stay.
Restart ==
  /\ Kills
  /\ call' = [d \in Drivers |-> Idle]
  /\ task' = [d \in Drivers |-> [a \in Agents |-> "none"]]
  /\ orphans' = {} /\ asked' = {}
  /\ session' = IF session.status = "RUNNING" THEN [session EXCEPT !.status = "PAUSED"] ELSE session
  /\ UNCHANGED <<setup, rounds, progress, agent, runs, verified, solved, lease, spent>>

\* A worker's claim is merged, edited or formalized again, and is not verified any more.
Retract(a) ==
  /\ Quiet /\ a \in verified
  /\ verified' = verified \ {a}
  /\ UNCHANGED <<setup, session, rounds, progress, agent, runs, solved, lease, memory, spent>>

Advance(d) ==
  \/ Loop(d) \/ Plan(d) \/ Chunk(d) \/ Fail(d) \/ Halt(d) \/ Finish(d) \/ Decide(d)

StepAdvance(d, a) ==
  \/ Checked(d, a) \/ Answer(d, a) \/ Throw(d, a) \/ Timeout(d, a) \/ TimedOut(d, a)
  \/ Progress(d, a) \/ Candidate(d, a) \/ \E thrown \in BOOLEAN : Release(d, a, thrown)

Next ==
  \/ \E d \in Drivers :
       \/ StepTeam(d) \/ RunTeam(d) \/ Advance(d)
       \/ \E a \in Agents : StepAdvance(d, a) \/ Charge(d, a)
  \/ \E a \in Agents : OrphanEnds(a) \/ ChargeOrphan(a) \/ Retract(a)
  \/ PauseTeam \/ CancelTeam \/ ResumeTeam \/ Restart

Spec == Init /\ [][Next]_vars

-----------------------------------------------------------------------------
(* Properties *)

\* A worker makes one step at a time, each under its own lease, whatever calls overlap with steps
\* that a failed round has left behind and whatever is killed.
StepUnderLease == \A d \in Drivers, a \in Agents : task[d][a] # "none" => lease[a] = d

\* A step that ends gives its lease back, however it ends; only a kill leaves one behind.
LeaseEndsWithStep ==
  [][\A d \in Drivers, a \in Agents :
       task[d][a] # "none" /\ task'[d][a] = "none" /\ ~Restart => lease'[a] # d]_vars

\* The rounds up to the current one are completed and none behind the next one is begun: what a
\* failure or a kill leaves is the round that stepTeam works on next, never one it passes by.
RoundsInOrder ==
  \A r \in Rounds : IF r <= session.round THEN rounds[r] = "COMPLETED"
                    ELSE rounds[r] # "COMPLETED" /\ (r > session.round + 1 => rounds[r] = "NONE")

\* A worker that is blocked stays blocked and begins no step, even when the step it was blocked
\* for goes on and makes its run live again.
BlockedForGood ==
  [][\A a \in Agents : agent[a] = "BLOCKED" =>
       /\ agent'[a] = "BLOCKED"
       /\ \A d \in Drivers : task[d][a] = "none" => task'[d][a] = "none"]_vars

Team == INSTANCE TeamRounds
          WITH round <- session.round, done <- progress,
               blocked <- {a \in Agents : agent[a] = "BLOCKED"}, live <- {a \in Agents : runs[a] = "LIVE"}

\* A worker contributes to each round once, and a round that nobody cut short ends only when every
\* worker that is left has: none is forgotten in the chunks, whatever fails or is left behind.
ImplementsTeamRounds == Team!Spec

\* Usage on record is forgotten only by the stop after a failed round; the writes of workers that
\* step together, of the round and of the user keep each other's.
OnlyFailureForgets ==
  [][session'.calls < session.calls => \E d \in Drivers : call[d].pc = "halt"]_vars

\* "global lean reservation cannot overspend in parallel"
SpendingWithinLimit == spent <= MaxCalls
=============================================================================
