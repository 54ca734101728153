-------------------------- MODULE TeamResearchProofs --------------------------
(***************************************************************************)
(* Theorems about TeamResearch, for any number of workers, of calls and of *)
(* rounds, and any limit.                                                  *)
(***************************************************************************)
EXTENDS TeamResearch, FiniteSetTheorems, TLAPS

-----------------------------------------------------------------------------
(* Types *)

AtLoop == [Idle EXCEPT !.pc = "loop", !.loop = TRUE]

LEMMA CallRows ==
  /\ NewSession \in Session
  /\ Idle \in Call /\ Idle.pc = "idle" /\ Idle.seq = 1
  /\ AtLoop \in Call /\ AtLoop.pc = "loop" /\ AtLoop.seq = 1
  /\ \A s \in Nat \ {0} : LET k == [Idle EXCEPT !.seq = s]
                          IN k \in Call /\ k.pc = "idle" /\ k.seq = s
<1>1. NewSession \in Session
  BY ConstantsAssumption DEF NewSession, Session, Status
<1>2. Idle \in Call /\ Idle.pc = "idle" /\ Idle.seq = 1
  BY <1>1 DEF Idle, Call
<1>3. AtLoop \in Call /\ AtLoop.pc = "loop" /\ AtLoop.seq = 1
  BY <1>2 DEF AtLoop, Call, CallWriting
<1>4. ASSUME NEW s \in Nat \ {0}
      PROVE  LET k == [Idle EXCEPT !.seq = s] IN k \in Call /\ k.pc = "idle" /\ k.seq = s
  BY <1>2 DEF Call
<1>5. QED
  BY <1>1, <1>2, <1>3, <1>4

\* A call works on a round of the session, or is between two rounds.
Placed(k) == k.seq \in Rounds \/ (k.pc \in {"idle", "loop"} /\ k.seq = 1)

CallsTyped ==
  /\ call \in [Drivers -> Call]
  /\ \A d \in Drivers : InRound(d) => call[d].seq \in Rounds

\* What one call goes on with keeps the types, whatever its steps do.
LEMMA CallKeepsTypes ==
  ASSUME CallsTyped, NEW d \in Drivers, NEW k \in Call, Goto(d, k), Placed(k),
         \A e \in Drivers, a \in Agents :
           task'[e][a] # task[e][a] => e = d /\ InRound(d)
  PROVE  CallsTyped'
<1>1. call' \in [Drivers -> Call]
  BY DEF CallsTyped, Goto
<1>2. ASSUME NEW e \in Drivers, InRound(e)' PROVE call'[e].seq \in Rounds
  <2>1. CASE e # d
    BY <1>2, <2>1 DEF CallsTyped, Goto, InRound
  <2>2. CASE e = d
    <3>1. call'[d] = k
      BY DEF CallsTyped, Goto
    <3>2. CASE k.seq \in Rounds
      BY <2>2, <3>1, <3>2
    <3>3. CASE k.pc \in {"idle", "loop"} /\ k.seq = 1
      <4>1. InRound(d)
        BY <1>2, <2>2, <3>1, <3>3 DEF InRound
      <4>2. 1 \in Rounds
        BY <4>1, ConstantsAssumption DEF CallsTyped, Rounds
      <4>3. QED
        BY <2>2, <3>1, <3>3, <4>2
    <3>4. QED
      BY <3>2, <3>3 DEF Placed
  <2>3. QED
    BY <2>1, <2>2
<1>3. QED
  BY <1>1, <1>2 DEF CallsTyped

\* Entering a round, or finding that there is none to enter.
LEMMA EnterKeepsTypes ==
  ASSUME TypeOK, NEW d \in Drivers, NEW loop \in BOOLEAN, Enter(d, loop), task' = task
  PROVE  session' \in Session /\ rounds' \in [Rounds -> RoundStatus] /\ CallsTyped'
<1> USE ConstantsAssumption
<1> DEFINE seq == session.round + 1
           plan == [pc |-> "plan", loop |-> loop, seq |-> seq, copy |-> session, queue |-> {}]
<1>1. session \in Session /\ rounds \in [Rounds -> RoundStatus] /\ CallsTyped
  BY DEF TypeOK, CallsTyped
<1>2. [session EXCEPT !.status = "BLOCKED"] \in Session
  BY <1>1 DEF Session, Status
<1>3. CASE \E k \in {Idle, AtLoop} : Goto(d, k) /\ UNCHANGED rounds
  <2>1. PICK k \in {Idle, AtLoop} : Goto(d, k) /\ UNCHANGED rounds
    BY <1>3
  <2>2. CallsTyped'
    BY <1>1, <2>1, CallRows, CallKeepsTypes DEF Placed
  <2>3. session' \in Session
    BY <1>1, <1>2 DEF Enter
  <2>4. QED
    BY <1>1, <2>1, <2>2, <2>3
<1>4. CASE /\ session.round < MaxRounds /\ UNCHANGED session
           /\ rounds' = [rounds EXCEPT ![seq] = "RUNNING"] /\ Goto(d, plan)
  <2>1. seq \in Rounds /\ plan \in Call /\ Placed(plan)
    BY <1>1, <1>4 DEF Session, Rounds, Call, CallWriting, Placed
  <2>2. rounds' \in [Rounds -> RoundStatus]
    BY <1>1, <1>4 DEF RoundStatus
  <2>3. QED
    BY <1>1, <1>4, <2>1, <2>2, CallKeepsTypes
<1>5. session.round >= MaxRounds \/ session.round < MaxRounds
  BY <1>1 DEF Session
<1>6. QED
  BY <1>3, <1>4, <1>5 DEF Enter, AtLoop

\* Every action keeps the types, which includes that the steps of a round that has failed still
\* belong to a round of the session.
LEMMA NextTypes == TypeOK /\ [Next]_vars => TypeOK'
<1> SUFFICES ASSUME TypeOK, [Next]_vars PROVE TypeOK'
  OBVIOUS
<1> USE ConstantsAssumption
<1>1. CallsTyped
  BY DEF TypeOK, CallsTyped
<1>2. ASSUME NEW d \in Drivers, At(d, "loop") \/ Free(d), NEW loop \in BOOLEAN, Enter(d, loop),
             UNCHANGED <<setup, progress, agent, runs, verified, solved, lease, task, orphans, asked, spent>>
      PROVE  TypeOK'
  <2>1. session' \in Session /\ rounds' \in [Rounds -> RoundStatus] /\ CallsTyped'
    BY <1>2, EnterKeepsTypes
  <2>2. QED
    BY <1>2, <2>1 DEF TypeOK, CallsTyped
<1>3. ASSUME NEW d \in Drivers, StepTeam(d) PROVE TypeOK'
  BY <1>2, <1>3 DEF StepTeam
<1>4. ASSUME NEW d \in Drivers, RunTeam(d) PROVE TypeOK'
  <2>1. CallsTyped'
    BY <1>1, <1>4, CallRows, CallKeepsTypes DEF RunTeam, Placed, AtLoop
  <2>2. session' \in Session
    BY <1>4 DEF RunTeam, TypeOK, Session, Status
  <2>3. QED
    BY <1>4, <2>1, <2>2 DEF RunTeam, TypeOK, CallsTyped
<1>5. ASSUME NEW d \in Drivers, Loop(d) PROVE TypeOK'
  <2>1. CASE Goto(d, Idle) /\ UNCHANGED <<session, rounds>>
    <3>1. CallsTyped'
      BY <1>1, <1>5, <2>1, CallRows, CallKeepsTypes DEF Loop, Placed
    <3>2. QED
      BY <1>5, <2>1, <3>1 DEF Loop, TypeOK, CallsTyped
  <2>2. QED
    BY <1>2, <1>5, <2>1 DEF Loop
<1>6. ASSUME NEW d \in Drivers, InRound(d), NEW k \in Call, Goto(d, k), k.seq = call[d].seq,
             \A e \in Drivers, a \in Agents : task'[e][a] # task[e][a] => e = d,
             task' \in [Drivers -> [Agents -> Task]]
      PROVE  CallsTyped'
  <2>1. Placed(k)
    BY <1>1, <1>6 DEF CallsTyped, Placed
  <2>2. QED
    BY <1>1, <1>6, <2>1, CallKeepsTypes
<1>7. ASSUME NEW d \in Drivers, InRound(d),
             NEW pc \in CallWriting \union {"await"}, NEW queue \in SUBSET Agents,
             Goto(d, [call[d] EXCEPT !.pc = pc, !.queue = queue]),
             \A e \in Drivers, a \in Agents : task'[e][a] # task[e][a] => e = d,
             task' \in [Drivers -> [Agents -> Task]]
      PROVE  CallsTyped'
  <2> DEFINE k == [call[d] EXCEPT !.pc = pc, !.queue = queue]
  <2>1. call[d] \in Call
    BY DEF TypeOK
  <2>2. k \in Call /\ k.seq = call[d].seq
    BY <2>1 DEF Call
  <2> HIDE DEF k
  <2>3. QED
    BY <1>6, <1>7, <2>2 DEF k
<1>8. ASSUME NEW d \in Drivers, Plan(d) PROVE TypeOK'
  <2>1. InRound(d)
    BY <1>8 DEF Plan, At, InRound
  <2>2. Eligible(d) \subseteq Agents
    BY DEF Eligible
  <2>3. CallsTyped'
    <3>1. "chunk" \in CallWriting \union {"await"} /\ task' = task
      BY <1>8 DEF Plan, CallWriting
    <3>2. Goto(d, [call[d] EXCEPT !.pc = "chunk", !.queue = Eligible(d)])
      BY <1>8 DEF Plan
    <3>3. QED
      BY <1>7, <2>1, <2>2, <3>1, <3>2 DEF TypeOK
  <2>4. agent' \in [Agents -> {"READY", "RUNNING", "BLOCKED"}]
    BY <1>8 DEF Plan, TypeOK
  <2>5. QED
    BY <1>8, <2>3, <2>4 DEF Plan, TypeOK, CallsTyped
<1>9. ASSUME NEW d \in Drivers, Chunk(d) PROVE TypeOK'
  <2>1. InRound(d) /\ First(d) \subseteq Agents /\ call[d].queue \subseteq Agents
    BY <1>9 DEF Chunk, At, InRound, First, TypeOK, Call
  <2>2. CASE call[d].queue = {} \/ asked # {}
    <3>1. CallsTyped'
      <4>1. "finish" \in CallWriting \union {"await"} /\ task' = task
        BY <1>9, <2>2 DEF Chunk, CallWriting
      <4>2. Goto(d, [call[d] EXCEPT !.pc = "finish", !.queue = {}])
        BY <1>9, <2>2 DEF Chunk
      <4>3. {} \in SUBSET Agents
        OBVIOUS
      <4>4. QED
        BY <1>7, <2>1, <4>1, <4>2, <4>3 DEF TypeOK
    <3>2. QED
      BY <1>9, <2>2, <3>1 DEF Chunk, TypeOK, CallsTyped
  <2>3. CASE ~(call[d].queue = {} \/ asked # {})
    <3>1. /\ task' \in [Drivers -> [Agents -> Task]]
          /\ \A e \in Drivers, a \in Agents : task'[e][a] # task[e][a] => e = d
      BY <1>9, <2>3 DEF Chunk, TypeOK, Task
    <3>2. lease' \in [Agents -> Drivers \union {Nobody}]
      BY <1>9, <2>3 DEF Chunk, TypeOK
    <3>3. \E pc \in {"await", "fail"} :
            Goto(d, [call[d] EXCEPT !.pc = pc, !.queue = call[d].queue \ First(d)])
      BY <1>9, <2>3 DEF Chunk
    <3>4. CallsTyped'
      <4>1. call[d].queue \ First(d) \in SUBSET Agents
        BY <2>1
      <4>2. {"await", "fail"} \subseteq CallWriting \union {"await"}
        BY DEF CallWriting
      <4>3. QED
        BY <1>7, <2>1, <3>1, <3>3, <4>1, <4>2
    <3>5. QED
      BY <1>9, <2>3, <3>1, <3>2, <3>4 DEF Chunk, TypeOK, CallsTyped
  <2>4. QED
    BY <2>2, <2>3
<1>10. ASSUME NEW d \in Drivers, Fail(d) \/ Halt(d) \/ Finish(d) \/ Decide(d) PROVE TypeOK'
  <2>1. InRound(d) /\ call[d] \in Call /\ call[d].queue \subseteq Agents /\ call[d].seq \in Rounds
    BY <1>1, <1>10 DEF Fail, Halt, Finish, Decide, At, InRound, CallsTyped, Call
  <2>2. rounds' \in [Rounds -> RoundStatus]
    BY <1>10 DEF Fail, Halt, Finish, Decide, TypeOK, RoundStatus
  <2>3. session' \in Session
    <3> USE <2>1
    <3>1. CASE Fail(d)
      BY <3>1 DEF Fail, TypeOK
    <3>2. CASE Halt(d)
      BY <3>2 DEF Halt, TypeOK, Call, Session, Status
    <3>3. CASE Finish(d)
      <4>1. session \in Session /\ call[d].seq \in 0 .. MaxRounds
        BY <2>1 DEF TypeOK, Rounds
      <4>2. QED
        BY <3>3, <4>1 DEF Finish, Session, Status
    <3>4. CASE Decide(d)
      BY <3>4 DEF Decide, Suspended, TypeOK, Session, Status, Final
    <3>5. QED
      BY <1>10, <3>1, <3>2, <3>3, <3>4
  <2>4. CallsTyped'
    <3>1. CASE Fail(d)
      <4>1. LET k == [call[d] EXCEPT !.pc = "halt"] IN k \in Call /\ k.seq = call[d].seq
        BY <2>1 DEF Call, CallWriting
      <4>2. QED
        BY <1>6, <2>1, <3>1, <4>1 DEF Fail, TypeOK
    <3>2. CASE Halt(d)
      <4>1. call[d].seq \in Nat \ {0}
        BY <2>1 DEF Call
      <4>2. QED
        BY <1>6, <2>1, <3>2, <4>1, CallRows DEF Halt, TypeOK
    <3>3. CASE Finish(d)
      <4>1. LET k == [call[d] EXCEPT !.pc = "decide"] IN k \in Call /\ k.seq = call[d].seq
        BY <2>1 DEF Call, CallWriting
      <4>2. QED
        BY <1>6, <2>1, <3>3, <4>1 DEF Finish, TypeOK
    <3>4. CASE Decide(d)
      <4>1. Goto(d, Idle) \/ Goto(d, AtLoop)
        BY <3>4 DEF Decide, AtLoop
      <4>2. QED
        BY <1>1, <3>4, <4>1, CallRows, CallKeepsTypes DEF Decide, Placed
    <3>5. QED
      BY <1>10, <3>1, <3>2, <3>3, <3>4
  <2>5. QED
    BY <1>10, <2>2, <2>3, <2>4 DEF Fail, Halt, Finish, Decide, TypeOK, CallsTyped
<1>11. ASSUME NEW d \in Drivers, NEW a \in Agents, NEW place \in Task, Move(d, a, place),
              task[d][a] # "none", UNCHANGED call
       PROVE  CallsTyped' /\ task' \in [Drivers -> [Agents -> Task]]
  <2>1. /\ task' \in [Drivers -> [Agents -> Task]]
        /\ \A e \in Drivers, b \in Agents : task'[e][b] # "none" => InRound(e)
    BY <1>11 DEF Move, TypeOK, InRound
  <2>2. QED
    BY <1>1, <1>11, <2>1 DEF CallsTyped, InRound
<1>12. ASSUME NEW d \in Drivers, NEW a \in Agents, StepAdvance(d, a) PROVE TypeOK'
  <2>1. CASE Checked(d, a) \/ Throw(d, a)
    <3>1. CallsTyped' /\ task' \in [Drivers -> [Agents -> Task]]
      BY <1>11, <2>1 DEF Checked, Throw, In, TaskWriting, Task
    <3>2. QED
      BY <2>1, <3>1 DEF Checked, Throw, store, TypeOK, CallsTyped
  <2>2. CASE Answer(d, a)
    <3>1. CallsTyped' /\ task' \in [Drivers -> [Agents -> Task]]
      BY <1>11, <2>2 DEF Answer, In, TaskWriting, Task
    <3>2. runs' \in [Agents -> RunStatus] /\ verified' \subseteq Agents
      BY <2>2 DEF Answer, Stepped, TypeOK
    <3>3. QED
      BY <2>2, <3>1, <3>2 DEF Answer, TypeOK, CallsTyped
  <2>3. CASE Timeout(d, a)
    <3>1. CallsTyped' /\ task' \in [Drivers -> [Agents -> Task]]
      BY <1>11, <2>3 DEF Timeout, In, TaskWriting, Task
    <3>2. runs' \in [Agents -> RunStatus] /\ orphans' \subseteq Agents
      BY <2>3 DEF Timeout, TypeOK, RunStatus
    <3>3. QED
      BY <2>3, <3>1, <3>2 DEF Timeout, TypeOK, CallsTyped
  <2>4. CASE TimedOut(d, a)
    <3>1. CallsTyped' /\ task' \in [Drivers -> [Agents -> Task]]
      BY <1>11, <2>4 DEF TimedOut, In, TaskWriting, Task
    <3>2. agent' \in [Agents -> {"READY", "RUNNING", "BLOCKED"}]
      BY <2>4 DEF TimedOut, TypeOK
    <3>3. QED
      BY <2>4, <3>1, <3>2 DEF TimedOut, TypeOK, CallsTyped
  <2>5. CASE Progress(d, a)
    <3>1. CallsTyped' /\ task' \in [Drivers -> [Agents -> Task]]
      BY <1>11, <2>5 DEF Progress, In, TaskWriting, Task
    <3>2. agent' \in [Agents -> {"READY", "RUNNING", "BLOCKED"}]
      BY <2>5 DEF Progress, TypeOK
    <3>3. call[d].seq \in Rounds
      BY <1>1, <2>5 DEF Progress, In, InRound, CallsTyped
    <3>4. progress' \subseteq Rounds \X Agents
      BY <2>5, <3>3 DEF Progress, TypeOK
    <3>5. QED
      BY <2>5, <3>1, <3>2, <3>4 DEF Progress, TypeOK, CallsTyped
  <2>6. CASE Candidate(d, a)
    <3>1. CallsTyped' /\ task' \in [Drivers -> [Agents -> Task]]
      BY <1>11, <2>6 DEF Candidate, In, TaskWriting, Task
    <3>2. solved' \subseteq Agents
      BY <2>6 DEF Candidate, TypeOK
    <3>3. QED
      BY <2>6, <3>1, <3>2 DEF Candidate, TypeOK, CallsTyped
  <2>7. ASSUME NEW thrown \in BOOLEAN, Release(d, a, thrown) PROVE TypeOK'
    <3>1. InRound(d) /\ call[d] \in Call
      BY <2>7 DEF Release, In, InRound, TypeOK
    <3>2. /\ task' \in [Drivers -> [Agents -> Task]]
          /\ \A e \in Drivers, b \in Agents : task'[e][b] # task[e][b] => e = d
      BY <2>7 DEF Release, Move, TypeOK, Task
    <3>3. \E k \in Call : Goto(d, k) /\ k.seq = call[d].seq
      BY <2>7, <3>1 DEF Release, After, Call, CallWriting
    <3>4. CallsTyped'
      BY <1>6, <3>1, <3>2, <3>3
    <3>5. lease' \in [Agents -> Drivers \union {Nobody}]
      BY <2>7 DEF Release, Released, TypeOK
    <3>6. QED
      BY <2>7, <3>2, <3>4, <3>5 DEF Release, TypeOK, CallsTyped
  <2>8. QED
    BY <1>12, <2>1, <2>2, <2>3, <2>4, <2>5, <2>6, <2>7 DEF StepAdvance
<1>13. ASSUME Reserve PROVE TypeOK'
  <2>1. session' \in Session /\ spent' \in 0 .. MaxCalls + 1
    BY <1>13 DEF Reserve, Reserved, Allows, TypeOK, Session
  <2>2. QED
    BY <1>13, <2>1 DEF Reserve, memory, TypeOK, InRound
<1>14. ASSUME NEW a \in Agents, OrphanEnds(a) \/ Retract(a) PROVE TypeOK'
  <2>1. runs' \in [Agents -> RunStatus] /\ verified' \subseteq Agents /\ orphans' \subseteq Agents
    BY <1>14 DEF OrphanEnds, Retract, Stepped, memory, TypeOK
  <2>2. QED
    BY <1>14, <2>1 DEF OrphanEnds, Retract, memory, TypeOK, InRound
<1>15. ASSUME PauseTeam \/ CancelTeam PROVE TypeOK'
  <2>1. session' \in Session
    BY <1>15 DEF PauseTeam, CancelTeam, Suspended, TypeOK, Session, Status, Final
  <2>2. QED
    BY <1>15, <2>1 DEF PauseTeam, CancelTeam, TypeOK, InRound
<1>16. ASSUME ResumeTeam PROVE TypeOK'
  <2>1. session' \in Session /\ rounds' \in [Rounds -> RoundStatus]
    BY <1>16 DEF ResumeTeam, TypeOK, Session, Status, RoundStatus
  <2>2. lease' \in [Agents -> Drivers \union {Nobody}]
    BY <1>16 DEF ResumeTeam
  <2>3. QED
    BY <1>16, <2>1, <2>2 DEF ResumeTeam, TypeOK, InRound
<1>17. ASSUME Restart PROVE TypeOK'
  <2>1. session' \in Session
    BY <1>17 DEF Restart, TypeOK, Session, Status
  <2>2. /\ call' \in [Drivers -> Call] /\ task' \in [Drivers -> [Agents -> Task]]
        /\ \A d \in Drivers : ~InRound(d)'
    BY <1>17, CallRows DEF Restart, Task, InRound
  <2>3. QED
    BY <1>17, <2>1, <2>2 DEF Restart, TypeOK
<1>18. CASE UNCHANGED vars
  BY <1>18 DEF vars, store, memory, TypeOK, InRound
<1>19. QED
  BY <1>3, <1>4, <1>5, <1>8, <1>9, <1>10, <1>12, <1>13, <1>14, <1>15, <1>16, <1>17, <1>18
  DEF Next, Advance, Charge, ChargeOrphan

LEMMA InitTypes == Init => TypeOK
<1> USE ConstantsAssumption
<1>1. ASSUME Init PROVE TypeOK
  <2>1. \A d \in Drivers : ~InRound(d)
    BY <1>1, CallRows DEF Init, InRound
  <2>2. task \in [Drivers -> [Agents -> Task]] /\ call \in [Drivers -> Call]
    BY <1>1, CallRows DEF Init, Task
  <2>3. QED
    BY <1>1, <2>1, <2>2, CallRows DEF Init, TypeOK, RoundStatus, RunStatus
<1>2. QED
  BY <1>1

\* The rows, the calls in flight and what is kept in memory have their types.
THEOREM TypeCorrect == Spec => []TypeOK
BY InitTypes, NextTypes, PTL DEF Spec

-----------------------------------------------------------------------------
(* Usage *)

\* Usage on record only goes down when a failed round writes the session that was read before it.
LEMMA NextForgets ==
  TypeOK /\ [Next]_vars => (session'.calls < session.calls => \E d \in Drivers : call[d].pc = "halt")
<1> SUFFICES ASSUME TypeOK, [Next]_vars, \A d \in Drivers : call[d].pc # "halt"
             PROVE  ~(session'.calls < session.calls)
  OBVIOUS
<1>1. session \in Session /\ session.calls \in Nat
  BY ConstantsAssumption DEF TypeOK, Session
<1>2. CASE session' = session \/ \E st \in Status : session' = [session EXCEPT !.status = st]
  BY <1>1, <1>2 DEF Session
<1>3. CASE \E d \in Drivers : StepTeam(d) \/ RunTeam(d) \/ Loop(d)
  BY <1>2, <1>3 DEF StepTeam, RunTeam, Loop, Enter, Status, Final
<1>4. CASE \E d \in Drivers : Plan(d) \/ Chunk(d) \/ Fail(d) \/ Decide(d)
  BY <1>2, <1>4 DEF Plan, Chunk, Fail, Decide, Suspended, Status, Final
<1>5. CASE \E d \in Drivers : Halt(d)
  BY <1>5 DEF Halt, At
<1>6. CASE \E d \in Drivers : Finish(d)
  BY <1>1, <1>6 DEF Finish, Session
<1>7. CASE \E d \in Drivers, a \in Agents : StepAdvance(d, a)
  BY <1>2, <1>7 DEF StepAdvance, Checked, Answer, Throw, Timeout, TimedOut, Progress, Candidate,
                    Release, store
<1>8. CASE Reserve
  BY <1>1, <1>8 DEF Reserve, Session
<1>9. CASE \E a \in Agents : OrphanEnds(a) \/ Retract(a)
  BY <1>2, <1>9 DEF OrphanEnds, Retract
<1>10. CASE PauseTeam \/ CancelTeam \/ ResumeTeam \/ Restart
  BY <1>2, <1>10 DEF PauseTeam, CancelTeam, ResumeTeam, Restart, Suspended, Status, Final
<1>11. CASE UNCHANGED vars
  BY <1>2, <1>11 DEF vars, store
<1>12. QED
  BY <1>3, <1>4, <1>5, <1>6, <1>7, <1>8, <1>9, <1>10, <1>11 DEF Next, Advance, Charge, ChargeOrphan

\* The workers that step together, the rounds, the user and kills keep each other's usage; only the
\* stop after a failed round forgets some.
THEOREM UsageIsKept == Spec => OnlyFailureForgets
<1>1. TypeOK /\ [Next]_vars => [session'.calls < session.calls => \E d \in Drivers : call[d].pc = "halt"]_vars
  BY NextForgets
<1>2. QED
  BY <1>1, TypeCorrect, PTL DEF Spec, OnlyFailureForgets

-----------------------------------------------------------------------------
(* Leases *)

\* A step that ends holds no lease afterwards.
LEMMA NextReleases ==
  ASSUME TypeOK, [Next]_vars, ~Restart, NEW d \in Drivers, NEW a \in Agents,
         task[d][a] # "none", task'[d][a] = "none"
  PROVE  lease'[a] # d
<1> USE ConstantsAssumption
<1>1. task \in [Drivers -> [Agents -> Task]] /\ lease \in [Agents -> Drivers \union {Nobody}]
  BY DEF TypeOK
<1>2. CASE \E thrown \in BOOLEAN : Release(d, a, thrown)
  BY <1>1, <1>2 DEF Release, Released
<1>3. CASE \E e \in Drivers, b \in Agents, thrown \in BOOLEAN : <<e, b>> # <<d, a>> /\ Release(e, b, thrown)
  BY <1>1, <1>3 DEF Release, Move
<1>4. CASE \E e \in Drivers, b \in Agents, place \in Task \ {"none"} : Move(e, b, place)
  BY <1>1, <1>4 DEF Move
<1>5. CASE UNCHANGED task
  BY <1>5
<1>6. CASE \E e \in Drivers : Chunk(e)
  BY <1>1, <1>6 DEF Chunk
<1>7. CASE \E e \in Drivers : StepTeam(e) \/ RunTeam(e) \/ Loop(e) \/ Plan(e) \/ Fail(e) \/ Halt(e)
                             \/ Finish(e) \/ Decide(e)
  BY <1>5, <1>7 DEF StepTeam, RunTeam, Loop, Plan, Fail, Halt, Finish, Decide
<1>8. ASSUME NEW e \in Drivers, NEW b \in Agents, StepAdvance(e, b) PROVE lease'[a] # d
  <2>1. CASE \E thrown \in BOOLEAN : Release(e, b, thrown)
    BY <1>2, <1>3, <2>1
  <2>2. CASE ~ \E thrown \in BOOLEAN : Release(e, b, thrown)
    BY <1>4, <1>8, <2>2 DEF StepAdvance, Checked, Answer, Throw, Timeout, TimedOut, Progress, Candidate,
                            Task, TaskWriting
  <2>3. QED
    BY <2>1, <2>2
<1>9. CASE Reserve \/ \E b \in Agents : OrphanEnds(b) \/ Retract(b)
  BY <1>5, <1>9 DEF Reserve, OrphanEnds, Retract, memory
<1>10. CASE PauseTeam \/ CancelTeam \/ ResumeTeam
  BY <1>5, <1>10 DEF PauseTeam, CancelTeam, ResumeTeam
<1>11. CASE UNCHANGED vars
  BY <1>5, <1>11 DEF vars, memory
<1>12. QED
  BY <1>6, <1>7, <1>8, <1>9, <1>10, <1>11 DEF Next, Advance, Charge, ChargeOrphan

\* However a step of a worker ends, it gives back its lease; only a kill leaves one behind.
THEOREM LeaseIsGivenBack == Spec => LeaseEndsWithStep
<1>1. TypeOK /\ [Next]_vars =>
        [\A d \in Drivers, a \in Agents :
           task[d][a] # "none" /\ task'[d][a] = "none" /\ ~Restart => lease'[a] # d]_vars
  BY NextReleases
<1>2. QED
  BY <1>1, TypeCorrect, PTL DEF Spec, LeaseEndsWithStep

\* A lease is taken when there is none, and taken away only from a worker without a step.
LEMMA NextLease == ~Impatient /\ TypeOK /\ StepUnderLease /\ [Next]_vars => StepUnderLease'
<1> SUFFICES ASSUME ~Impatient, TypeOK, StepUnderLease, [Next]_vars PROVE StepUnderLease'
  OBVIOUS
<1> USE ConstantsAssumption
<1>1. task \in [Drivers -> [Agents -> Task]] /\ lease \in [Agents -> Drivers \union {Nobody}]
  BY DEF TypeOK
<1>2. CASE UNCHANGED lease /\ \A d \in Drivers, a \in Agents : task[d][a] = "none" => task'[d][a] = "none"
  BY <1>2 DEF StepUnderLease
<1>3. ASSUME NEW d \in Drivers, Chunk(d) PROVE StepUnderLease'
  <2>1. CASE UNCHANGED <<lease, task>>
    BY <1>2, <2>1
  <2>2. CASE /\ lease' = [a \in Agents |-> IF a \in First(d) \intersect Unleased THEN d ELSE lease[a]]
             /\ task' = [task EXCEPT ![d] = [a \in Agents |->
                           IF a \notin First(d) \intersect Unleased THEN task[d][a]
                           ELSE IF a \in setup.checkers THEN "checking" ELSE "step"]]
    <3>1. ASSUME NEW e \in Drivers, NEW a \in Agents, task'[e][a] # "none" PROVE lease'[a] = e
      <4>1. CASE a \in First(d) \intersect Unleased
        <5>1. lease[a] = Nobody /\ lease'[a] = d
          BY <2>2, <4>1 DEF Unleased
        <5>2. e = d
          BY <1>1, <2>2, <3>1, <5>1 DEF StepUnderLease
        <5>3. QED
          BY <5>1, <5>2
      <4>2. CASE a \notin First(d) \intersect Unleased
        <5>1. task'[e][a] = task[e][a] /\ lease'[a] = lease[a]
          BY <1>1, <2>2, <4>2
        <5>2. QED
          BY <3>1, <5>1 DEF StepUnderLease
      <4>3. QED
        BY <4>1, <4>2
    <3>2. QED
      BY <3>1 DEF StepUnderLease
  <2>3. QED
    BY <1>3, <2>1, <2>2 DEF Chunk
<1>4. CASE \E d \in Drivers : StepTeam(d) \/ RunTeam(d) \/ Loop(d) \/ Plan(d) \/ Fail(d) \/ Halt(d)
                             \/ Finish(d) \/ Decide(d)
  BY <1>2, <1>4 DEF StepTeam, RunTeam, Loop, Plan, Fail, Halt, Finish, Decide
<1>5. ASSUME NEW d \in Drivers, NEW a \in Agents, StepAdvance(d, a) PROVE StepUnderLease'
  <2>1. CASE \E thrown \in BOOLEAN : Release(d, a, thrown)
    BY <1>1, <2>1 DEF Release, Released, Move, StepUnderLease
  <2>2. CASE ~ \E thrown \in BOOLEAN : Release(d, a, thrown)
    <3>1. UNCHANGED lease /\ task[d][a] # "none" /\ \E place \in Task : Move(d, a, place)
      BY <1>5, <2>2 DEF StepAdvance, Checked, Answer, Throw, Timeout, TimedOut, Progress, Candidate,
                        In, store, Task, TaskWriting
    <3>2. QED
      BY <1>1, <1>2, <3>1 DEF Move
  <2>3. QED
    BY <2>1, <2>2
<1>6. CASE Reserve \/ \E a \in Agents : OrphanEnds(a) \/ Retract(a)
  BY <1>2, <1>6 DEF Reserve, OrphanEnds, Retract, memory
<1>7. CASE PauseTeam \/ CancelTeam
  BY <1>2, <1>7 DEF PauseTeam, CancelTeam
<1>8. CASE ResumeTeam
  BY <1>8 DEF ResumeTeam, Flying, StepUnderLease
<1>9. CASE Restart
  BY <1>9 DEF Restart, StepUnderLease
<1>10. CASE UNCHANGED vars
  BY <1>2, <1>10 DEF vars, store, memory
<1>11. QED
  BY <1>3, <1>4, <1>5, <1>6, <1>7, <1>8, <1>9, <1>10 DEF Next, Advance, Charge, ChargeOrphan

\* If nobody starts a call or resumes while another call is under way, a worker makes one attended
\* step at a time, under its own lease, however many steps a failed round has left behind.
THEOREM OneStepPerLease == ~Impatient /\ Spec => []StepUnderLease
<1>1. Init => StepUnderLease
  BY DEF Init, StepUnderLease
<1>2. SUFFICES ASSUME ~Impatient PROVE Spec => []StepUnderLease
  OBVIOUS
<1>3. TypeOK /\ StepUnderLease /\ [Next]_vars => StepUnderLease'
  BY <1>2, NextLease
<1>4. QED
  BY <1>1, <1>3, TypeCorrect, PTL DEF Spec

-----------------------------------------------------------------------------
(* Rounds *)

\* One call is attended at a time; it works on the round after the session's, which its copy knows.
Order ==
  /\ RoundsInOrder
  /\ \A d, e \in Drivers : call[d].pc # "idle" /\ call[e].pc # "idle" => d = e
  /\ \A d \in Drivers : call[d].pc \notin {"idle", "loop", "decide"} =>
       call[d].seq = session.round + 1 /\ call[d].copy.round = session.round

\* A call that is not at a place where it knows the round.
Between(k) == k.pc \in {"idle", "loop", "decide"}

\* The order is kept when only one call moves, on the same round or to a place between rounds.
LEMMA OrderMoves ==
  ASSUME TypeOK, Order, NEW d \in Drivers, call[d].pc # "idle", NEW k \in Call, Goto(d, k),
         session'.round = session.round, RoundsInOrder',
         Between(k) \/ (~Between(call[d]) /\ k.seq = call[d].seq /\ k.copy = call[d].copy)
  PROVE  Order'
<1>1. call \in [Drivers -> Call] /\ call' = [call EXCEPT ![d] = k]
  BY DEF TypeOK, Goto
<1>2. \A e \in Drivers : call'[e].pc # "idle" => e = d
  BY <1>1 DEF Order
<1>3. \A e \in Drivers : ~Between(call'[e]) =>
        call'[e].seq = session'.round + 1 /\ call'[e].copy.round = session'.round
  BY <1>1 DEF Order, Between
<1>4. QED
  BY <1>2, <1>3 DEF Order, Between

\* What does not touch the calls keeps the order if it keeps the rounds.
LEMMA OrderStays ==
  ASSUME Order, call' = call, session'.round = session.round, RoundsInOrder'
  PROVE  Order'
BY DEF Order

LEMMA SameRounds ==
  ASSUME Order, session'.round = session.round, rounds' = rounds
  PROVE  RoundsInOrder'
BY DEF Order, RoundsInOrder

\* A status is written into the session and nothing else.
LEMMA SameRound ==
  ASSUME TypeOK, session' = session \/ \E st \in Status : session' = [session EXCEPT !.status = st]
  PROVE  session'.round = session.round
BY DEF TypeOK, Session

\* Entering: the next round is the one the session has not completed.
LEMMA EnterOrder ==
  ASSUME TypeOK, Order, NEW d \in Drivers, NEW loop \in BOOLEAN, Enter(d, loop),
         call[d].pc \in {"idle", "loop"}, \A e \in Drivers : e # d => call[e].pc = "idle"
  PROVE  Order'
<1> USE ConstantsAssumption
<1> DEFINE seq == session.round + 1
           plan == [pc |-> "plan", loop |-> loop, seq |-> seq, copy |-> session, queue |-> {}]
<1>1. /\ call \in [Drivers -> Call] /\ session \in Session /\ rounds \in [Rounds -> RoundStatus]
      /\ session.round \in Nat
  BY DEF TypeOK, Session
<1>2. CASE /\ \E k \in {Idle, AtLoop} : Goto(d, k)
           /\ UNCHANGED rounds /\ session'.round = session.round
  <2>1. PICK k \in {Idle, AtLoop} : Goto(d, k)
    BY <1>2
  <2>2. RoundsInOrder'
    BY <1>2, SameRounds
  <2>3. call' = [call EXCEPT ![d] = k] /\ k.pc \in {"idle", "loop"}
    BY <2>1, CallRows DEF Goto
  <2>4. \A e \in Drivers : call'[e] = IF e = d THEN k ELSE call[e]
    BY <1>1, <2>3
  <2>5. QED
    BY <1>2, <2>2, <2>3, <2>4 DEF Order
<1>3. CASE /\ Goto(d, plan) /\ UNCHANGED session /\ session.round < MaxRounds
           /\ rounds' = [rounds EXCEPT ![seq] = "RUNNING"]
  <2>1. RoundsInOrder'
    BY <1>1, <1>3 DEF Order, RoundsInOrder, Rounds
  <2>2. \A e \in Drivers : call'[e] = IF e = d THEN plan ELSE call[e]
    BY <1>1, <1>3 DEF Goto
  <2>3. QED
    BY <1>3, <2>1, <2>2 DEF Order
<1>4. session' = session \/ session' = [session EXCEPT !.status = "BLOCKED"]
  BY DEF Enter
<1>5. session'.round = session.round /\ (session.round >= MaxRounds \/ session.round < MaxRounds)
  BY <1>1, <1>4, SameRound DEF Status
<1>6. QED
  BY <1>2, <1>3, <1>5 DEF Enter, AtLoop

LEMMA NextOrder == ~Impatient /\ TypeOK /\ Order /\ [Next]_vars => Order'
<1> SUFFICES ASSUME ~Impatient, TypeOK, Order, [Next]_vars PROVE Order'
  OBVIOUS
<1> USE ConstantsAssumption
<1>1. /\ call \in [Drivers -> Call] /\ session \in Session /\ rounds \in [Rounds -> RoundStatus]
      /\ session.round \in Nat
  BY DEF TypeOK, Session
<1>2. ASSUME NEW d \in Drivers, StepTeam(d) \/ Loop(d) PROVE Order'
  <2>1. call[d].pc \in {"idle", "loop"} /\ \A e \in Drivers : e # d => call[e].pc = "idle"
    BY <1>2 DEF StepTeam, Loop, Free, Attended, At, Order
  <2>2. CASE \E loop \in BOOLEAN : Enter(d, loop)
    BY <2>1, <2>2, EnterOrder
  <2>3. CASE At(d, "loop") /\ Goto(d, Idle) /\ UNCHANGED <<session, rounds>>
    <3>1. RoundsInOrder'
      BY <2>3, SameRounds
    <3>2. call[d].pc # "idle" /\ Between(Idle) /\ session'.round = session.round
      BY <2>3, CallRows DEF At, Between
    <3>3. QED
      BY <2>3, <3>1, <3>2, CallRows, OrderMoves
  <2>4. QED
    BY <1>2, <2>2, <2>3 DEF StepTeam, Loop
<1>3. ASSUME NEW d \in Drivers, RunTeam(d) PROVE Order'
  <2>1. session'.round = session.round
    BY <1>3, SameRound DEF RunTeam, Status
  <2>2. RoundsInOrder'
    BY <1>3, <2>1, SameRounds DEF RunTeam
  <2>3. \A e \in Drivers : call'[e] = (IF e = d THEN AtLoop ELSE call[e]) /\ call[e].pc = "idle"
    BY <1>1, <1>3 DEF RunTeam, Goto, AtLoop, Free, Attended
  <2>4. QED
    BY <2>1, <2>2, <2>3, CallRows DEF Order
<1>4. ASSUME NEW d \in Drivers, Plan(d) \/ Chunk(d) PROVE Order'
  <2>1. session'.round = session.round /\ RoundsInOrder'
    BY <1>4, SameRounds DEF Plan, Chunk
  <2>2. ~Between(call[d]) /\ call[d] \in Call
    BY <1>1, <1>4 DEF Plan, Chunk, At, Between
  <2>3. Eligible(d) \subseteq Agents /\ call[d].queue \ First(d) \subseteq Agents
    BY <2>2 DEF Eligible, Call
  <2>4. \E k \in Call : Goto(d, k) /\ k.seq = call[d].seq /\ k.copy = call[d].copy
    <3>1. \E pc \in {"chunk", "finish", "await", "fail"}, queue \in SUBSET Agents :
            Goto(d, [call[d] EXCEPT !.pc = pc, !.queue = queue])
      BY <1>4, <2>3 DEF Plan, Chunk
    <3>2. \A pc \in {"chunk", "finish", "await", "fail"}, queue \in SUBSET Agents :
            LET k == [call[d] EXCEPT !.pc = pc, !.queue = queue]
            IN k \in Call /\ k.seq = call[d].seq /\ k.copy = call[d].copy
      BY <2>2 DEF Call, CallWriting
    <3>3. QED
      BY <3>1, <3>2
  <2>5. QED
    BY <2>1, <2>2, <2>4, OrderMoves DEF Between
<1>5. ASSUME NEW d \in Drivers, Fail(d) PROVE Order'
  <2>1. session' = session /\ rounds' = [rounds EXCEPT ![call[d].seq] = "FAILED"]
        /\ call[d].pc = "fail" /\ call[d].seq = session.round + 1
    BY <1>5 DEF Fail, At, Order
  <2>2. RoundsInOrder'
    BY <1>1, <2>1 DEF Order, RoundsInOrder, Rounds
  <2>3. \E k \in Call : Goto(d, k) /\ k.seq = call[d].seq /\ k.copy = call[d].copy
    BY <1>1, <1>5 DEF Fail, Call, CallWriting
  <2>4. QED
    BY <2>1, <2>2, <2>3, OrderMoves DEF Between
<1>6. ASSUME NEW d \in Drivers, Halt(d) PROVE Order'
  <2>1. call[d].pc = "halt" /\ call[d].copy.round = session.round /\ call[d].copy \in Session
        /\ call[d].seq \in Nat \ {0}
    BY <1>1, <1>6 DEF Halt, At, Order, Call
  <2>2. session'.round = session.round /\ rounds' = rounds
    BY <1>6, <2>1 DEF Halt, Session
  <2>3. RoundsInOrder'
    BY <2>2, SameRounds
  <2>4. \E k \in Call : Goto(d, k) /\ Between(k)
    BY <1>6, <2>1, CallRows DEF Halt, Between
  <2>5. QED
    BY <2>1, <2>2, <2>3, <2>4, OrderMoves
<1>7. ASSUME NEW d \in Drivers, Finish(d) PROVE Order'
  <2>1. call[d].pc = "finish" /\ call[d].seq = session.round + 1 /\ call[d] \in Call
        /\ call[d].seq \in Rounds
    BY <1>1, <1>7 DEF Finish, At, Order, TypeOK, InRound
  <2>2. rounds' = [rounds EXCEPT ![call[d].seq] = "COMPLETED"] /\ session'.round = call[d].seq
    BY <1>1, <1>7 DEF Finish, Session
  <2>3. RoundsInOrder'
    BY <1>1, <2>1, <2>2 DEF Order, RoundsInOrder, Rounds
  <2>4. call' = [call EXCEPT ![d] = [call[d] EXCEPT !.pc = "decide"]]
    BY <1>7 DEF Finish, Goto
  <2>5. [call[d] EXCEPT !.pc = "decide"].pc = "decide"
    BY <2>1 DEF Call
  <2>6. \A e \in Drivers : e # d => call'[e] = call[e] /\ call[e].pc = "idle"
    BY <1>1, <2>1, <2>4 DEF Order
  <2>7. call'[d].pc = "decide"
    BY <1>1, <2>4, <2>5
  <2>8. QED
    BY <2>3, <2>6, <2>7 DEF Order
<1>8. ASSUME NEW d \in Drivers, Decide(d) PROVE Order'
  <2>1. session'.round = session.round
    BY <1>8, SameRound DEF Decide, Suspended, Status, Final
  <2>2. RoundsInOrder' /\ call[d].pc # "idle"
    BY <1>8, <2>1, SameRounds DEF Decide, At
  <2>3. \E k \in {Idle, AtLoop} : Goto(d, k)
    BY <1>8 DEF Decide, AtLoop
  <2>4. QED
    BY <2>1, <2>2, <2>3, CallRows, OrderMoves DEF Between
<1>9. ASSUME NEW d \in Drivers, NEW a \in Agents, StepAdvance(d, a) PROVE Order'
  <2>1. UNCHANGED <<session, rounds>>
    BY <1>9 DEF StepAdvance, Checked, Answer, Throw, Timeout, TimedOut, Progress, Candidate, Release, store
  <2>2. RoundsInOrder' /\ session'.round = session.round
    BY <2>1, SameRounds
  <2>3. CASE call' = call
    BY <2>2, <2>3, OrderStays
  <2>4. CASE \E thrown \in BOOLEAN : Release(d, a, thrown)
    <3>1. CASE call[d].pc = "await"
      <4>1. \E k \in Call : Goto(d, k) /\ k.seq = call[d].seq /\ k.copy = call[d].copy
        BY <1>1, <2>4 DEF Release, After, Call, CallWriting
      <4>2. QED
        BY <2>2, <3>1, <4>1, OrderMoves DEF Between
    <3>2. CASE call[d].pc # "await"
      BY <1>1, <2>3, <2>4, <3>2 DEF Release, After, Goto
    <3>3. QED
      BY <3>1, <3>2
  <2>5. QED
    BY <1>9, <2>3, <2>4 DEF StepAdvance, Checked, Answer, Throw, Timeout, TimedOut, Progress, Candidate
<1>10. CASE Reserve
  <2>1. session'.round = session.round /\ rounds' = rounds /\ call' = call
    BY <1>1, <1>10 DEF Reserve, memory, Session
  <2>2. QED
    BY <2>1, SameRounds, OrderStays
<1>11. CASE PauseTeam \/ CancelTeam \/ \E a \in Agents : OrphanEnds(a) \/ Retract(a)
  <2>1. session'.round = session.round /\ rounds' = rounds /\ call' = call
    BY <1>11, SameRound DEF PauseTeam, CancelTeam, OrphanEnds, Retract, Suspended, memory, Status, Final
  <2>2. QED
    BY <2>1, SameRounds, OrderStays
<1>12. CASE ResumeTeam
  <2>1. session'.round = session.round /\ call' = call
    BY <1>12, SameRound DEF ResumeTeam, Status
  <2>2. RoundsInOrder'
    BY <1>1, <1>12, <2>1 DEF ResumeTeam, Order, RoundsInOrder
  <2>3. QED
    BY <2>1, <2>2, OrderStays
<1>13. CASE Restart
  <2>1. session'.round = session.round /\ rounds' = rounds /\ \A d \in Drivers : call'[d] = Idle
    BY <1>13, SameRound DEF Restart, Status
  <2>2. QED
    BY <2>1, SameRounds, CallRows DEF Order
<1>14. CASE UNCHANGED vars
  <2>1. UNCHANGED <<session, rounds, call>>
    BY <1>14 DEF vars, store, memory
  <2>2. QED
    BY <2>1, SameRounds, OrderStays
<1>15. QED
  BY <1>2, <1>3, <1>4, <1>5, <1>6, <1>7, <1>8, <1>9, <1>10, <1>11, <1>12, <1>13, <1>14
  DEF Next, Advance, Charge, ChargeOrphan

\* Whatever fails, is killed or interrupted, the session moves from one completed round to the next:
\* it passes by none and begins none ahead.
THEOREM RoundsAreInOrder == ~Impatient /\ Spec => []RoundsInOrder
<1>1. Init => Order
  BY CallRows, ConstantsAssumption DEF Init, Order, RoundsInOrder, NewSession, Rounds
<1>2. Order => RoundsInOrder
  BY DEF Order
<1>3. SUFFICES ASSUME ~Impatient PROVE Spec => []RoundsInOrder
  OBVIOUS
<1>4. TypeOK /\ Order /\ [Next]_vars => Order'
  BY <1>3, NextOrder
<1>5. QED
  BY <1>1, <1>2, <1>4, TypeCorrect, PTL DEF Spec

-----------------------------------------------------------------------------
(***************************************************************************)
(* Blocked workers.  The plan of a round names workers that are not        *)
(* blocked, and most of them begin their step much later.  One of them     *)
(* could be blocked meanwhile by a step that a failed round has left       *)
(* behind.  It is not, because the steps left behind belong to the chunk   *)
(* the round failed in.  Everyone before them has stepped or is blocked,   *)
(* so their workers are in the first chunk of the next attempt, and their  *)
(* leases make that one fail at once.                                      *)
(***************************************************************************)
Moving == {"checking", "step"}

\* Worker a may take part in round r.
Can(r, a) == agent[a] # "BLOCKED" /\ runs[a] = "LIVE" /\ <<r, a>> \notin progress

Before(r, a) == {b \in Agents : b < a /\ Can(r, b)}

\* One call or one step is in the middle of a synchronous stretch.
Sole ==
  /\ \A d, e \in Drivers, a \in Agents : call[d].pc \in CallWriting => task[e][a] \notin TaskWriting
  /\ \A d, e \in Drivers, a, b \in Agents :
       task[d][a] \in TaskWriting /\ task[e][b] \in TaskWriting => d = e /\ a = b

\* What a step in flight says of its worker.
Sound ==
  /\ \A d \in Drivers, a \in Agents :
       /\ task[d][a] \in Moving => Can(call[d].seq, a) /\ a \notin orphans
       /\ task[d][a] = "answered" =>
            agent[a] # "BLOCKED" /\ <<call[d].seq, a>> \notin progress /\ a \notin orphans
       /\ task[d][a] \in {"candidate", "release"} => agent[a] = "BLOCKED" \/ <<call[d].seq, a>> \in progress
  /\ \A a \in orphans : agent[a] = "BLOCKED" \/ \E d \in Drivers : task[d][a] = "timed"

\* Where a call has no steps of its own in flight.
Home ==
  \A d \in Drivers : call[d].pc \in {"loop", "plan", "chunk", "finish", "decide"} =>
    \A a \in Agents : task[d][a] = "none"

\* The workers that are left in the plan can still step, and nobody else can, but those who do.
QueuedFor(d) ==
  /\ call[d].pc \in {"chunk", "await"} => \A a \in call[d].queue : Can(call[d].seq, a)
  /\ call[d].pc = "await" =>
       /\ \A e \in Drivers, a \in Agents : task[e][a] # "none" => e = d /\ a \notin call[d].queue
       /\ \A a \in Agents : Can(call[d].seq, a) => a \in call[d].queue \/ task[d][a] # "none"
  /\ call[d].pc = "chunk" => \A a \in Agents : Can(call[d].seq, a) => a \in call[d].queue
  /\ call[d].pc = "chunk" /\ asked = {} =>
       \A e \in Drivers, a \in Agents : task[e][a] # "none" => a \in First(d)
  /\ call[d].pc = "finish" /\ asked = {} => \A a \in Agents : ~Can(call[d].seq, a)

\* A request makes rounds end without steps.  Unless there is one, the steps left behind belong to
\* the next round, and fewer workers than a chunk holds can step in it before theirs.
Strays ==
  asked = {} =>
    /\ \A d \in Drivers : call[d].pc \in {"finish", "decide"} => ~Flying
    /\ \A d \in Drivers, a \in Agents :
         task[d][a] # "none" => /\ call[d].seq = session.round + 1
                                /\ task[d][a] \in Moving => Cardinality(Before(call[d].seq, a)) < setup.width

Fit == Sole /\ Sound /\ Home /\ (\A d \in Drivers : QueuedFor(d)) /\ Strays

LEMMA BeforeShrinks ==
  ASSUME TypeOK, NEW r, NEW a \in Agents, \A b \in Agents : Can(r, b)' => Can(r, b),
         Cardinality(Before(r, a)) < setup.width, setup' = setup
  PROVE  Cardinality(Before(r, a)') < setup'.width
<1> DEFINE S == Before(r, a)
           T == Before(r, a)'
<1>1. IsFiniteSet(S) /\ T \in SUBSET S
  <2>1. S \in SUBSET Agents /\ T \in SUBSET S
    BY DEF Before
  <2> QED BY <2>1, FS_Subset, ConstantsAssumption
<1>2. setup.width \in Nat
  BY ConstantsAssumption DEF TypeOK, Setup
<1> HIDE DEF S, T
<1>3. Cardinality(S) \in Nat /\ Cardinality(T) \in Nat /\ Cardinality(T) <= Cardinality(S)
  BY <1>1, FS_Subset, FS_CardinalityType
<1> QED BY <1>2, <1>3 DEF S, T

\* A step in flight moves on to a place in a synchronous stretch.
LEMMA TaskMoves ==
  ASSUME TypeOK, StepUnderLease, Fit, NEW d \in Drivers, NEW a \in Agents, NEW place \in TaskWriting,
         Move(d, a, place), task[d][a] # "none", Quiet \/ task[d][a] \in TaskWriting,
         UNCHANGED <<call, setup, session, asked>>, orphans' \subseteq Agents,
         \A b \in Agents \ {a} :
           /\ agent'[b] = agent[b] /\ runs'[b] = runs[b] /\ (b \in orphans' <=> b \in orphans)
           /\ \A r : <<r, b>> \in progress' <=> <<r, b>> \in progress,
         \A r : Can(r, a)' => Can(r, a),
         place = "answered" =>
           agent'[a] # "BLOCKED" /\ <<call[d].seq, a>> \notin progress' /\ a \notin orphans',
         place \in {"candidate", "release"} => agent'[a] = "BLOCKED" \/ <<call[d].seq, a>> \in progress',
         a \in orphans' => agent'[a] = "BLOCKED" \/ place = "timed"
  PROVE  Fit'
<1>1. \A e \in Drivers, b \in Agents : task'[e][b] = IF e = d /\ b = a THEN place ELSE task[e][b]
  BY DEF Move, TypeOK
<1>2. place \notin Moving \union {"none"}
  BY DEF TaskWriting, Moving
<1>3. \A e \in Drivers : task[e][a] # "none" => e = d
  BY DEF StepUnderLease
<1>4. /\ \A e \in Drivers : call[e].pc \notin CallWriting
      /\ \A e \in Drivers, b \in Agents : task[e][b] \in TaskWriting => e = d /\ b = a
  BY DEF Quiet, Fit, Sole
<1>5. Sole'
  BY <1>1, <1>4 DEF Sole
<1>6. \A r : \A b \in Agents : (Can(r, b)' => Can(r, b)) /\ (b # a => (Can(r, b)' <=> Can(r, b)))
  <2>1. \A r : \A b \in Agents : b # a => (Can(r, b)' <=> Can(r, b))
    BY DEF Can
  <2> QED BY <2>1
<1>7. Sound'
  <2>1. ASSUME NEW e \in Drivers, NEW b \in Agents, e = d /\ b = a
        PROVE  /\ task'[e][b] \in Moving => (Can(call[e].seq, b) /\ b \notin orphans)'
               /\ task'[e][b] = "answered" =>
                    agent'[b] # "BLOCKED" /\ <<call'[e].seq, b>> \notin progress' /\ b \notin orphans'
               /\ task'[e][b] \in {"candidate", "release"} =>
                    agent'[b] = "BLOCKED" \/ <<call'[e].seq, b>> \in progress'
    BY <1>1, <1>2, <2>1
  <2>2. ASSUME NEW e \in Drivers, NEW b \in Agents, b = a => e # d
        PROVE  /\ task'[e][b] \in Moving => (Can(call[e].seq, b) /\ b \notin orphans)'
               /\ task'[e][b] = "answered" =>
                    agent'[b] # "BLOCKED" /\ <<call'[e].seq, b>> \notin progress' /\ b \notin orphans'
               /\ task'[e][b] \in {"candidate", "release"} =>
                    agent'[b] = "BLOCKED" \/ <<call'[e].seq, b>> \in progress'
    <3>1. CASE b = a
      <4>1. task'[e][b] = "none"
        BY <1>1, <1>3, <2>2, <3>1
      <4> QED BY <4>1 DEF Moving
    <3>2. CASE b # a
      BY <1>1, <2>2, <3>2 DEF Fit, Sound, Can
    <3> QED BY <3>1, <3>2
  <2>3. ASSUME NEW b \in orphans' PROVE agent'[b] = "BLOCKED" \/ \E e \in Drivers : task'[e][b] = "timed"
    <3>1. CASE b = a
      BY <1>1, <3>1
    <3>2. CASE b # a /\ b \in Agents
      BY <1>1, <2>3, <3>2 DEF Fit, Sound
    <3> QED BY <2>3, <3>1, <3>2
  <2> QED BY <2>1, <2>2, <2>3 DEF Sound
<1>8. \A e \in Drivers, b \in Agents : task'[e][b] = "none" <=> task[e][b] = "none"
  BY <1>1, <1>2
<1>9. Home'
  BY <1>8 DEF Fit, Home
<1>10. ASSUME NEW e \in Drivers PROVE QueuedFor(e)'
  <2>1. call[e].pc \notin {"chunk", "finish"}
    BY <1>4 DEF CallWriting
  <2>2. call[e].pc = "await" => a \notin call[e].queue /\ call[e].queue \subseteq Agents
    BY DEF Fit, QueuedFor, TypeOK, Call
  <2>3. call[e].pc = "await" => \A b \in call[e].queue : Can(call[e].seq, b)'
    BY <1>6, <2>2 DEF Fit, QueuedFor
  <2>4. \A b \in Agents : Can(call[e].seq, b)' => Can(call[e].seq, b)
    BY <1>6 DEF Can
  <2> QED BY <1>8, <2>1, <2>3, <2>4 DEF Fit, QueuedFor, Can
<1>11. Strays'
  <2>1. \A e \in Drivers : call[e].pc \notin {"finish", "decide"}
    BY <1>4 DEF CallWriting
  <2>2. ASSUME asked = {}, NEW e \in Drivers, NEW b \in Agents, task'[e][b] \in Moving
        PROVE  Cardinality(Before(call[e].seq, b)') < setup'.width
    <3>1. task[e][b] \in Moving
      BY <1>1, <1>2, <2>2
    <3>2. PICK r : r = call[e].seq
      OBVIOUS
    <3>3. Cardinality(Before(r, b)) < setup.width
      BY <2>2, <3>1, <3>2 DEF Fit, Strays, Moving
    <3>4. Cardinality(Before(r, b)') < setup'.width
      BY <1>6, <3>3, BeforeShrinks
    <3>5. Before(call[e].seq, b)' = Before(r, b)'
      BY <3>2 DEF Before, Can
    <3> QED BY <3>4, <3>5
  <2> QED BY <1>8, <2>1, <2>2 DEF Fit, Strays
<1> QED BY <1>5, <1>7, <1>9, <1>10, <1>11 DEF Fit

\* The steps of a worker, up to the end of its lease.
LEMMA StepFit ==
  ASSUME TypeOK, StepUnderLease, Fit, NEW d \in Drivers, NEW a \in Agents,
         \/ Checked(d, a) \/ Answer(d, a) \/ Throw(d, a) \/ Timeout(d, a) \/ TimedOut(d, a)
         \/ Progress(d, a) \/ Candidate(d, a)
  PROVE  Fit'
<1>1. /\ agent \in [Agents -> {"READY", "RUNNING", "BLOCKED"}] /\ runs \in [Agents -> RunStatus]
      /\ orphans \subseteq Agents
      /\ {"answered", "candidate", "thrown", "release", "timed"} \subseteq TaskWriting
      /\ "none" \notin TaskWriting /\ "step" # "none" /\ "checking" # "none"
  BY DEF TypeOK, TaskWriting
<1>2. \A b \in orphans : agent[b] = "BLOCKED" \/ \E e \in Drivers : task[e][b] = "timed"
  BY DEF Fit, Sound
<1>3. \A e \in Drivers : task[e][a] # "none" => e = d \/ task[d][a] = "none"
  BY DEF StepUnderLease
<1>4. task[d][a] \in Moving => Can(call[d].seq, a) /\ a \notin orphans
  BY DEF Fit, Sound
<1>5. CASE Checked(d, a) \/ Throw(d, a)
  <2>1. PICK place \in {"answered", "thrown"} : Move(d, a, place)
    BY <1>5 DEF Checked, Throw
  <2>2. /\ task[d][a] \in Moving /\ Quiet
        /\ UNCHANGED <<call, setup, session, asked, agent, runs, orphans, progress>>
    BY <1>5 DEF Checked, Throw, In, store, Moving, TaskWriting
  <2>3. /\ agent[a] # "BLOCKED" /\ <<call[d].seq, a>> \notin progress /\ a \notin orphans
        /\ task[d][a] # "none"
    BY <1>4, <2>2 DEF Can, Moving
  <2> QED BY <1>1, <2>1, <2>2, <2>3, TaskMoves DEF Can
<1>6. CASE Answer(d, a)
  <2>1. /\ Move(d, a, "answered") /\ task[d][a] = "step" /\ Quiet
        /\ UNCHANGED <<call, setup, session, asked, agent, orphans, progress>>
        /\ \A b \in Agents \ {a} : runs'[b] = runs[b]
    BY <1>1, <1>6 DEF Answer, In, Stepped, TaskWriting
  <2>2. /\ agent[a] # "BLOCKED" /\ <<call[d].seq, a>> \notin progress /\ a \notin orphans
        /\ runs[a] = "LIVE"
    BY <1>4, <2>1 DEF Can, Moving
  <2> QED BY <1>1, <2>1, <2>2, TaskMoves DEF Can
<1>7. CASE Timeout(d, a)
  <2>1. /\ Move(d, a, "timed") /\ task[d][a] = "step" /\ Quiet
        /\ UNCHANGED <<call, setup, session, asked, agent, progress>>
        /\ orphans' = orphans \union {a} /\ runs' = [runs EXCEPT ![a] = "BLOCKED"]
    BY <1>7 DEF Timeout, In, TaskWriting
  <2>2. /\ runs'[a] = "BLOCKED" /\ \A b \in Agents \ {a} : runs'[b] = runs[b] /\ (b \in orphans' <=> b \in orphans)
        /\ orphans' \subseteq Agents
    BY <1>1, <2>1
  <2> QED BY <1>1, <2>1, <2>2, TaskMoves DEF Can
<1>8. CASE TimedOut(d, a)
  <2>1. /\ Move(d, a, "release") /\ task[d][a] = "timed"
        /\ UNCHANGED <<call, setup, session, asked, runs, orphans, progress>>
        /\ agent' = [agent EXCEPT ![a] = "BLOCKED"]
    BY <1>8 DEF TimedOut, In
  <2>2. agent'[a] = "BLOCKED" /\ \A b \in Agents \ {a} : agent'[b] = agent[b]
    BY <1>1, <2>1
  <2> QED BY <1>1, <2>1, <2>2, TaskMoves DEF Can
<1>9. CASE Progress(d, a)
  <2>1. /\ Move(d, a, "candidate") /\ task[d][a] = "answered"
        /\ UNCHANGED <<call, setup, session, asked, runs, orphans>>
        /\ progress' = progress \union {<<call[d].seq, a>>}
        /\ \A b \in Agents \ {a} : agent'[b] = agent[b]
    BY <1>1, <1>9 DEF Progress, In
  <2>2. agent[a] # "BLOCKED" /\ a \notin orphans
    BY <2>1 DEF Fit, Sound
  <2>3. /\ \A b \in Agents \ {a} : \A r : <<r, b>> \in progress' <=> <<r, b>> \in progress
        /\ <<call[d].seq, a>> \in progress' /\ \A r : <<r, a>> \in progress => <<r, a>> \in progress'
    BY <2>1
  <2>4. \A r : Can(r, a)' => Can(r, a)
    BY <2>1, <2>2, <2>3 DEF Can
  <2> QED BY <1>1, <2>1, <2>2, <2>3, <2>4, TaskMoves
<1>10. CASE Candidate(d, a)
  <2>1. /\ Move(d, a, "release") /\ task[d][a] = "candidate"
        /\ UNCHANGED <<call, setup, session, asked, runs, orphans, agent, progress>>
    BY <1>10 DEF Candidate, In
  <2>2. agent[a] = "BLOCKED" \/ <<call[d].seq, a>> \in progress
    BY <2>1 DEF Fit, Sound
  <2>3. a \in orphans => agent[a] = "BLOCKED"
    BY <1>2, <1>3, <2>1
  <2> QED BY <1>1, <2>1, <2>2, <2>3, TaskMoves DEF Can
<1> QED BY <1>5, <1>6, <1>7, <1>8, <1>9, <1>10

\* The lease of a step is given back, and its call goes on.
LEMMA ReleaseFit ==
  ASSUME TypeOK, StepUnderLease, Fit, NEW d \in Drivers, NEW a \in Agents,
         NEW thrown \in BOOLEAN, NEW old, old = call[d], Release(d, a, thrown)
  PROVE  Fit'
<1> DEFINE last == \A b \in Agents \ {a} : task[d][b] = "none"
           next == IF old.pc = "await" /\ thrown THEN "fail"
                   ELSE IF old.pc = "await" /\ last THEN "chunk" ELSE old.pc
<1>1. /\ task[d][a] = IF thrown THEN "thrown" ELSE "release"
      /\ Move(d, a, "none")
      /\ UNCHANGED <<setup, session, rounds, progress, agent, runs, orphans, asked>>
      /\ call \in [Drivers -> Call] /\ old \in Call
  BY DEF Release, In, TypeOK
<1>2. /\ \A e \in Drivers, b \in Agents : task'[e][b] = IF e = d /\ b = a THEN "none" ELSE task[e][b]
      /\ task[d][a] \in TaskWriting
  BY <1>1 DEF Move, TypeOK, TaskWriting
<1>3. /\ \A e \in Drivers : call[e].pc \notin CallWriting
      /\ \A e \in Drivers, b \in Agents : task[e][b] \in TaskWriting => e = d /\ b = a
  BY <1>2 DEF Fit, Sole
<1>4. /\ \A e \in Drivers : e # d => call'[e] = call[e]
      /\ call'[d].pc = next /\ call'[d].seq = old.seq /\ call'[d].queue = old.queue
  <2>1. After(d, thrown, last)
    BY DEF Release
  <2>2. \A pc \in {"fail", "chunk"} : /\ [old EXCEPT !.pc = pc].pc = pc /\ [old EXCEPT !.pc = pc].seq = old.seq
                                      /\ [old EXCEPT !.pc = pc].queue = old.queue
    BY <1>1 DEF Call
  <2>3. PICK k : Goto(d, k) /\ k.pc = next /\ k.seq = old.seq /\ k.queue = old.queue
    <3> HIDE DEF last
    <3> QED BY <2>1, <2>2 DEF After
  <2> QED BY <1>1, <2>3 DEF Goto
<1> HIDE DEF last, next
<1>5. \A e \in Drivers, b \in Agents : task'[e][b] # "none" => task'[e][b] = task[e][b] /\ <<e, b>> # <<d, a>>
  BY <1>2
<1>6. Sole'
  BY <1>2, <1>3 DEF Sole, TaskWriting
<1>7. \A e \in Drivers : call'[e].seq = call[e].seq
  BY <1>4
<1>8. \A r : \A b \in Agents : Can(r, b)' <=> Can(r, b)
  BY <1>1 DEF Can
<1>9. Sound'
  <2>1. \A b \in orphans : agent[b] = "BLOCKED" \/ \E e \in Drivers : task'[e][b] = "timed"
    <3>1. \A b \in orphans : agent[b] = "BLOCKED" \/ \E e \in Drivers : task[e][b] = "timed"
      BY DEF Fit, Sound
    <3>2. \A e \in Drivers, b \in Agents : task[e][b] = "timed" => task'[e][b] = "timed"
      BY <1>1, <1>2
    <3>3. orphans \subseteq Agents
      BY DEF TypeOK
    <3> QED BY <3>1, <3>2, <3>3
  <2>2. ASSUME NEW e \in Drivers, NEW b \in Agents
        PROVE  /\ task'[e][b] \in Moving => (Can(call[e].seq, b) /\ b \notin orphans)'
               /\ task'[e][b] = "answered" =>
                    agent'[b] # "BLOCKED" /\ <<call'[e].seq, b>> \notin progress' /\ b \notin orphans'
               /\ task'[e][b] \in {"candidate", "release"} =>
                    agent'[b] = "BLOCKED" \/ <<call'[e].seq, b>> \in progress'
    BY <1>1, <1>5, <1>7 DEF Fit, Sound, Can, Moving
  <2> QED BY <1>1, <2>1, <2>2 DEF Sound
<1>10. /\ old.pc = "await" => \A e \in Drivers, b \in Agents : task[e][b] # "none" => e = d /\ b \notin old.queue
       /\ next = "chunk" => old.pc = "await" /\ ~thrown /\ \A b \in Agents \ {a} : task[d][b] = "none"
       /\ next \in {"chunk", "fail"} \/ next = old.pc
       /\ old.pc \notin CallWriting
  BY <1>3 DEF Fit, QueuedFor, next, last, CallWriting
<1>11. next = "chunk" => \A e \in Drivers, b \in Agents : task'[e][b] = "none"
  BY <1>2, <1>10
<1>12. Home'
  <2>1. ASSUME NEW e \in Drivers, call'[e].pc \in {"loop", "plan", "chunk", "finish", "decide"}, NEW b \in Agents
        PROVE  task'[e][b] = "none"
    <3>1. CASE e = d /\ next = "chunk"
      BY <1>11, <3>1
    <3>2. CASE ~(e = d /\ next = "chunk")
      BY <1>3, <1>4, <1>10, <2>1, <3>2 DEF CallWriting
    <3> QED BY <3>1, <3>2
  <2> QED BY <2>1 DEF Home
<1>13. ASSUME NEW e \in Drivers PROVE QueuedFor(e)'
  <2>1. CASE e # d
    <3>1. call'[e] = call[e] /\ call[e].pc \notin {"chunk", "finish"}
      BY <1>3, <1>4, <2>1 DEF CallWriting
    <3>2. call[e].pc # "await"
      BY <1>2, <2>1 DEF Fit, QueuedFor, TaskWriting
    <3> QED BY <3>1, <3>2 DEF QueuedFor
  <2>2. CASE e = d /\ next \notin {"chunk", "await"}
    <3>1. next # "finish"
      BY <1>10 DEF CallWriting
    <3> QED BY <1>4, <2>2, <3>1 DEF QueuedFor
  <2>3. CASE e = d /\ next \in {"chunk", "await"}
    <3>1. old.pc = "await" /\ ~thrown
      <4>1. next = "await" => old.pc = "await" /\ ~thrown
        BY DEF next
      <4> QED BY <1>10, <2>3, <4>1
    <3>2. ~Can(old.seq, a)
      BY <1>1, <3>1 DEF Fit, Sound, Can
    <3>3. /\ \A b \in old.queue : Can(old.seq, b)
          /\ \A b \in Agents : Can(old.seq, b) => b \in old.queue \/ task[d][b] # "none"
      BY <3>1 DEF Fit, QueuedFor
    <3>4. old.queue \subseteq Agents
      BY <1>1 DEF Call
    <3>5. call'[d].seq = old.seq /\ call'[d].queue = old.queue
      BY <1>4
    <3>6. /\ \A b \in old.queue : Can(old.seq, b)'
          /\ \A b \in Agents : Can(old.seq, b)' => b \in old.queue \/ task'[d][b] # "none"
      BY <1>2, <1>8, <3>2, <3>3, <3>4
    <3>7. next = "await" => \A g \in Drivers, b \in Agents : task'[g][b] # "none" => g = d /\ b \notin old.queue
      BY <1>5, <1>10, <3>1
    <3> QED BY <1>4, <1>11, <2>3, <3>5, <3>6, <3>7 DEF QueuedFor, Can
  <2> QED BY <2>1, <2>2, <2>3
<1>14. Strays'
  <2>1. \A e \in Drivers : call'[e].pc \notin {"finish", "decide"}
    BY <1>3, <1>4, <1>10 DEF CallWriting
  <2>2. ASSUME asked = {}, NEW e \in Drivers, NEW b \in Agents, task'[e][b] # "none"
        PROVE  /\ call'[e].seq = session'.round + 1
               /\ task'[e][b] \in Moving => Cardinality(Before(call[e].seq, b)') < setup'.width
    <3>1. /\ task'[e][b] = task[e][b] /\ call[e].seq = session.round + 1
          /\ task[e][b] \in Moving => Cardinality(Before(call[e].seq, b)) < setup.width
      BY <1>5, <2>2 DEF Fit, Strays
    <3>2. Before(call[e].seq, b)' = Before(call[e].seq, b)
      BY <1>1, <1>7 DEF Before, Can
    <3> QED BY <1>1, <1>7, <3>1, <3>2
  <2> QED BY <1>1, <2>1, <2>2 DEF Strays
<1> QED BY <1>6, <1>9, <1>12, <1>13, <1>14 DEF Fit

\* Nothing moves: usage is reserved, an orphan ends, a claim is retracted, the user asks.
LEMMA StillFit ==
  ASSUME TypeOK, Fit, UNCHANGED <<task, call, setup, agent, progress>>,
         session'.round = session.round, orphans' \subseteq orphans,
         \A a \in Agents : agent[a] = "BLOCKED" \/ runs'[a] = runs[a],
         asked' = {} => asked = {} \/ (~Flying /\ Quiet)
  PROVE  Fit'
<1>1. \A r : \A a \in Agents : Can(r, a)' <=> Can(r, a)
  BY DEF Can
<1>2. Sole' /\ Home'
  BY DEF Fit, Sole, Home
<1>3. Sound'
  <2>1. ASSUME NEW d \in Drivers, NEW a \in Agents
        PROVE  /\ task'[d][a] \in Moving => (Can(call[d].seq, a) /\ a \notin orphans)'
               /\ task'[d][a] = "answered" =>
                    agent'[a] # "BLOCKED" /\ <<call'[d].seq, a>> \notin progress' /\ a \notin orphans'
               /\ task'[d][a] \in {"candidate", "release"} =>
                    agent'[a] = "BLOCKED" \/ <<call'[d].seq, a>> \in progress'
    BY DEF Fit, Sound, Can
  <2> QED BY <2>1 DEF Fit, Sound
<1>4. \A d \in Drivers : QueuedFor(d)'
  <2>1. ASSUME NEW d \in Drivers PROVE QueuedFor(d)'
    <3>1. call[d].queue \subseteq Agents
      BY DEF TypeOK, Call
    <3>2. /\ \A a \in Agents : Can(call[d].seq, a)' <=> Can(call[d].seq, a)
          /\ First(d)' = First(d)
      BY DEF Can, First
    <3>3. asked' = {} => \/ asked = {}
                         \/ /\ \A e \in Drivers, a \in Agents : task[e][a] = "none"
                            /\ call[d].pc # "finish"
      BY DEF Flying, Quiet, CallWriting
    <3> QED BY <3>1, <3>2, <3>3 DEF Fit, QueuedFor
  <2> QED BY <2>1
<1>5. Strays'
  <2>1. CASE ~Flying
    BY <2>1 DEF Strays, Flying, Moving
  <2>2. ASSUME asked' = {}, Flying PROVE Strays'
    <3>1. \A d \in Drivers, a \in Agents : Before(call[d].seq, a)' = Before(call[d].seq, a)
      BY DEF Before, Can
    <3> QED BY <2>2, <3>1 DEF Fit, Strays, Flying
  <2>3. CASE asked' # {}
    BY <2>3 DEF Strays
  <2> QED BY <2>1, <2>2, <2>3
<1> QED BY <1>2, <1>3, <1>4, <1>5 DEF Fit

\* A call goes on while no worker moves.
LEMMA CallFit ==
  ASSUME TypeOK, Fit, NEW d \in Drivers, NEW old, old = call[d], NEW k \in Call, Goto(d, k),
         UNCHANGED <<task, setup, asked, runs, progress, orphans>>,
         \A a \in Agents : agent'[a] = agent[a] \/ (agent'[a] = "BLOCKED" /\ runs[a] = "BLOCKED"),
         \A e \in Drivers : e # d => call[e].pc = "idle",
         \A e \in Drivers, a \in Agents : task[e][a] \notin TaskWriting,
         k.pc \in {"loop", "plan", "chunk", "finish", "decide"} \/ k.seq # old.seq =>
           \A a \in Agents : task[d][a] = "none",
         k.pc # "await", k.pc \in {"chunk", "finish"} => QueuedFor(d)',
         asked = {} /\ (k.pc \in {"finish", "decide"} \/ session'.round # session.round) => ~Flying
  PROVE  Fit'
<1>1. /\ call'[d] = k /\ \A e \in Drivers : e # d => call'[e] = call[e]
      /\ task' = task /\ asked' = asked
  BY DEF Goto, TypeOK
<1>2. \A r : \A a \in Agents : Can(r, a)' <=> Can(r, a)
  BY DEF Can
<1>3. \A e \in Drivers, a \in Agents : task[e][a] # "none" => call'[e].seq = call[e].seq
  BY <1>1
<1>4. Sole'
  BY <1>1 DEF Sole
<1>5. Home'
  <2>1. ASSUME NEW e \in Drivers, call'[e].pc \in {"loop", "plan", "chunk", "finish", "decide"},
               NEW a \in Agents
        PROVE  task[e][a] = "none"
    BY <1>1, <2>1
  <2> QED BY <1>1, <2>1 DEF Home
<1>6. Sound'
  <2>1. ASSUME NEW e \in Drivers, NEW a \in Agents
        PROVE  /\ task'[e][a] \in Moving => (Can(call[e].seq, a) /\ a \notin orphans)'
               /\ task'[e][a] \notin {"answered", "candidate", "release"}
    <3>1. task'[e][a] \notin {"answered", "candidate", "release"}
      BY <1>1 DEF TaskWriting
    <3>2. ASSUME task[e][a] \in Moving PROVE (Can(call[e].seq, a) /\ a \notin orphans)'
      <4>1. Can(call[e].seq, a) /\ a \notin orphans /\ call'[e].seq = call[e].seq
        BY <1>3, <3>2 DEF Fit, Sound, Moving
      <4>2. PICK r : r = call[e].seq
        OBVIOUS
      <4>3. Can(r, a)'
        BY <1>2, <4>1, <4>2
      <4> QED BY <4>1, <4>2, <4>3 DEF Can
    <3> QED BY <1>1, <3>1, <3>2
  <2>2. ASSUME NEW a \in orphans' PROVE agent'[a] = "BLOCKED"
    BY <2>2 DEF Fit, Sound, TypeOK, TaskWriting
  <2> QED BY <2>1, <2>2 DEF Sound
<1>7. \A e \in Drivers : QueuedFor(e)'
  BY <1>1 DEF QueuedFor
<1>8. Strays'
  <2>1. ASSUME asked = {} PROVE \A e \in Drivers : call'[e].pc \in {"finish", "decide"} => ~Flying
    BY <1>1, <2>1
  <2>2. ASSUME asked = {}, NEW e \in Drivers, NEW a \in Agents, task[e][a] # "none"
        PROVE  /\ call'[e].seq = session'.round + 1
               /\ task[e][a] \in Moving => Cardinality(Before(call[e].seq, a)') < setup.width
    <3>1. /\ session'.round = session.round
          /\ call[e].seq = session.round + 1
          /\ task[e][a] \in Moving => Cardinality(Before(call[e].seq, a)) < setup.width
      BY <2>2 DEF Fit, Strays, Flying
    <3>2. PICK r : r = call[e].seq
      OBVIOUS
    <3>3. Before(r, a)' = Before(r, a)
      BY <1>2 DEF Before
    <3>4. Before(call[e].seq, a)' = Before(r, a)'
      BY <1>3, <2>2, <3>2 DEF Before, Can
    <3> QED BY <1>3, <2>2, <3>1, <3>2, <3>3, <3>4
  <2>3. Flying' = Flying
    BY DEF Flying
  <2> QED BY <1>1, <2>1, <2>2, <2>3 DEF Strays
<1> QED BY <1>4, <1>5, <1>6, <1>7, <1>8 DEF Fit

\* The workers of a chunk begin.
LEMMA ChunkFit ==
  ASSUME TypeOK, StepUnderLease, Order, Fit, NEW d \in Drivers, NEW old, old = call[d],
         Chunk(d), asked = {}, old.queue # {}
  PROVE  Fit' /\ \A e \in Drivers, a \in Agents : task'[e][a] # task[e][a] => agent[a] # "BLOCKED"
<1> DEFINE begun == First(d) \intersect Unleased
           rest == old.queue \ First(d)
<1>1. /\ old.pc = "chunk" /\ call \in [Drivers -> Call] /\ old \in Call
      /\ task \in [Drivers -> [Agents -> Task]]
      /\ First(d) \subseteq old.queue /\ old.queue \subseteq Agents
      /\ begun \subseteq First(d)
      /\ UNCHANGED <<setup, session, progress, agent, runs, orphans, asked>>
  BY DEF Chunk, At, TypeOK, First, Call
<1>2. /\ \A e \in Drivers : e # d => call'[e] = call[e] /\ call[e].pc = "idle"
      /\ call'[d].pc = IF begun = First(d) THEN "await" ELSE "fail"
      /\ call'[d].queue = rest /\ call'[d].seq = old.seq
  <2>1. Goto(d, [old EXCEPT !.pc = IF begun = First(d) THEN "await" ELSE "fail", !.queue = rest])
    BY DEF Chunk
  <2>2. \A q : \A pc \in {"await", "fail"} : LET k == [old EXCEPT !.pc = pc, !.queue = q]
                                             IN k.pc = pc /\ k.queue = q /\ k.seq = old.seq
    BY <1>1 DEF Call
  <2>3. \A e \in Drivers : e # d => call[e].pc = "idle"
    BY <1>1 DEF Order
  <2> HIDE DEF begun, rest
  <2> QED BY <1>1, <2>1, <2>2, <2>3 DEF Goto
<1>3. \A e \in Drivers, a \in Agents : \/ /\ e = d /\ a \in begun
                                          /\ task[e][a] = "none" /\ task'[e][a] \in Moving
                                       \/ /\ ~(e = d /\ a \in begun)
                                          /\ task'[e][a] = task[e][a]
  <2>1. \A a \in Agents : task[d][a] = "none"
    BY <1>1 DEF Fit, Home
  <2>2. task' = [task EXCEPT ![d] = [a \in Agents |->
                   IF a \notin begun THEN @[a] ELSE IF a \in setup.checkers THEN "checking" ELSE "step"]]
    BY DEF Chunk
  <2> HIDE DEF begun
  <2> QED BY <1>1, <2>1, <2>2 DEF Moving
<1> HIDE DEF begun, rest
<1>4. \A e \in Drivers, a \in Agents : task[e][a] \notin TaskWriting /\ task'[e][a] \notin TaskWriting
  <2>1. \A e \in Drivers, a \in Agents : task[e][a] \notin TaskWriting
    BY <1>1 DEF Fit, Sole, CallWriting
  <2> QED BY <1>3, <2>1 DEF Moving, TaskWriting
<1>5. /\ \A a \in old.queue : Can(old.seq, a)
      /\ \A a \in Agents : Can(old.seq, a) => a \in old.queue
      /\ \A e \in Drivers, a \in Agents : task[e][a] # "none" => a \in First(d)
  BY <1>1 DEF Fit, QueuedFor
<1>6. \A r : \A a \in Agents : Can(r, a)' <=> Can(r, a)
  BY <1>1 DEF Can
<1>7. \A e \in Drivers : call'[e].seq = call[e].seq
  BY <1>2
<1>8. \A a \in begun : Can(old.seq, a) /\ agent[a] # "BLOCKED" /\ a \notin orphans
  <2>1. \A a \in begun : Can(old.seq, a) /\ agent[a] # "BLOCKED"
    BY <1>1, <1>5 DEF Can
  <2>2. \A a \in orphans : agent[a] = "BLOCKED"
    BY <1>4 DEF Fit, Sound, TypeOK, TaskWriting
  <2> QED BY <2>1, <2>2
<1>9. Sole' /\ Home'
  <2>1. Sole'
    BY <1>4 DEF Sole
  <2> QED BY <1>2, <2>1 DEF Home
<1>10. Sound'
  <2>1. ASSUME NEW e \in Drivers, NEW a \in Agents, task'[e][a] \in Moving
        PROVE  Can(call[e].seq, a)' /\ a \notin orphans
    <3>1. Can(call[e].seq, a) /\ a \notin orphans
      BY <1>3, <1>8, <2>1 DEF Fit, Sound
    <3> QED BY <1>1, <1>7, <3>1 DEF Can
  <2>2. \A a \in orphans : agent[a] = "BLOCKED"
    BY <1>4 DEF Fit, Sound, TypeOK, TaskWriting
  <2> QED BY <1>1, <1>4, <2>1, <2>2 DEF Sound, TaskWriting
<1>11. \A e \in Drivers : QueuedFor(e)'
  <2>1. ASSUME NEW e \in Drivers, e # d PROVE QueuedFor(e)'
    BY <1>2, <2>1 DEF QueuedFor
  <2>2. CASE begun # First(d)
    BY <1>2, <2>2 DEF QueuedFor
  <2>3. ASSUME begun = First(d) PROVE QueuedFor(d)'
    <3>1. \A a \in rest : Can(old.seq, a)
      BY <1>5 DEF rest
    <3>2. ASSUME NEW e \in Drivers, NEW a \in Agents, task'[e][a] # "none"
          PROVE  e = d /\ a \notin rest
      <4>1. CASE e = d /\ a \in begun
        BY <1>1, <4>1 DEF rest
      <4>2. CASE ~(e = d /\ a \in begun)
        <5>1. a \in First(d) /\ lease[a] = e
          BY <1>3, <1>5, <3>2, <4>2 DEF StepUnderLease
        <5>2. a \in Unleased
          BY <2>3, <5>1 DEF begun
        <5> QED BY <5>1, <5>2, ConstantsAssumption DEF Unleased
      <4> QED BY <4>1, <4>2
    <3>3. \A a \in Agents : Can(old.seq, a) => a \in rest \/ task'[d][a] # "none"
      BY <1>3, <1>5, <2>3 DEF rest, Moving
    <3>4. \A a \in Agents : (Can(call[d].seq, a)' <=> Can(old.seq, a))
      BY <1>1, <1>7 DEF Can
    <3>5. rest \subseteq Agents
      BY <1>1 DEF rest
    <3> QED BY <1>2, <2>3, <3>1, <3>2, <3>3, <3>4, <3>5 DEF QueuedFor
  <2> QED BY <2>1, <2>2, <2>3
<1>12. Strays'
  <2>1. \A e \in Drivers : call'[e].pc \notin {"finish", "decide"}
    BY <1>2
  <2>2. ASSUME NEW e \in Drivers, NEW a \in Agents, task'[e][a] # "none"
        PROVE  /\ call[e].seq = session.round + 1
               /\ task'[e][a] \in Moving => Cardinality(Before(call[e].seq, a)) < setup.width
    <3>1. CASE e = d /\ a \in begun
      <4>1. call[e].seq = session.round + 1
        BY <1>1, <3>1 DEF Order
      <4>2. Before(old.seq, a) = {b \in old.queue : b < a}
        BY <1>1, <1>5 DEF Before
      <4>3. a \in First(d)
        BY <1>1, <3>1
      <4> QED BY <3>1, <4>1, <4>2, <4>3 DEF First
    <3>2. CASE ~(e = d /\ a \in begun)
      BY <1>3, <2>2, <3>2 DEF Fit, Strays
    <3> QED BY <3>1, <3>2
  <2>3. \A e \in Drivers, a \in Agents : Before(call[e].seq, a)' = Before(call[e].seq, a)
    BY <1>1, <1>7 DEF Before, Can
  <2> QED BY <1>1, <1>7, <2>1, <2>2, <2>3 DEF Strays
<1>13. \A e \in Drivers, a \in Agents : task'[e][a] # task[e][a] => agent[a] # "BLOCKED"
  BY <1>3, <1>8
<1> QED BY <1>9, <1>10, <1>11, <1>12, <1>13 DEF Fit

\* The plan holds every worker that can step, and the steps left behind are of its first chunk.
LEMMA PlanFit ==
  ASSUME TypeOK, Order, Fit, NEW d \in Drivers, NEW old, old = call[d], Plan(d)
  PROVE  Fit'
<1> DEFINE k == [old EXCEPT !.pc = "chunk", !.queue = Eligible(d)]
<1>1. /\ old.pc = "plan" /\ old \in Call /\ Goto(d, k) /\ Eligible(d) \subseteq Agents
      /\ UNCHANGED <<task, setup, asked, runs, progress, orphans, session>>
      /\ \A a \in Agents : agent'[a] = agent[a] \/ (agent'[a] = "BLOCKED" /\ runs[a] = "BLOCKED")
  BY DEF Plan, At, TypeOK, Eligible
<1>2. k \in Call /\ k.pc = "chunk" /\ k.seq = old.seq /\ k.queue = Eligible(d)
  <2> HIDE DEF k
  <2>1. k = [old EXCEPT !.pc = "chunk", !.queue = Eligible(d)] /\ Eligible(d) \subseteq Agents
    BY <1>1 DEF k
  <2> QED BY <1>1, <2>1 DEF Call, CallWriting
<1> HIDE DEF k
<1>3. /\ call'[d] = k /\ \A e \in Drivers : e # d => call[e].pc = "idle"
      /\ old.seq = session.round + 1
  BY <1>1 DEF Goto, TypeOK, Order
<1>4. /\ \A e \in Drivers, a \in Agents : task[e][a] \notin TaskWriting
      /\ \A a \in Agents : task[d][a] = "none"
  BY <1>1 DEF Fit, Sole, Home, CallWriting
<1>5. \A a \in Agents : a \in Eligible(d) <=> Can(old.seq, a)
  BY DEF Eligible, Can
<1>6. \A a \in Agents : Can(old.seq, a)' <=> Can(old.seq, a)
  BY <1>1 DEF Can
<1>7. ASSUME asked = {}, NEW e \in Drivers, NEW a \in Agents, task[e][a] # "none"
      PROVE  a \in Eligible(d) /\ Cardinality({b \in Eligible(d) : b < a}) < setup.width
  <2>1. task[e][a] \in Moving
    BY <1>4, <1>7 DEF TypeOK, Task, Moving
  <2>2. Can(old.seq, a) /\ Cardinality(Before(old.seq, a)) < setup.width
    BY <1>3, <1>7, <2>1 DEF Fit, Sound, Strays
  <2>3. Before(old.seq, a) = {b \in Eligible(d) : b < a}
    BY <1>1, <1>5 DEF Before
  <2> QED BY <1>5, <2>2, <2>3
<1>8. QueuedFor(d)'
  <2>1. call'[d].pc = "chunk" /\ call'[d].seq = old.seq /\ call'[d].queue = Eligible(d)
    BY <1>2, <1>3
  <2>2. \A a \in Agents : Can(call[d].seq, a)' <=> Can(old.seq, a)
    BY <1>6, <2>1 DEF Can
  <2>3. First(d)' = {a \in Eligible(d) : Cardinality({b \in Eligible(d) : b < a}) < setup.width}
    BY <1>1, <2>1 DEF First
  <2>4. ASSUME asked' = {}, NEW e \in Drivers, NEW a \in Agents, task'[e][a] # "none"
        PROVE  a \in First(d)'
    BY <1>1, <1>7, <2>3, <2>4
  <2> QED BY <1>1, <1>5, <2>1, <2>2, <2>4 DEF QueuedFor
<1> QED BY <1>1, <1>2, <1>3, <1>4, <1>8, CallFit

\* What a call does, with the workers it begins with.
Unblocked == \A d \in Drivers, a \in Agents : task'[d][a] # task[d][a] => agent[a] # "BLOCKED"

LEMMA AdvanceFit ==
  ASSUME ~Impatient, TypeOK, StepUnderLease, Order, Fit, NEW d \in Drivers, NEW old, old = call[d],
         StepTeam(d) \/ RunTeam(d) \/ Advance(d)
  PROVE  Fit' /\ Unblocked
<1>1. /\ old \in Call /\ session \in Session /\ old.seq \in Nat
  BY DEF TypeOK, Call
<1>2. /\ \A e \in Drivers : e # d => call[e].pc = "idle"
      /\ \A e \in Drivers, a \in Agents : task[e][a] \notin TaskWriting
      /\ call[d].pc = "idle" => \A a \in Agents : task[d][a] = "none"
  <2>1. CASE StepTeam(d) \/ RunTeam(d)
    BY <2>1 DEF StepTeam, RunTeam, Free, Quiet, Attended
  <2>2. CASE Advance(d)
    <3>1. call[d].pc \in CallWriting /\ call[d].pc # "idle"
      BY <2>2 DEF Advance, Loop, Plan, Chunk, Fail, Halt, Finish, Decide, At, CallWriting
    <3> QED BY <3>1 DEF Order, Fit, Sole
  <2> QED BY <2>1, <2>2
<1>3. \A a \in Agents : call[d].pc \in {"idle", "loop", "chunk", "finish", "decide"} => task[d][a] = "none"
  BY <1>2 DEF Fit, Home
<1>4. ASSUME NEW k \in Call, Goto(d, k),
             UNCHANGED <<task, setup, asked, runs, progress, orphans, agent>>,
             old.pc \in {"idle", "loop", "chunk", "finish", "decide"} \/ k.seq = old.seq,
             k.pc \notin {"await", "chunk"}, k.pc = "finish" => QueuedFor(d)',
             k.pc \in {"loop", "plan", "finish", "decide"} =>
               old.pc \in {"idle", "loop", "chunk", "finish", "decide"},
             asked = {} /\ (k.pc \in {"finish", "decide"} \/ session'.round # session.round) => ~Flying
      PROVE  Fit' /\ Unblocked
  <2>1. k.pc \in {"loop", "plan", "chunk", "finish", "decide"} \/ k.seq # old.seq =>
          \A a \in Agents : task[d][a] = "none"
    BY <1>3, <1>4
  <2>2. Fit'
    BY <1>2, <1>4, <2>1, CallFit
  <2> QED BY <1>4, <2>2 DEF Unblocked
<1>5. CASE \E loop \in BOOLEAN : /\ Enter(d, loop) /\ old.pc \in {"idle", "loop"}
                                 /\ UNCHANGED <<task, setup, asked, runs, progress, orphans, agent>>
  <2>1. PICK loop \in BOOLEAN : Enter(d, loop)
    BY <1>5
  <2>2. session'.round = session.round
    BY <2>1, SameRound DEF Enter, Status
  <2>3. \E k \in Call : Goto(d, k) /\ k.pc \in {"idle", "loop", "plan"}
    <3> DEFINE plan == [pc |-> "plan", loop |-> loop, seq |-> session.round + 1, copy |-> session, queue |-> {}]
    <3>1. plan \in Call /\ plan.pc = "plan"
      BY <1>1, ConstantsAssumption DEF Call, CallWriting, Session
    <3>2. Goto(d, Idle) \/ Goto(d, AtLoop) \/ Goto(d, plan)
      BY <2>1 DEF Enter, AtLoop
    <3> HIDE DEF plan
    <3> QED BY <3>1, <3>2, CallRows
  <2> QED BY <1>4, <1>5, <2>2, <2>3
<1>6. CASE StepTeam(d)
  BY <1>5, <1>6 DEF StepTeam, Free
<1>7. CASE RunTeam(d)
  <2>1. session'.round = session.round
    BY <1>7, SameRound DEF RunTeam, Status
  <2>2. Goto(d, AtLoop) /\ old.pc = "idle" /\ UNCHANGED <<task, setup, asked, runs, progress, orphans, agent>>
    BY <1>7 DEF RunTeam, Free, AtLoop
  <2> QED BY <1>4, <2>1, <2>2, CallRows
<1>8. CASE Loop(d)
  <2>1. old.pc = "loop" /\ UNCHANGED <<task, setup, asked, runs, progress, orphans, agent>>
    BY <1>8 DEF Loop, At
  <2>2. CASE Goto(d, Idle) /\ UNCHANGED <<session, rounds>>
    BY <1>4, <2>1, <2>2, CallRows
  <2> QED BY <1>5, <1>8, <2>1, <2>2 DEF Loop
<1>9. CASE Plan(d)
  <2>1. Fit'
    BY <1>9, PlanFit
  <2>2. task' = task
    BY <1>9 DEF Plan
  <2> QED BY <2>1, <2>2 DEF Unblocked
<1>10. CASE Chunk(d)
  <2>1. old.pc = "chunk" /\ UNCHANGED <<setup, session, progress, agent, runs, orphans, asked>>
    BY <1>10 DEF Chunk, At
  <2>2. CASE old.queue = {} \/ asked # {}
    <3> DEFINE k == [old EXCEPT !.pc = "finish", !.queue = {}]
    <3>1. k \in Call /\ k.pc = "finish" /\ k.seq = old.seq
      BY <1>1 DEF Call, CallWriting
    <3>2. Goto(d, k) /\ task' = task
      BY <1>10, <2>2 DEF Chunk
    <3>3. asked = {} => ~Flying
      BY <2>1, <2>2 DEF Fit, QueuedFor, First, Flying
    <3> HIDE DEF k
    <3>4. QueuedFor(d)'
      <4>1. call'[d] = k
        BY <3>2 DEF Goto, TypeOK
      <4>2. asked = {} => \A a \in Agents : ~Can(old.seq, a)
        BY <2>1, <2>2 DEF Fit, QueuedFor
      <4>3. \A a \in Agents : Can(call[d].seq, a)' <=> Can(old.seq, a)
        BY <2>1, <3>1, <4>1 DEF Can
      <4> QED BY <2>1, <3>1, <4>1, <4>2, <4>3 DEF QueuedFor
    <3> QED BY <1>4, <2>1, <3>1, <3>2, <3>3, <3>4
  <2>3. CASE old.queue # {} /\ asked = {}
    BY <1>10, <2>3, ChunkFit DEF Unblocked
  <2> QED BY <2>2, <2>3
<1>11. CASE Fail(d)
  <2>1. UNCHANGED <<task, setup, session, asked, runs, progress, orphans, agent>>
    BY <1>11 DEF Fail
  <2>2. \E k \in Call : Goto(d, k) /\ k.pc = "halt" /\ k.seq = old.seq
    BY <1>1, <1>11 DEF Fail, Call, CallWriting
  <2> QED BY <1>4, <2>1, <2>2
<1>12. CASE Halt(d)
  <2>1. /\ UNCHANGED <<task, setup, asked, runs, progress, orphans, agent>>
        /\ old.pc = "halt" /\ old.copy.round = session.round /\ old.copy \in Session
    BY <1>1, <1>12 DEF Halt, At, Order, Call
  <2>2. session'.round = session.round
    BY <1>12, <2>1 DEF Halt, Session
  <2>3. \E k \in Call : Goto(d, k) /\ k.pc = "idle" /\ k.seq = old.seq
    <3>1. old.seq \in Nat \ {0}
      BY <1>1 DEF Call
    <3> QED BY <1>12, <3>1, CallRows DEF Halt
  <2> QED BY <1>4, <2>1, <2>2, <2>3
<1>13. CASE Finish(d)
  <2>1. UNCHANGED <<task, setup, asked, runs, progress, orphans, agent>> /\ old.pc = "finish"
    BY <1>13 DEF Finish, At
  <2>2. \E k \in Call : Goto(d, k) /\ k.pc = "decide"
    BY <1>1, <1>13 DEF Finish, Call, CallWriting
  <2>3. asked = {} => ~Flying
    BY <2>1 DEF Fit, Strays
  <2> QED BY <1>4, <2>1, <2>2, <2>3
<1>14. CASE Decide(d)
  <2>1. UNCHANGED <<task, setup, asked, runs, progress, orphans, agent>> /\ old.pc = "decide"
    BY <1>14 DEF Decide, At
  <2>2. session'.round = session.round
    BY <1>14, SameRound DEF Decide, Suspended, Status, Final
  <2>3. \E k \in {Idle, AtLoop} : Goto(d, k)
    BY <1>14 DEF Decide, AtLoop
  <2> QED BY <1>4, <2>1, <2>2, <2>3, CallRows
<1> QED BY <1>6, <1>7, <1>8, <1>9, <1>10, <1>11, <1>12, <1>13, <1>14 DEF Advance

\* Every action keeps what the steps in flight, the plans and the strays are held to.
LEMMA NextFit == ~Impatient /\ TypeOK /\ StepUnderLease /\ Order /\ Fit /\ [Next]_vars => Fit'
<1> SUFFICES ASSUME ~Impatient, TypeOK, StepUnderLease, Order, Fit, [Next]_vars PROVE Fit'
  OBVIOUS
<1>1. ASSUME NEW d \in Drivers, StepTeam(d) \/ RunTeam(d) \/ Advance(d) PROVE Fit'
  BY <1>1, AdvanceFit
<1>2. ASSUME NEW d \in Drivers, NEW a \in Agents, StepAdvance(d, a) PROVE Fit'
  BY <1>2, StepFit, ReleaseFit DEF StepAdvance
<1>3. CASE Reserve \/ UNCHANGED vars
  <2>1. UNCHANGED <<task, call, setup, agent, progress, runs, orphans, asked>>
    BY <1>3 DEF Reserve, vars, store, memory
  <2>2. session'.round = session.round
    BY <1>3 DEF Reserve, vars, store, TypeOK, Session
  <2> QED BY <2>1, <2>2, StillFit
<1>4. CASE PauseTeam \/ CancelTeam \/ \E a \in Agents : Retract(a)
  <2>1. /\ UNCHANGED <<task, call, setup, agent, progress, runs, orphans>>
        /\ asked' = {} => asked = {}
    BY <1>4 DEF PauseTeam, CancelTeam, Retract, memory
  <2>2. session'.round = session.round
    BY <1>4, SameRound DEF PauseTeam, CancelTeam, Retract, Suspended, Status, Final
  <2> QED BY <2>1, <2>2, StillFit
<1>5. CASE ResumeTeam
  <2>1. UNCHANGED <<task, call, setup, agent, progress, runs, orphans>> /\ ~Flying /\ Quiet
    BY <1>5 DEF ResumeTeam
  <2>2. session'.round = session.round
    BY <1>5, SameRound DEF ResumeTeam, Status
  <2> QED BY <2>1, <2>2, StillFit
<1>6. ASSUME NEW a \in Agents, OrphanEnds(a) PROVE Fit'
  <2>1. /\ UNCHANGED <<task, call, setup, agent, progress, session, asked>>
        /\ a \in orphans /\ orphans' \subseteq orphans /\ Quiet
        /\ \A b \in Agents : b = a \/ runs'[b] = runs[b]
    BY <1>6 DEF OrphanEnds, Stepped, TypeOK
  <2>2. agent[a] = "BLOCKED"
    BY <2>1 DEF Fit, Sound, Quiet, TaskWriting
  <2> QED BY <2>1, <2>2, StillFit
<1>7. CASE Restart
  <2>1. /\ \A d \in Drivers, a \in Agents : task'[d][a] = "none"
        /\ \A d \in Drivers : call'[d].pc = "idle"
        /\ orphans' = {}
    BY <1>7, CallRows DEF Restart
  <2>2. Sole' /\ Home'
    BY <2>1 DEF Sole, Home, TaskWriting
  <2>3. Sound'
    BY <2>1 DEF Sound, Moving
  <2>4. (\A d \in Drivers : QueuedFor(d)) '
    BY <2>1 DEF QueuedFor
  <2>5. Strays'
    BY <2>1 DEF Strays
  <2> QED BY <2>2, <2>3, <2>4, <2>5 DEF Fit
<1> QED BY <1>1, <1>2, <1>3, <1>4, <1>5, <1>6, <1>7 DEF Next, Charge, ChargeOrphan

\* A worker that is blocked is not taken up by any action.
LEMMA NextBlocked ==
  ~Impatient /\ TypeOK /\ StepUnderLease /\ Order /\ Fit /\ [Next]_vars =>
    \A a \in Agents : agent[a] = "BLOCKED" =>
      /\ agent'[a] = "BLOCKED"
      /\ \A d \in Drivers : task[d][a] = "none" => task'[d][a] = "none"
<1> SUFFICES ASSUME ~Impatient, TypeOK, StepUnderLease, Order, Fit, [Next]_vars,
                    NEW a \in Agents, agent[a] = "BLOCKED"
             PROVE  agent'[a] = "BLOCKED" /\ \A d \in Drivers : task[d][a] = "none" => task'[d][a] = "none"
  OBVIOUS
<1>1. agent \in [Agents -> {"READY", "RUNNING", "BLOCKED"}] /\ task \in [Drivers -> [Agents -> Task]]
  BY DEF TypeOK
<1>2. ASSUME NEW d \in Drivers, StepTeam(d) \/ RunTeam(d) \/ Advance(d)
      PROVE  agent'[a] = "BLOCKED" /\ \A e \in Drivers : task[e][a] = "none" => task'[e][a] = "none"
  <2>1. \A e \in Drivers : task[e][a] = "none" => task'[e][a] = "none"
    BY <1>2, AdvanceFit DEF Unblocked
  <2>2. agent' = agent \/ Plan(d)
    BY <1>2 DEF StepTeam, RunTeam, Advance, Loop, Chunk, Fail, Halt, Finish, Decide
  <2>3. agent'[a] = "BLOCKED"
    BY <1>1, <2>2 DEF Plan
  <2> QED BY <2>1, <2>3
<1>3. ASSUME NEW d \in Drivers, NEW b \in Agents, StepAdvance(d, b)
      PROVE  agent'[a] = "BLOCKED" /\ \A e \in Drivers : task[e][a] = "none" => task'[e][a] = "none"
  <2>1. task[d][b] # "none" /\ \E place : Move(d, b, place)
    BY <1>3 DEF StepAdvance, Checked, Answer, Throw, Timeout, TimedOut, Progress, Candidate, Release, In
  <2>2. \A e \in Drivers : task[e][a] = "none" => task'[e][a] = "none"
    BY <1>1, <2>1 DEF Move
  <2>3. agent' = agent \/ agent' = [agent EXCEPT ![b] = "BLOCKED"] \/ Progress(d, b)
    BY <1>3 DEF StepAdvance, Checked, Answer, Throw, Timeout, TimedOut, Candidate, Release, store
  <2>4. Progress(d, b) => agent[b] # "BLOCKED"
    BY DEF Progress, In, Fit, Sound
  <2>5. Progress(d, b) => agent'[a] = agent[a]
    BY <1>1, <2>4 DEF Progress
  <2> QED BY <1>1, <2>2, <2>3, <2>5
<1>4. CASE Restart
  BY <1>4 DEF Restart
<1>5. CASE \/ Reserve \/ PauseTeam \/ CancelTeam \/ ResumeTeam \/ UNCHANGED vars
           \/ \E b \in Agents : OrphanEnds(b) \/ Retract(b)
  BY <1>5 DEF Reserve, PauseTeam, CancelTeam, ResumeTeam, OrphanEnds, Retract, vars, store, memory
<1> QED BY <1>2, <1>3, <1>4, <1>5 DEF Next, Charge, ChargeOrphan

\* The induction behind BlockedStaysBlocked and ImplementsRounds.
THEOREM Fitting == ~Impatient /\ Spec => [](TypeOK /\ StepUnderLease /\ Order /\ Fit)
<1>1. SUFFICES ASSUME ~Impatient PROVE Spec => [](TypeOK /\ StepUnderLease /\ Order /\ Fit)
  OBVIOUS
<1>2. Spec => []StepUnderLease
  BY <1>1, OneStepPerLease, PTL
<1>3. Init => Order
  BY CallRows, ConstantsAssumption DEF Init, Order, RoundsInOrder, NewSession, Rounds
<1>4. Init => Fit
  <2> SUFFICES ASSUME Init PROVE Fit
    OBVIOUS
  <2>1. /\ \A d \in Drivers, a \in Agents : task[d][a] = "none"
        /\ \A d \in Drivers : call[d].pc = "idle"
        /\ orphans = {}
    BY CallRows DEF Init
  <2>2. Sole /\ Home /\ Sound /\ Strays
    BY <2>1 DEF Sole, Home, Sound, Strays, TaskWriting, Moving
  <2>3. \A d \in Drivers : QueuedFor(d)
    BY <2>1 DEF QueuedFor
  <2> QED BY <2>2, <2>3 DEF Fit
<1>5. TypeOK /\ StepUnderLease /\ Order /\ Fit /\ [Next]_vars => Order' /\ Fit'
  BY <1>1, NextOrder, NextFit
<1> QED BY <1>2, <1>3, <1>4, <1>5, TypeCorrect, PTL DEF Spec

\* A worker that is blocked stays blocked and begins no step, though the step it was blocked for may
\* go on and make its run live again, and though later rounds go over all the workers.
THEOREM BlockedStaysBlocked == ~Impatient /\ Spec => BlockedForGood
<1>1. SUFFICES ASSUME ~Impatient PROVE Spec => BlockedForGood
  OBVIOUS
<1>2. TypeOK /\ StepUnderLease /\ Order /\ Fit /\ [Next]_vars =>
        [\A a \in Agents : agent[a] = "BLOCKED" =>
           /\ agent'[a] = "BLOCKED"
           /\ \A d \in Drivers : task[d][a] = "none" => task'[d][a] = "none"]_vars
  BY <1>1, NextBlocked
<1> QED BY <1>1, <1>2, Fitting, PTL DEF Spec, BlockedForGood

-----------------------------------------------------------------------------
(***************************************************************************)
(* TeamResearch implements TeamRounds.  What is left behind belongs to the *)
(* round that is open, or to one that a request has cut short.             *)
(***************************************************************************)
Late == \A d \in Drivers, a \in Agents : task[d][a] # "none" => call[d].seq <= session.round + 1

\* The session goes on to the next round when one is finished, and never back.
LEMMA RoundMoves ==
  ASSUME ~Impatient, TypeOK, Order, [Next]_vars
  PROVE  \/ session'.round = session.round
         \/ \E d \in Drivers : Finish(d) /\ session'.round = session.round + 1
<1>1. ASSUME NEW d \in Drivers, StepTeam(d) \/ Loop(d) PROVE session'.round = session.round
  BY <1>1, SameRound DEF StepTeam, Loop, Enter, Status
<1>2. ASSUME NEW d \in Drivers, RunTeam(d) \/ Decide(d) PROVE session'.round = session.round
  BY <1>2, SameRound DEF RunTeam, Decide, Suspended, Status, Final
<1>3. ASSUME NEW d \in Drivers, Finish(d) PROVE session'.round = session.round + 1
  BY <1>3 DEF Finish, At, Order, TypeOK, Session
<1>4. ASSUME NEW d \in Drivers, Halt(d) PROVE session'.round = session.round
  <2>1. call[d].copy.round = session.round /\ call[d].copy \in Session
    BY <1>4 DEF Halt, At, Order, TypeOK, Call
  <2> QED BY <1>4, <2>1 DEF Halt, Session
<1>5. ASSUME NEW d \in Drivers, Plan(d) \/ Chunk(d) \/ Fail(d) PROVE session'.round = session.round
  BY <1>5 DEF Plan, Chunk, Fail
<1>6. ASSUME NEW d \in Drivers, NEW a \in Agents, StepAdvance(d, a) PROVE session'.round = session.round
  BY <1>6 DEF StepAdvance, Checked, Answer, Throw, Timeout, TimedOut, Progress, Candidate, Release, store
<1>7. CASE Reserve
  BY <1>7 DEF Reserve, TypeOK, Session
<1>8. CASE \/ PauseTeam \/ CancelTeam \/ ResumeTeam \/ Restart \/ UNCHANGED vars
           \/ \E a \in Agents : OrphanEnds(a) \/ Retract(a)
  BY <1>8, SameRound
  DEF PauseTeam, CancelTeam, ResumeTeam, Restart, OrphanEnds, Retract, Suspended, vars, store, Status, Final
<1> QED BY <1>1, <1>2, <1>3, <1>4, <1>5, <1>6, <1>7, <1>8 DEF Next, Advance, Charge, ChargeOrphan

LEMMA NextLate == ~Impatient /\ TypeOK /\ Order /\ Fit /\ Late /\ [Next]_vars => Late'
<1> SUFFICES ASSUME ~Impatient, TypeOK, Order, Fit, Late, [Next]_vars,
                    NEW d \in Drivers, NEW a \in Agents, task'[d][a] # "none"
             PROVE  call'[d].seq <= session'.round + 1
  BY DEF Late
<1>1. /\ call[d].seq \in Nat /\ session.round \in Nat
      /\ session'.round \in {session.round, session.round + 1}
      /\ call \in [Drivers -> Call] /\ task \in [Drivers -> [Agents -> Task]]
  BY RoundMoves DEF TypeOK, Call, Session
<1>2. ASSUME task[d][a] # "none", call'[d].seq = call[d].seq PROVE call'[d].seq <= session'.round + 1
  BY <1>1, <1>2 DEF Late
<1>3. ASSUME NEW e \in Drivers, \E k : Goto(e, k), StepTeam(e) \/ RunTeam(e) \/ Advance(e)
      PROVE  call'[d].seq <= session'.round + 1
  <2>1. CASE e # d
    <3>1. call'[d] = call[d]
      BY <1>3, <2>1 DEF Goto, TypeOK
    <3>2. task'[d] = task[d]
      BY <1>1, <1>3, <2>1 DEF StepTeam, RunTeam, Advance, Loop, Plan, Chunk, Fail, Halt, Finish, Decide
    <3> QED BY <1>2, <3>1, <3>2
  <2>2. CASE e = d /\ Chunk(e)
    <3>1. call'[d].seq = call[d].seq
      <4> DEFINE pc == IF First(d) \intersect Unleased = First(d) THEN "await" ELSE "fail"
                 rest == call[d].queue \ First(d)
      <4>1. \/ Goto(d, [call[d] EXCEPT !.pc = "finish", !.queue = {}])
            \/ Goto(d, [call[d] EXCEPT !.pc = pc, !.queue = rest])
        BY <2>2 DEF Chunk
      <4> HIDE DEF pc, rest
      <4>2. PICK k : Goto(d, k) /\ (k = [call[d] EXCEPT !.pc = "finish", !.queue = {}]
                                   \/ k = [call[d] EXCEPT !.pc = pc, !.queue = rest])
        BY <4>1
      <4>3. k.seq = call[d].seq
        BY <1>1, <4>2 DEF Call
      <4> QED BY <1>1, <4>2, <4>3 DEF Goto
    <3>2. call[d].seq = session.round + 1 /\ session' = session
      BY <2>2 DEF Chunk, At, Order
    <3> QED BY <1>1, <3>1, <3>2
  <2>3. CASE e = d /\ Fail(e)
    <3>1. call'[d].seq = call[d].seq /\ task' = task
      BY <1>1, <2>3 DEF Fail, Goto, Call
    <3> QED BY <1>2, <3>1
  <2>4. CASE e = d /\ Halt(e)
    <3>1. Goto(d, [Idle EXCEPT !.seq = call[d].seq]) /\ call[d].seq \in Nat \ {0} /\ task' = task
      BY <1>1, <2>4 DEF Halt, Call
    <3>2. call'[d].seq = call[d].seq
      BY <1>1, <3>1, CallRows DEF Goto
    <3> QED BY <1>2, <3>1, <3>2
  <2>5. CASE e = d /\ (StepTeam(e) \/ RunTeam(e))
    BY <2>5 DEF StepTeam, RunTeam, Free
  <2>6. CASE e = d /\ (Loop(e) \/ Plan(e) \/ Finish(e) \/ Decide(e))
    <3>1. call[d].pc \in {"loop", "plan", "finish", "decide"} /\ task' = task
      BY <2>6 DEF Loop, Plan, Finish, Decide, At
    <3> QED BY <3>1 DEF Fit, Home
  <2> QED BY <1>3, <2>1, <2>2, <2>3, <2>4, <2>5, <2>6 DEF Advance
<1>4. ASSUME NEW e \in Drivers, StepTeam(e) \/ RunTeam(e) \/ Advance(e) PROVE \E k : Goto(e, k)
  BY <1>4 DEF StepTeam, RunTeam, Advance, Enter, Loop, Plan, Chunk, Fail, Halt, Finish, Decide
<1>5. ASSUME NEW e \in Drivers, NEW b \in Agents, StepAdvance(e, b)
      PROVE  call'[d].seq <= session'.round + 1
  <2>1. task[e][b] # "none" /\ \E place : Move(e, b, place)
    BY <1>5 DEF StepAdvance, Checked, Answer, Throw, Timeout, TimedOut, Progress, Candidate, Release, In
  <2>2. task[d][a] # "none"
    BY <1>1, <2>1 DEF Move
  <2>3. call' = call \/ \E pc \in {"fail", "chunk"} : Goto(e, [call[e] EXCEPT !.pc = pc]) \/ Goto(e, call[e])
    BY <1>5 DEF StepAdvance, Checked, Answer, Throw, Timeout, TimedOut, Progress, Candidate, Release, After
  <2>4. \A pc : [call[e] EXCEPT !.pc = pc].seq = call[e].seq
    BY <1>1 DEF Call
  <2>5. call'[d].seq = call[d].seq
    BY <1>1, <2>3, <2>4 DEF Goto
  <2> QED BY <1>2, <2>2, <2>5
<1>6. CASE Restart
  BY <1>6 DEF Restart
<1>7. CASE \/ Reserve \/ PauseTeam \/ CancelTeam \/ ResumeTeam \/ UNCHANGED vars
           \/ \E b \in Agents : OrphanEnds(b) \/ Retract(b)
  <2>1. call' = call /\ task' = task
    BY <1>7 DEF Reserve, PauseTeam, CancelTeam, ResumeTeam, OrphanEnds, Retract, vars, memory
  <2> QED BY <1>2, <2>1
<1> QED BY <1>3, <1>4, <1>5, <1>6, <1>7 DEF Next, Charge, ChargeOrphan

LEMMA NextRounds ==
  ASSUME ~Impatient, TypeOK, TypeOK', StepUnderLease, Order, Fit, Late, [Next]_vars
  PROVE  [Team!Next]_(Team!rvars)
<1> DEFINE out == {a \in Agents : agent[a] = "BLOCKED"}
           going == {a \in Agents : runs[a] = "LIVE"}
<1>1. /\ agent \in [Agents -> {"READY", "RUNNING", "BLOCKED"}] /\ runs \in [Agents -> RunStatus]
      /\ session.round \in Nat /\ asked' \in SUBSET {"pause", "cancel"}
  BY DEF TypeOK, Session
<1>2. ASSUME UNCHANGED <<progress, agent, runs, asked>>, session'.round = session.round
      PROVE  UNCHANGED Team!rvars
  BY <1>2 DEF Team!rvars
<1>3. ASSUME UNCHANGED <<progress, agent, runs>>, session'.round = session.round
      PROVE  Team!Next
  BY <1>1, <1>3 DEF Team!Next, Team!Ask
<1>4. ASSUME UNCHANGED <<progress, runs, asked>>, session'.round = session.round,
             \A a \in Agents : agent[a] = "BLOCKED" => agent'[a] = "BLOCKED"
      PROVE  Team!Next
  <2>1. out' \in SUBSET Agents /\ out \subseteq out' /\ going' = going
    BY <1>4
  <2> QED BY <1>4, <2>1 DEF Team!Next, Team!Block
<1>5. ASSUME UNCHANGED <<progress, agent, asked>>, session'.round = session.round,
             \A a \in Agents : runs'[a] = runs[a] \/ runs[a] = "LIVE" \/ agent[a] = "BLOCKED"
      PROVE  Team!Next
  <2>1. going' \in SUBSET Agents /\ going' \subseteq going \union out /\ out' = out
    BY <1>5
  <2> QED BY <1>5, <2>1 DEF Team!Next, Team!Change
<1>6. ASSUME NEW d \in Drivers, Finish(d) PROVE Team!Next
  <2>1. /\ UNCHANGED <<progress, agent, runs, asked>> /\ session'.round = session.round + 1
        /\ call[d].pc = "finish" /\ call[d].seq = session.round + 1
    BY <1>6 DEF Finish, At, Order, TypeOK, Session
  <2>2. asked # {} \/ \A a \in Agents : ~Can(session.round + 1, a)
    BY <2>1 DEF Fit, QueuedFor
  <2>3. asked # {} \/ Team!Left = {}
    BY <2>2 DEF Can, Team!Left
  <2> QED BY <2>1, <2>3 DEF Team!Next, Team!Close
<1>7. ASSUME NEW d \in Drivers, NEW a \in Agents, Progress(d, a) PROVE Team!Next
  <2>1. /\ task[d][a] = "answered" /\ UNCHANGED <<session, runs, asked>>
        /\ progress' = progress \union {<<call[d].seq, a>>}
        /\ \A b \in Agents \ {a} : agent'[b] = agent[b]
    BY <1>1, <1>7 DEF Progress, In
  <2>2. agent[a] # "BLOCKED" /\ <<call[d].seq, a>> \notin progress
    BY <2>1 DEF Fit, Sound
  <2>3. call[d].seq \in 1 .. session.round + 1 /\ (asked = {} => call[d].seq = session.round + 1)
    BY <1>1, <2>1 DEF Late, Fit, Strays, TypeOK, Call
  <2>4. out' \in {out, out \union {a}} /\ a \notin out
    BY <2>1, <2>2
  <2>5. Team!Contribute(a)
    BY <2>1, <2>2, <2>3, <2>4 DEF Team!Contribute
  <2> QED BY <2>5 DEF Team!Next
<1>8. ASSUME NEW d \in Drivers, StepTeam(d) \/ RunTeam(d) \/ Advance(d) PROVE [Team!Next]_(Team!rvars)
  <2>1. CASE Finish(d)
    BY <1>6, <2>1
  <2>2. CASE Plan(d)
    BY <1>4, <1>1, <2>2 DEF Plan
  <2>3. CASE ~Finish(d) /\ ~Plan(d)
    <3>1. UNCHANGED <<progress, agent, runs, asked>>
      BY <1>8, <2>3 DEF StepTeam, RunTeam, Advance, Loop, Chunk, Fail, Halt, Decide
    <3>2. session'.round = session.round
      <4>1. ASSUME NEW e \in Drivers, Finish(e) PROVE FALSE
        <5>1. call[e].pc = "finish" /\ e # d
          BY <4>1, <2>3 DEF Finish, At
        <5>2. call[d].pc = "idle"
          BY <5>1 DEF Order
        <5>3. Free(d)
          BY <1>8, <5>2 DEF StepTeam, RunTeam, Advance, Loop, Plan, Chunk, Fail, Halt, Finish, Decide, At
        <5> QED BY <5>1, <5>3 DEF Free, Attended
      <4> QED BY <4>1, RoundMoves
    <3> QED BY <1>2, <3>1, <3>2
  <2> QED BY <2>1, <2>2, <2>3
<1>9. ASSUME NEW d \in Drivers, NEW a \in Agents, StepAdvance(d, a) PROVE [Team!Next]_(Team!rvars)
  <2>1. CASE Checked(d, a) \/ Throw(d, a) \/ Candidate(d, a) \/ \E thrown \in BOOLEAN : Release(d, a, thrown)
    BY <1>2, <2>1 DEF Checked, Throw, Candidate, Release, store
  <2>2. CASE Answer(d, a) \/ Timeout(d, a)
    <3>1. /\ task[d][a] = "step" /\ UNCHANGED <<progress, agent, asked, session>>
          /\ \A b \in Agents \ {a} : runs'[b] = runs[b]
      BY <1>1, <2>2 DEF Answer, Timeout, In, Stepped
    <3>2. runs[a] = "LIVE"
      BY <3>1 DEF Fit, Sound, Moving, Can
    <3> QED BY <1>5, <3>1, <3>2
  <2>3. CASE TimedOut(d, a)
    BY <1>1, <1>4, <2>3 DEF TimedOut
  <2>4. CASE Progress(d, a)
    BY <1>7, <2>4
  <2> QED BY <1>9, <2>1, <2>2, <2>3, <2>4 DEF StepAdvance
<1>10. ASSUME NEW a \in Agents, OrphanEnds(a) PROVE Team!Next
  <2>1. /\ UNCHANGED <<progress, agent, asked, session>> /\ a \in orphans /\ Quiet
        /\ \A b \in Agents : b = a \/ runs'[b] = runs[b]
    BY <1>10 DEF OrphanEnds, Stepped, TypeOK
  <2>2. agent[a] = "BLOCKED"
    BY <2>1 DEF Fit, Sound, Quiet, TaskWriting
  <2> QED BY <1>5, <2>1, <2>2
<1>11. CASE PauseTeam \/ CancelTeam \/ ResumeTeam \/ Restart
  <2>1. UNCHANGED <<progress, agent, runs>>
    BY <1>11 DEF PauseTeam, CancelTeam, ResumeTeam, Restart
  <2>2. session'.round = session.round
    BY <1>11, SameRound DEF PauseTeam, CancelTeam, ResumeTeam, Restart, Suspended, Status, Final
  <2> QED BY <1>3, <2>1, <2>2
<1>12. CASE Reserve \/ UNCHANGED vars \/ \E a \in Agents : Retract(a)
  <2>1. UNCHANGED <<progress, agent, runs, asked>>
    BY <1>12 DEF Reserve, Retract, vars, store, memory
  <2>2. session'.round = session.round
    BY <1>12 DEF Reserve, Retract, vars, store, TypeOK, Session
  <2> QED BY <1>2, <2>1, <2>2
<1> QED BY <1>8, <1>9, <1>10, <1>11, <1>12 DEF Next, Charge, ChargeOrphan

\* Seen from the user, who waits for one call before the next, a session is one of TeamRounds: every
\* worker that is left contributes once to every round, unless the user cuts it short.
THEOREM ImplementsRounds == ~Impatient /\ Spec => ImplementsTeamRounds
<1>1. SUFFICES ASSUME ~Impatient PROVE Spec => ImplementsTeamRounds
  OBVIOUS
<1>2. Spec => [](TypeOK /\ StepUnderLease /\ Order /\ Fit)
  BY <1>1, Fitting, PTL
<1>3. Init => Late
  BY DEF Init, Late
<1>4. TypeOK /\ Order /\ Fit /\ Late /\ [Next]_vars => Late'
  BY <1>1, NextLate
<1>5. Init => Team!Init
  BY DEF Init, NewSession, Team!Init
<1>6. TypeOK /\ TypeOK' /\ StepUnderLease /\ Order /\ Fit /\ Late /\ [Next]_vars => [Team!Next]_(Team!rvars)
  BY <1>1, NextRounds
<1> QED BY <1>2, <1>3, <1>4, <1>5, <1>6, PTL DEF Spec, ImplementsTeamRounds, Team!Spec
=============================================================================
