----------------------- MODULE EventProjectionProofs -----------------------
(***************************************************************************)
(* Proofs about EventProjection, for any number of processes and any       *)
(* length of the history.  The types, and that the file is never ahead of  *)
(* the table, hold of every behaviour.  What the lock protects is proved   *)
(* for owner files that can be written, and for processes that do not end  *)
(* or are at most two: TLC shows that three can lose the lock when one of  *)
(* them is killed.                                                         *)
(***************************************************************************)
EXTENDS EventProjection, TLAPS

(***************************************************************************)
(* Every reachable state is well typed.  Each step is checked on its own;  *)
(* all of them move one process to a control point that exists.            *)
(***************************************************************************)
LEMMA TypeInit == Init => TypeOK
  BY ConstantsAssumption DEF Init, TypeOK, Operations, PCs

\* The steps on the lock leave the data alone and keep the types.
LEMMA SynchronizeType ==
  ASSUME TypeOK, NEW p \in Procs, Synchronize(p), UNCHANGED faults
  PROVE  TypeOK' /\ UNCHANGED data
<1> USE ConstantsAssumption DEF TypeOK, At, Goto, PCs, Trying, Section, Lock, NoLock, data
<1>1. CASE MakeLock(p)
  <2>1. lock' \in {lock, [owner |-> Missing, by |-> p]}
    BY <1>1 DEF MakeLock
  <2>2. \E next \in {"own", "read"} : pc' = [pc EXCEPT ![p] = next]
    BY <1>1 DEF MakeLock
  <2> QED BY <1>1, <2>1, <2>2 DEF MakeLock
<1>2. CASE WriteOwner(p)
  BY <1>2 DEF WriteOwner
<1>3. CASE ReadOwner(p)
  BY <1>3 DEF ReadOwner, Wait
<1>4. CASE Probe(p)
  BY <1>4 DEF Probe, Wait
<1>5. CASE BreakLock(p)
  BY <1>5 DEF BreakLock
<1>6. CASE Release(p)
  BY <1>6 DEF Release
<1> QED
  BY <1>1, <1>2, <1>3, <1>4, <1>5, <1>6 DEF Synchronize

\* The first n rows make a well typed file.
LEMMA CanonicalType ==
  ASSUME NEW n \in 0 .. MaxEvents
  PROVE  /\ Canonical(n) \in Seq(1 .. MaxEvents)
         /\ DOMAIN Canonical(n) = 1 .. n
         /\ \A i \in 1 .. n : Canonical(n)[i] = i
  BY ConstantsAssumption DEF Canonical

\* A file a row is appended to, unless there is no such row.
LEMMA AppendType ==
  ASSUME NEW file \in Seq(1 .. MaxEvents), NEW n \in 1 .. MaxEvents
  PROVE  /\ Append(file, n) \in Seq(1 .. MaxEvents)
         /\ DOMAIN Append(file, n) = 1 .. Len(file) + 1
         /\ \A i \in 1 .. Len(file) : Append(file, n)[i] = file[i]
         /\ Append(file, n)[Len(file) + 1] = n
  OBVIOUS

\* A row that is about to be appended has been committed, so it has a number.
Numbered == \A p \in Procs : pc[p] = "append" => known[p] # 0

LEMMA WorkType ==
  ASSUME TypeOK, Numbered, NEW p \in Procs, Work(p), UNCHANGED faults
  PROVE  TypeOK'
<1> USE ConstantsAssumption DEF TypeOK, At, Goto, PCs, Section, data
<1>1. CASE Commit(p)
  BY <1>1 DEF Commit
<1>2. CASE Rollback(p)
  BY <1>2 DEF Rollback
<1>3. CASE AppendLine(p)
  BY <1>3, AppendType DEF AppendLine, Numbered
<1>4. CASE AppendThrows(p)
  <2>1. known[p] \in 1 .. MaxEvents
    BY <1>4 DEF AppendThrows, Numbered
  <2>2. log \in Seq(1 .. MaxEvents) /\ Append(log, known[p]) \in Seq(1 .. MaxEvents)
    BY <2>1, AppendType
  <2>3. log' = log \/ log' = Append(log, known[p])
    BY <1>4 DEF AppendThrows
  <2>4. log' \in Seq(1 .. MaxEvents)
    BY <2>2, <2>3
  <2> QED BY <1>4, <2>4 DEF AppendThrows
<1>5. CASE Degrade(p)
  BY <1>5 DEF Degrade
<1>6. CASE List(p)
  BY <1>6 DEF List
<1>7. CASE Compare(p)
  BY <1>7 DEF Compare
<1>8. CASE Snapshot(p)
  BY <1>8 DEF Snapshot
<1>9. CASE Replace(p)
  BY <1>9, CanonicalType DEF Replace
<1>10. CASE ReplaceThrows(p)
  BY <1>10, CanonicalType DEF ReplaceThrows
<1>11. CASE RowsThrow(p)
  BY <1>11 DEF RowsThrow
<1> QED
  BY <1>1, <1>2, <1>3, <1>4, <1>5, <1>6, <1>7, <1>8, <1>9, <1>10, <1>11 DEF Work

\* Only Commit enters "append"; no other step changes the number of a process that is there.
LEMMA NumberedStep ==
  ASSUME TypeOK, Numbered, NEW p \in Procs, Work(p)
  PROVE  Numbered'
<1> USE ConstantsAssumption DEF TypeOK, At, Goto, data, Numbered
<1>1. CASE Commit(p)
  BY <1>1 DEF Commit
<1>2. CASE Rollback(p) \/ AppendLine(p) \/ AppendThrows(p) \/ Degrade(p) \/ Compare(p)
  BY <1>2 DEF Rollback, AppendLine, AppendThrows, Degrade, Compare
<1>3. CASE List(p) \/ Snapshot(p)
  BY <1>3 DEF List, Snapshot
<1>4. CASE Replace(p) \/ ReplaceThrows(p) \/ RowsThrow(p)
  BY <1>4 DEF Replace, ReplaceThrows, RowsThrow
<1> QED
  BY <1>1, <1>2, <1>3, <1>4 DEF Work

LEMMA NumberedSynchronize ==
  ASSUME TypeOK, Numbered, NEW p \in Procs, Synchronize(p)
  PROVE  Numbered'
<1> USE DEF TypeOK, At, Goto, data, Numbered
<1>1. CASE MakeLock(p) \/ WriteOwner(p)
  BY <1>1 DEF MakeLock, WriteOwner
<1>2. CASE ReadOwner(p) \/ Probe(p)
  BY <1>2 DEF ReadOwner, Probe, Wait
<1>3. CASE BreakLock(p) \/ Release(p)
  BY <1>3 DEF BreakLock, Release
<1> QED
  BY <1>1, <1>2, <1>3 DEF Synchronize

LEMMA EndType ==
  ASSUME TypeOK, Numbered, NEW p \in Procs, End(p)
  PROVE  TypeOK' /\ Numbered'
BY DEF End, TypeOK, Numbered, Goto, data, PCs, Lock, NoLock

LEMMA CallType ==
  ASSUME TypeOK, Numbered, NEW p \in Procs, NEW what \in Operations, Call(p, what)
  PROVE  TypeOK' /\ Numbered'
BY DEF Call, TypeOK, Numbered, At, Goto, data, PCs, Trying

\* The induction behind TypeCorrect.
THEOREM Typed == Spec => [](TypeOK /\ Numbered)
<1>1. Init => TypeOK /\ Numbered
  BY TypeInit DEF Init, Numbered
<1>2. TypeOK /\ Numbered /\ [Next]_vars => (TypeOK /\ Numbered)'
  <2> SUFFICES ASSUME TypeOK, Numbered, [Next]_vars PROVE TypeOK' /\ Numbered'
    OBVIOUS
  <2>1. ASSUME NEW p \in Procs, Synchronize(p), UNCHANGED faults PROVE TypeOK' /\ Numbered'
    BY <2>1, SynchronizeType, NumberedSynchronize
  <2>2. ASSUME NEW p \in Procs, Work(p), UNCHANGED faults PROVE TypeOK' /\ Numbered'
    BY <2>2, WorkType, NumberedStep
  <2>3. CASE UNCHANGED vars
    BY <2>3 DEF vars, TypeOK, Numbered
  <2> QED
    BY <2>1, <2>2, <2>3, EndType, CallType DEF Next, Step
<1> QED
  BY <1>1, <1>2, PTL DEF Spec

\* Every reachable state is well typed, whatever ends or fails: in particular the lines of the
\* file are rows of the table, and a lock names a process or nobody.
THEOREM TypeCorrect == Spec => []TypeOK
BY Typed, PTL

-----------------------------------------------------------------------------
\* A step changes nothing about the faults a behaviour may meet.
LEMMA FaultsKept == [Next]_vars => UNCHANGED faults
BY DEF Next, Step, End, Call, vars

\* What a process has listed or committed is there, and the lines of the file are.
Listed == NeverAhead /\ \A p \in Procs : known[p] <= committed

LEMMA ListedStep ==
  ASSUME TypeOK, TypeOK', Numbered, Listed, [Next]_vars
  PROVE  Listed'
<1> USE ConstantsAssumption
<1>1. /\ committed \in Nat /\ committed' \in Nat /\ known \in [Procs -> 0 .. MaxEvents]
      /\ log \in Seq(1 .. MaxEvents)
  BY DEF TypeOK
<1>2. ASSUME UNCHANGED <<log, committed>>,
             \A p \in Procs : known'[p] = known[p] \/ known'[p] = committed
      PROVE  Listed'
  BY <1>1, <1>2 DEF Listed, NeverAhead
<1>3. ASSUME NEW p \in Procs, Commit(p) PROVE Listed'
  BY <1>1, <1>3 DEF Commit, Listed, NeverAhead
<1>4. ASSUME NEW p \in Procs, Rollback(p) \/ Degrade(p) \/ Compare(p) \/ RowsThrow(p) PROVE Listed'
  BY <1>2, <1>4 DEF Rollback, Degrade, Compare, RowsThrow, data
<1>5. ASSUME NEW p \in Procs, List(p) \/ Snapshot(p) PROVE Listed'
  BY <1>1, <1>2, <1>5 DEF List, Snapshot, data
<1>6. ASSUME NEW p \in Procs, UNCHANGED <<committed, known>>,
             log' \in {log, Append(log, known[p])}, known[p] # 0
      PROVE  Listed'
  <2>1. CASE log' = log
    BY <1>2, <1>6, <2>1
  <2>2. CASE log' = Append(log, known[p])
    <3>1. known[p] \in 1 .. MaxEvents
      BY <1>1, <1>6
    <3>2. /\ DOMAIN log' = 1 .. Len(log) + 1 /\ DOMAIN log = 1 .. Len(log) /\ Len(log) \in Nat
          /\ \A i \in 1 .. Len(log) : log'[i] = log[i]
          /\ log'[Len(log) + 1] = known[p]
      BY <1>1, <2>2, <3>1, AppendType
    <3>3. \A i \in DOMAIN log' : log'[i] <= committed
      BY <3>2 DEF Listed, NeverAhead
    <3> QED BY <1>6, <3>3 DEF Listed, NeverAhead
  <2> QED BY <1>6, <2>1, <2>2
<1>7. ASSUME NEW p \in Procs, UNCHANGED <<committed, known>>, log' \in {log, Canonical(known[p])}
      PROVE  Listed'
  <2>1. known[p] <= committed /\ known[p] \in 0 .. MaxEvents
    BY <1>1 DEF Listed
  <2>2. \A i \in DOMAIN Canonical(known[p]) : Canonical(known[p])[i] <= committed
    BY <1>1, <2>1, CanonicalType
  <2> QED BY <1>7, <2>2 DEF Listed, NeverAhead
<1>8. ASSUME NEW p \in Procs, AppendLine(p) \/ AppendThrows(p) PROVE Listed'
  BY <1>6, <1>8 DEF AppendLine, AppendThrows, At, Numbered
<1>9. ASSUME NEW p \in Procs, Replace(p) \/ ReplaceThrows(p) PROVE Listed'
  BY <1>7, <1>9 DEF Replace, ReplaceThrows
<1>10. ASSUME NEW p \in Procs, Synchronize(p) \/ End(p) \/ \E what \in Operations : Call(p, what)
       PROVE  Listed'
  <2>1. UNCHANGED <<data, known>>
    BY <1>10 DEF Synchronize, MakeLock, WriteOwner, ReadOwner, Probe, BreakLock, Release, End, Call
  <2> QED BY <1>2, <2>1 DEF data
<1>11. CASE UNCHANGED vars
  BY <1>2, <1>11 DEF vars
<1> QED
  BY <1>3, <1>4, <1>5, <1>8, <1>9, <1>10, <1>11 DEF Next, Step, Work

\* The file never holds a line that is not a row of the table, whatever is killed, refused or
\* locked twice: every line was committed before it was listed, and listed before it was written.
THEOREM FileIsNeverAhead == Spec => []NeverAhead
<1>1. Init => Listed
  BY DEF Init, Listed, NeverAhead
<1>2. (TypeOK /\ Numbered) /\ (TypeOK /\ Numbered)' /\ Listed /\ [Next]_vars => Listed'
  BY ListedStep
<1>3. Listed => NeverAhead
  BY DEF Listed
<1> QED
  BY <1>1, <1>2, <1>3, Typed, PTL DEF Spec

-----------------------------------------------------------------------------
(***************************************************************************)
(* The lock is held from mkdir to rm by the process whose pid is in it, as *)
(* long as owner files can be written and either no process ends or there  *)
(* are at most two.  Then a process that takes the lock for abandoned is   *)
(* the only one left to do so.                                             *)
(***************************************************************************)
Pair == \A p, q, r \in Procs : p = q \/ q = r \/ p = r

Sheltered == "owner" \notin faults /\ ("end" \in faults => Pair)

\* The assumption on the constants under which every behaviour that can write owner files is
\* sheltered.
Protectable == Pair \/ \A f \in Scenarios : "end" \in f => "owner" \in f

LockHeld ==
  /\ \A p \in Procs : pc[p] = "dead" => "end" \in faults
  /\ \A p \in Procs : pc[p] = "break" => \A q \in Procs \ {p} : pc[q] = "dead"
  /\ \A p \in Procs : pc[p] = "probe" => seen[p] \in Procs
  /\ \A p \in Procs : pc[p] = "own" => lock = [owner |-> Missing, by |-> p]
  /\ \A p \in Procs : pc[p] \in Section => lock = [owner |-> p, by |-> p]
  /\ lock # NoLock => pc[lock.by] \in {"own", "dead"} \union Section

\* A process outside the section goes from one step of its wait to another.
LEMMA LockHeldWaiting ==
  ASSUME TypeOK, LockHeld, UNCHANGED <<lock, faults>>,
         NEW p \in Procs, pc[p] \notin {"own", "dead"} \union Section,
         NEW next \in {"idle", "try", "read", "probe", "break"}, Goto(p, next),
         next = "probe" => seen'[p] \in Procs,
         next = "break" => \A q \in Procs \ {p} : pc[q] = "dead",
         \A q \in Procs \ {p} : seen'[q] = seen[q]
  PROVE  LockHeld'
<1>1. \A q \in Procs : pc'[q] = IF q = p THEN next ELSE pc[q]
  BY DEF TypeOK, Goto
<1>2. next \notin {"dead", "own"} \union Section
  BY DEF Section
<1>3. lock # NoLock => lock.by \in Procs /\ lock.by # p
  BY DEF LockHeld, TypeOK, Lock, NoLock
<1>4. /\ \A q \in Procs : pc'[q] = "dead" => "end" \in faults'
      /\ \A q \in Procs : pc'[q] = "probe" => seen'[q] \in Procs
  BY <1>1, <1>2 DEF LockHeld
<1>5. ASSUME NEW q \in Procs, pc'[q] = "break" PROVE \A r \in Procs \ {q} : pc'[r] = "dead"
  <2>1. CASE q = p
    BY <1>1, <1>5, <2>1
  <2>2. CASE q # p
    <3>1. pc[p] = "dead"
      BY <1>1, <1>5, <2>2 DEF LockHeld
    <3> QED BY <3>1
  <2> QED BY <2>1, <2>2
<1>6. /\ \A q \in Procs : pc'[q] = "own" => lock' = [owner |-> Missing, by |-> q]
      /\ \A q \in Procs : pc'[q] \in Section => lock' = [owner |-> q, by |-> q]
  BY <1>1, <1>2 DEF LockHeld
<1>7. lock' # NoLock => pc'[lock'.by] \in {"own", "dead"} \union Section
  BY <1>1, <1>3 DEF LockHeld
<1> QED BY <1>4, <1>5, <1>6, <1>7 DEF LockHeld

\* While one process holds the lock, or nobody does, the others are outside.
LEMMA OthersOut ==
  ASSUME LockHeld, NEW p \in Procs, lock = NoLock \/ lock.by = p,
         NEW q \in Procs, q # p
  PROVE  pc[q] \notin {"own"} \union Section
<1> SUFFICES ASSUME pc[q] \in {"own"} \union Section PROVE FALSE
  OBVIOUS
<1>1. lock = [owner |-> Missing, by |-> q] \/ lock = [owner |-> q, by |-> q]
  BY DEF LockHeld
<1>2. lock.by = q /\ lock.owner \in {Missing, q}
  BY <1>1
<1>3. lock = NoLock
  BY <1>2
<1>4. lock.owner = "none" /\ lock.by = "none"
  BY <1>3 DEF NoLock
<1> QED BY <1>2, <1>4, ConstantsAssumption

\* A process that holds the lock, or takes it when it is free, moves on with its own name in it.
LEMMA LockHeldHolding ==
  ASSUME TypeOK, LockHeld, UNCHANGED <<seen, faults>>,
         NEW p \in Procs, lock = NoLock \/ lock.by = p, pc[p] # "dead",
         NEW next \in {"own"} \union Section, Goto(p, next),
         lock' = [owner |-> IF next = "own" THEN Missing ELSE p, by |-> p]
  PROVE  LockHeld'
<1>1. \A q \in Procs : pc'[q] = IF q = p THEN next ELSE pc[q]
  BY DEF TypeOK, Goto
<1>2. next \notin {"dead", "break", "probe"} /\ "own" \notin Section
  BY DEF Section
<1>3. /\ \A q \in Procs : pc'[q] = "dead" => "end" \in faults'
      /\ \A q \in Procs : pc'[q] # "break"
      /\ \A q \in Procs : pc'[q] = "probe" => seen'[q] \in Procs
  BY <1>1, <1>2 DEF LockHeld
<1>4. /\ \A q \in Procs : pc'[q] = "own" => lock' = [owner |-> Missing, by |-> q]
      /\ \A q \in Procs : pc'[q] \in Section => lock' = [owner |-> q, by |-> q]
  BY <1>1, <1>2, OthersOut
<1>5. pc'[lock'.by] \in {"own"} \union Section
  BY <1>1
<1> QED BY <1>3, <1>4, <1>5 DEF LockHeld

\* A process that finds another one dead is, in a pair, the only one left.
LEMMA LastOne ==
  ASSUME Sheltered, LockHeld, NEW p \in Procs, NEW q \in Procs, pc[q] = "dead", pc[p] # "dead"
  PROVE  \A r \in Procs \ {p} : pc[r] = "dead"
BY DEF Sheltered, Pair, LockHeld

LEMMA LockHeldSynchronize ==
  ASSUME Sheltered, TypeOK, LockHeld, NEW p \in Procs, Synchronize(p), UNCHANGED faults
  PROVE  LockHeld'
<1>1. CASE MakeLock(p)
  <2>1. CASE lock = NoLock
    <3>1. pc[p] = "try" /\ Goto(p, "own") /\ lock' = [owner |-> Missing, by |-> p] /\ UNCHANGED seen
      BY <1>1, <2>1 DEF MakeLock
    <3> QED BY <2>1, <3>1, LockHeldHolding
  <2>2. CASE lock # NoLock
    <3>1. pc[p] = "try" /\ Goto(p, "read") /\ UNCHANGED <<lock, seen>>
      BY <1>1, <2>2 DEF MakeLock
    <3> QED BY <3>1, LockHeldWaiting DEF Section
  <2> QED BY <2>1, <2>2
<1>2. CASE WriteOwner(p)
  <2>1. pc[p] = "own" /\ lock = [owner |-> Missing, by |-> p] /\ lock # NoLock
    <3>1. pc[p] = "own" /\ lock = [owner |-> Missing, by |-> p]
      BY <1>2 DEF WriteOwner, LockHeld
    <3> QED BY <3>1, ConstantsAssumption DEF NoLock
  <2>2. lock' = [owner |-> p, by |-> p] /\ Goto(p, "work") /\ UNCHANGED seen
    BY <1>2, <2>1 DEF WriteOwner, Sheltered
  <2> QED BY <2>1, <2>2, LockHeldHolding DEF Section
<1>3. CASE ReadOwner(p)
  <2>1. pc[p] = "read" /\ UNCHANGED lock
    BY <1>3 DEF ReadOwner
  <2>2. CASE lock # NoLock /\ lock.owner \in Procs
    <3>1. Goto(p, "probe") /\ seen' = [seen EXCEPT ![p] = lock.owner]
      BY <1>3, <2>2, ConstantsAssumption DEF ReadOwner
    <3>2. seen'[p] \in Procs /\ \A q \in Procs \ {p} : seen'[q] = seen[q]
      BY <2>2, <3>1 DEF TypeOK
    <3> QED BY <2>1, <3>1, <3>2, LockHeldWaiting DEF Section
  <2>3. CASE ~(lock # NoLock /\ lock.owner \in Procs)
    <3>1. /\ UNCHANGED seen
          /\ \/ Wait(p)
             \/ /\ Goto(p, "break")
                /\ lock # NoLock /\ lock.owner = Missing /\ pc[lock.by] # "own"
      BY <1>3, <2>3 DEF ReadOwner
    <3>2. CASE Wait(p)
      BY <2>1, <3>1, <3>2, LockHeldWaiting DEF Wait, Section
    <3>3. CASE Goto(p, "break") /\ lock # NoLock /\ lock.owner = Missing /\ pc[lock.by] # "own"
      <4>1. lock.by \in Procs
        BY <3>3 DEF TypeOK, Lock
      <4>2. pc[lock.by] \in Section => lock.owner = lock.by
        BY <4>1 DEF LockHeld
      <4>3. pc[lock.by] = "dead"
        BY <3>3, <4>1, <4>2, ConstantsAssumption DEF LockHeld
      <4>4. \A q \in Procs \ {p} : pc[q] = "dead"
        BY <2>1, <4>1, <4>3, LastOne
      <4> QED BY <2>1, <3>1, <3>3, <4>4, LockHeldWaiting DEF Section
    <3> QED BY <3>1, <3>2, <3>3
  <2> QED BY <2>2, <2>3
<1>4. CASE Probe(p)
  <2>1. pc[p] = "probe" /\ UNCHANGED <<lock, seen>> /\ seen[p] \in Procs
    BY <1>4 DEF Probe, LockHeld
  <2>2. CASE Wait(p)
    BY <2>1, <2>2, LockHeldWaiting DEF Wait, Section
  <2>3. CASE pc[seen[p]] = "dead" /\ Goto(p, "break")
    <3>1. \A q \in Procs \ {p} : pc[q] = "dead"
      BY <2>1, <2>3, LastOne
    <3> QED BY <2>1, <2>3, <3>1, LockHeldWaiting DEF Section
  <2> QED BY <1>4, <2>2, <2>3 DEF Probe
<1>5. CASE BreakLock(p)
  <2>1. pc[p] = "break" /\ \A q \in Procs \ {p} : pc[q] = "dead"
    BY <1>5 DEF BreakLock, At, LockHeld
  <2>2. lock' = NoLock /\ \A q \in Procs : pc'[q] = IF q = p THEN "try" ELSE "dead"
    BY <1>5, <2>1 DEF BreakLock, At, Goto, TypeOK
  <2>3. \A q \in Procs : pc'[q] = "dead" => pc[q] = "dead"
    BY <2>1, <2>2
  <2> QED BY <2>2, <2>3 DEF LockHeld, Section
<1>6. CASE Release(p)
  <2>1. lock = [owner |-> p, by |-> p] /\ lock' = NoLock /\ pc[p] = "release"
    BY <1>6 DEF Release, At, LockHeld, Section
  <2>2. \A q \in Procs : q # p => pc[q] \notin {"own", "break"} \union Section
    <3>1. lock.by = p
      BY <2>1
    <3>2. \A q \in Procs : q # p => pc[q] \notin {"own"} \union Section
      BY <3>1, OthersOut
    <3>3. \A q \in Procs : q # p => pc[q] # "break"
      BY <2>1 DEF LockHeld
    <3> QED BY <3>2, <3>3
  <2>3. UNCHANGED seen /\ \A q \in Procs : pc'[q] = IF q = p THEN "idle" ELSE pc[q]
    BY <1>6 DEF Release, At, Goto, TypeOK
  <2> QED BY <2>1, <2>2, <2>3 DEF LockHeld, Section
<1> QED
  BY <1>1, <1>2, <1>3, <1>4, <1>5, <1>6 DEF Synchronize

\* A process that ends leaves its lock behind, with or without a name in it.
LEMMA LockHeldEnd ==
  ASSUME TypeOK, LockHeld, NEW p \in Procs, End(p)
  PROVE  LockHeld'
<1>1. /\ "end" \in faults /\ UNCHANGED <<seen, faults>> /\ pc[p] # "dead"
      /\ \A q \in Procs : pc'[q] = IF q = p THEN "dead" ELSE pc[q]
      /\ lock' = lock \/ (pc[p] = "own" /\ lock # NoLock /\ lock' = [lock EXCEPT !.owner = Empty])
  BY DEF End, Goto, TypeOK
<1>2. /\ \A q \in Procs : pc'[q] = "dead" => "end" \in faults'
      /\ \A q \in Procs : pc'[q] = "probe" => seen'[q] \in Procs
      /\ \A q \in Procs : pc'[q] # "break"
  BY <1>1 DEF LockHeld
<1>3. CASE lock' = lock
  <2>1. /\ \A q \in Procs : pc'[q] = "own" => lock' = [owner |-> Missing, by |-> q]
        /\ \A q \in Procs : pc'[q] \in Section => lock' = [owner |-> q, by |-> q]
    BY <1>1, <1>3 DEF LockHeld, Section
  <2>2. lock' # NoLock => pc'[lock'.by] \in {"own", "dead"} \union Section
    BY <1>1, <1>3 DEF LockHeld, TypeOK, Lock
  <2> QED BY <1>2, <2>1, <2>2 DEF LockHeld
<1>4. CASE pc[p] = "own" /\ lock' = [lock EXCEPT !.owner = Empty]
  <2>1. lock = [owner |-> Missing, by |-> p]
    BY <1>4 DEF LockHeld
  <2>2. lock.by = p /\ lock'.by = p
    BY <1>4, <2>1
  <2>3. \A q \in Procs : pc'[q] \notin {"own"} \union Section
    BY <1>1, <2>2, OthersOut DEF Section
  <2> QED BY <1>1, <1>2, <2>2, <2>3 DEF LockHeld
<1> QED BY <1>1, <1>3, <1>4

\* The work is done inside the section and leaves the lock alone.
LEMMA WorkInside ==
  ASSUME NEW p \in Procs, Work(p)
  PROVE  /\ pc[p] \in Section
         /\ \E next \in Section : Goto(p, next)
         /\ UNCHANGED <<lock, seen>>
BY DEF Work, Commit, Rollback, AppendLine, AppendThrows, Degrade, List, Compare, Snapshot,
       Replace, ReplaceThrows, RowsThrow, At, Section, data

LEMMA LockHeldWork ==
  ASSUME TypeOK, LockHeld, NEW p \in Procs, Work(p), UNCHANGED faults
  PROVE  LockHeld'
<1>1. PICK next \in Section : Goto(p, next)
  BY WorkInside
<1>2. pc[p] \in Section /\ UNCHANGED <<lock, seen>>
  BY WorkInside
<1> QED
  BY <1>1, <1>2 DEF LockHeld, TypeOK, Goto, Section, Lock, NoLock

\* The process in the section is the one whose pid is in the lock, so it is alone.
LEMMA Alone ==
  ASSUME LockHeld, NEW p \in Procs, NEW q \in Procs, pc[p] \in Section, pc[q] \in Section
  PROVE  p = q
<1>1. lock = [owner |-> p, by |-> p] /\ lock = [owner |-> q, by |-> q]
  BY DEF LockHeld
<1> QED BY <1>1

-----------------------------------------------------------------------------
(***************************************************************************)
(* What the section protects.  The process inside knows the history as it  *)
(* is, and a healthy file that lacks rows is one it is still working on.   *)
(***************************************************************************)
Known ==
  \A p \in Procs : pc[p] \in {"append", "replace", "compare"} => known[p] = committed

NotAppended ==
  \A p \in Procs : pc[p] = "append" => \A i \in DOMAIN log : log[i] < known[p]

GapAttended ==
  \/ log = Canonical(committed)
  \/ health = "DEGRADED"
  \/ \E p \in Procs : pc[p] \in {"append", "degrade", "list", "compare"}

Ordered == NeverAhead /\ InOrder

Protected == TypeOK /\ Numbered /\ LockHeld /\ Known /\ NotAppended /\ Ordered

\* A step outside the section does not touch what the section protects.
LEMMA OutsideProtected ==
  ASSUME Protected, NEW p \in Procs, UNCHANGED <<data, known>>, NEW next \in PCs,
         Goto(p, next), next \notin {"append", "replace", "compare"}
  PROVE  Known' /\ NotAppended' /\ Ordered'
<1>1. \A q \in Procs : pc'[q] = IF q = p THEN next ELSE pc[q]
  BY DEF Protected, TypeOK, Goto
<1>2. UNCHANGED <<committed, log, health, known>>
  BY DEF data
<1> QED BY <1>1, <1>2 DEF Protected, Known, NotAppended, Ordered, NeverAhead, InOrder

LEMMA SynchronizeOutside ==
  ASSUME NEW p \in Procs, Synchronize(p)
  PROVE  /\ UNCHANGED <<data, known, op>>
         /\ \E next \in PCs \ {"append", "degrade", "replace", "list", "compare"} : Goto(p, next)
         /\ pc[p] \notin {"append", "degrade", "replace", "list", "compare"}
BY DEF Synchronize, MakeLock, WriteOwner, ReadOwner, Probe, BreakLock, Release, Wait, At, PCs,
       Trying, Section, data

\* While one process works, the claims about what the others know are void.
LEMMA OthersOutside ==
  ASSUME Protected, NEW p \in Procs, Work(p), NEW q \in Procs, q # p
  PROVE  pc'[q] = pc[q] /\ pc[q] \notin Section
<1>1. pc[p] \in Section /\ \E next \in Section : Goto(p, next)
  BY WorkInside
<1>2. pc[q] \notin Section
  BY <1>1, Alone DEF Protected
<1> QED BY <1>1, <1>2 DEF Protected, TypeOK, Goto

\* A file whose lines are rows in order is still one after a new row is appended.
LEMMA AppendOrdered ==
  ASSUME TypeOK, Ordered, NEW n \in 1 .. MaxEvents, n = committed,
         \A i \in DOMAIN log : log[i] < n,
         log' = Append(log, n), UNCHANGED committed
  PROVE  Ordered'
<1> DEFINE len == Len(log)
<1>1. log \in Seq(1 .. MaxEvents) /\ len \in Nat /\ DOMAIN log = 1 .. len
  BY DEF TypeOK
<1>2. /\ DOMAIN log' = 1 .. len + 1
      /\ \A i \in 1 .. len : log'[i] = log[i]
      /\ log'[len + 1] = n
  BY <1>1, AppendType
<1>3. \A i \in DOMAIN log' : log'[i] <= committed'
  BY <1>1, <1>2 DEF Ordered, NeverAhead, InOrder
<1>4. ASSUME NEW i \in DOMAIN log', NEW j \in DOMAIN log', i < j PROVE log'[i] < log'[j]
  <2>1. i \in 1 .. len
    BY <1>1, <1>2, <1>4
  <2>2. CASE j = len + 1
    BY <1>1, <1>2, <2>1, <2>2
  <2>3. CASE j # len + 1
    BY <1>1, <1>2, <1>4, <2>1, <2>3 DEF Ordered, NeverAhead, InOrder
  <2> QED BY <2>2, <2>3
<1> QED BY <1>3, <1>4 DEF Ordered, NeverAhead, InOrder

LEMMA CanonicalOrdered ==
  ASSUME TypeOK, log' = Canonical(committed), UNCHANGED committed
  PROVE  Ordered'
<1>1. /\ DOMAIN log' = 1 .. committed
      /\ \A i \in 1 .. committed : log'[i] = i
  BY CanonicalType DEF TypeOK
<1> QED BY <1>1, ConstantsAssumption DEF TypeOK, Ordered, NeverAhead, InOrder

LEMMA WorkProtected ==
  ASSUME Protected, NEW p \in Procs, Work(p)
  PROVE  Known' /\ NotAppended' /\ Ordered'
<1> DEFINE own == /\ pc'[p] \in {"append", "replace", "compare"} => known'[p] = committed'
                  /\ pc'[p] = "append" => \A i \in DOMAIN log' : log'[i] < known'[p]
<1>1. SUFFICES own /\ Ordered'
  BY OthersOutside DEF Known, NotAppended, Section
<1>2. /\ committed \in 0 .. MaxEvents /\ MaxEvents \in Nat /\ log \in Seq(1 .. MaxEvents)
      /\ known \in [Procs -> 0 .. MaxEvents] /\ pc \in [Procs -> PCs]
      /\ \A i \in DOMAIN log : log[i] \in 1 .. MaxEvents
  BY ConstantsAssumption DEF Protected, TypeOK
<1>3. CASE Commit(p)
  <2>1. /\ pc'[p] = "append" /\ known'[p] = committed + 1
        /\ committed' = committed + 1 /\ UNCHANGED log
    BY <1>2, <1>3 DEF Commit, At, Goto
  <2> QED BY <1>2, <2>1 DEF Protected, Ordered, NeverAhead, InOrder
<1>4. CASE Rollback(p) \/ Degrade(p) \/ Compare(p) \/ RowsThrow(p)
  <2>1. pc'[p] = "release" /\ UNCHANGED <<committed, log, known>>
    BY <1>2, <1>4 DEF Rollback, Degrade, Compare, RowsThrow, At, Goto, data
  <2> QED BY <2>1 DEF Protected, Ordered, NeverAhead, InOrder
<1>5. CASE AppendLine(p) \/ AppendThrows(p)
  <2>1. pc'[p] \in {"list", "degrade"} /\ log' \in {log, Append(log, known[p])} /\ UNCHANGED committed
    BY <1>2, <1>5 DEF AppendLine, AppendThrows, At, Goto
  <2>2. known[p] = committed /\ known[p] \in 1 .. MaxEvents /\ \A i \in DOMAIN log : log[i] < known[p]
    BY <1>2, <1>5 DEF AppendLine, AppendThrows, At, Protected, Known, NotAppended, Numbered
  <2>3. CASE log' = log
    BY <2>1, <2>3 DEF Protected, Ordered, NeverAhead, InOrder
  <2>4. CASE log' = Append(log, known[p])
    BY <2>1, <2>2, <2>4, AppendOrdered DEF Protected
  <2> QED BY <2>1, <2>3, <2>4
<1>6. CASE List(p) \/ Snapshot(p)
  <2>1. /\ pc'[p] \in {"compare", "replace"} /\ known'[p] = committed
        /\ UNCHANGED <<committed, log>>
    BY <1>2, <1>6 DEF List, Snapshot, At, Goto, data
  <2> QED BY <2>1 DEF Protected, Ordered, NeverAhead, InOrder
<1>7. CASE Replace(p) \/ ReplaceThrows(p)
  <2>1. pc'[p] \in {"list", "release"} /\ log' \in {log, Canonical(known[p])} /\ UNCHANGED committed
    BY <1>2, <1>7 DEF Replace, ReplaceThrows, At, Goto
  <2>2. known[p] = committed
    BY <1>7 DEF Replace, ReplaceThrows, At, Protected, Known
  <2>3. CASE log' = log
    BY <2>1, <2>3 DEF Protected, Ordered, NeverAhead, InOrder
  <2>4. CASE log' = Canonical(known[p])
    BY <2>1, <2>2, <2>4, CanonicalOrdered DEF Protected
  <2> QED BY <2>1, <2>3, <2>4
<1> QED
  BY <1>3, <1>4, <1>5, <1>6, <1>7 DEF Work

\* The induction step for all the parts at once.
LEMMA ProtectedStep ==
  ASSUME Sheltered, Protected, [Next]_vars
  PROVE  Protected'
<1>1. ASSUME NEW p \in Procs, Synchronize(p), UNCHANGED faults PROVE Protected'
  <2>1. TypeOK' /\ Numbered' /\ LockHeld'
    BY <1>1, SynchronizeType, NumberedSynchronize, LockHeldSynchronize DEF Protected
  <2>2. Known' /\ NotAppended' /\ Ordered'
    BY <1>1, SynchronizeOutside, OutsideProtected
  <2> QED BY <2>1, <2>2 DEF Protected
<1>2. ASSUME NEW p \in Procs, Work(p), UNCHANGED faults PROVE Protected'
  <2>1. TypeOK' /\ Numbered' /\ LockHeld'
    BY <1>2, WorkType, NumberedStep, LockHeldWork DEF Protected
  <2> QED BY <1>2, <2>1, WorkProtected DEF Protected
<1>3. ASSUME NEW p \in Procs, NEW what \in Operations, Call(p, what) PROVE Protected'
  <2>1. TypeOK' /\ Numbered'
    BY <1>3, CallType DEF Protected
  <2>2. pc[p] = "idle" /\ Goto(p, "try") /\ UNCHANGED <<data, lock, seen, known, faults>>
    BY <1>3 DEF Call, At
  <2>3. LockHeld'
    BY <2>2, LockHeldWaiting DEF Protected, Section
  <2>4. Known' /\ NotAppended' /\ Ordered'
    BY <2>2, OutsideProtected DEF PCs, Trying
  <2> QED BY <2>1, <2>3, <2>4 DEF Protected
<1>4. ASSUME NEW p \in Procs, End(p) PROVE Protected'
  <2>1. TypeOK' /\ Numbered' /\ LockHeld'
    BY <1>4, EndType, LockHeldEnd DEF Protected
  <2>2. Known' /\ NotAppended' /\ Ordered'
    BY <1>4, OutsideProtected DEF End, PCs
  <2> QED BY <2>1, <2>2 DEF Protected
<1>5. CASE UNCHANGED vars
  BY <1>5 DEF vars, Protected, TypeOK, Numbered, LockHeld, Known, NotAppended, Ordered, NeverAhead, InOrder
<1> QED
  BY <1>1, <1>2, <1>3, <1>4, <1>5 DEF Next, Step

LEMMA ProtectedInit == Init => Protected
<1> SUFFICES ASSUME Init PROVE Protected
  OBVIOUS
<1>1. TypeOK /\ Numbered
  BY TypeInit DEF Init, Numbered
<1>2. LockHeld /\ Known /\ NotAppended /\ Ordered
  BY DEF Init, LockHeld, Known, NotAppended, Ordered, NeverAhead, InOrder, Section
<1> QED BY <1>1, <1>2 DEF Protected

\* In a sheltered behaviour the section protects what it should, from the first step on.
THEOREM Protection == Spec => [](Sheltered => Protected)
<1>1. [Next]_vars => (Sheltered' => Sheltered)
  BY FaultsKept DEF Sheltered
<1>2. (Sheltered => Protected) /\ [Next]_vars => (Sheltered => Protected)'
  BY <1>1, ProtectedStep
<1> QED
  BY <1>2, ProtectedInit, PTL DEF Spec

LEMMA ProtectableMeans ==
  ASSUME Protectable, TypeOK, "owner" \notin faults
  PROVE  Sheltered
BY DEF Protectable, TypeOK, Sheltered

\* "Caller must hold synchronize()": processes commit, append and rebuild one at a time, any
\* number of them if none is killed, and two even if they are.
THEOREM SectionIsExclusive ==
  ASSUME Protectable
  PROVE  Spec => []SectionExclusive
<1>1. TypeOK /\ (Sheltered => Protected) => SectionExclusive
  BY Alone, ProtectableMeans DEF Protected, SectionExclusive
<1> QED
  BY <1>1, TypeCorrect, Protection, PTL

\* The file never holds a line that is not a row, nor, while the section is exclusive, lines out
\* of order.
THEOREM FileOnlyBehind ==
  ASSUME Protectable
  PROVE  Spec => []OnlyBehind
<1>1. TypeOK /\ (Sheltered => Protected) /\ NeverAhead => OnlyBehind
  BY ProtectableMeans DEF Protected, OnlyBehind, Ordered
<1> QED
  BY <1>1, TypeCorrect, Protection, FileIsNeverAhead, PTL

\* What a step inside the section does to table, file and health: one operation on a history that
\* nobody else is working on.
LEMMA WorkIsOperation ==
  ASSUME Protected, NEW p \in Procs, Work(p)
  PROVE  History!Next \/ UNCHANGED data
<1> USE DEF History!Next, data
<1>1. CASE Commit(p)
  BY <1>1 DEF Commit, History!Record
<1>2. CASE Rollback(p) \/ List(p) \/ Snapshot(p) \/ RowsThrow(p)
  BY <1>2 DEF Rollback, List, Snapshot, RowsThrow
<1>3. CASE AppendLine(p) \/ AppendThrows(p)
  <2>1. pc[p] = "append" /\ log' \in {log, Append(log, known[p])} /\ UNCHANGED <<committed, health>>
    BY <1>3 DEF AppendLine, AppendThrows, At
  <2>2. known[p] = committed /\ \A i \in DOMAIN log : log[i] < committed
    BY <2>1 DEF Protected, Known, NotAppended
  <2> QED BY <2>1, <2>2 DEF History!Project
<1>4. CASE Degrade(p)
  BY <1>4 DEF Degrade, History!Suspect
<1>5. CASE Compare(p)
  <2>1. known[p] = committed
    BY <1>5 DEF Compare, At, Protected, Known
  <2> QED BY <1>5, <2>1 DEF Compare, Canonical, History!Judge, History!Whole
<1>6. CASE Replace(p) \/ ReplaceThrows(p)
  <2>1. pc[p] = "replace" /\ log' \in {log, Canonical(known[p])} /\ UNCHANGED <<committed, health>>
    BY <1>6 DEF Replace, ReplaceThrows, At
  <2>2. known[p] = committed
    BY <2>1 DEF Protected, Known
  <2> QED BY <2>1, <2>2 DEF Canonical, History!Rebuild, History!Whole
<1> QED
  BY <1>1, <1>2, <1>3, <1>4, <1>5, <1>6 DEF Work

LEMMA StepIsOperation ==
  ASSUME Protected, [Next]_vars
  PROVE  History!Next \/ UNCHANGED data
<1>1. ASSUME NEW p \in Procs, Synchronize(p) \/ End(p) \/ \E what \in Operations : Call(p, what)
      PROVE  UNCHANGED data
  BY <1>1, SynchronizeOutside DEF End, Call
<1>2. CASE UNCHANGED vars
  BY <1>2 DEF vars, data
<1> QED
  BY <1>1, <1>2, WorkIsOperation DEF Next, Step

\* Every behaviour of the processes, seen in the table, the file and the health row, is one of
\* DurableHistory: no operation works on what another one has outdated.
THEOREM ImplementsHistory ==
  ASSUME Protectable
  PROVE  Spec => ImplementsDurableHistory
<1>1. Init => History!Init
  BY DEF Init, History!Init
<1>2. TypeOK /\ (Sheltered => Protected) /\ [Next]_vars => [ "owner" \notin faults => History!Next ]_data
  BY ProtectableMeans, StepIsOperation
<1> QED
  BY <1>1, <1>2, TypeCorrect, Protection, PTL DEF Spec, ImplementsDurableHistory

\* The rename of a rebuild installs the whole history: none of the rows it lists is outdated.
THEOREM RebuildIsComplete ==
  ASSUME Protectable
  PROVE  Spec => RebuildHeals
<1>1. TypeOK /\ (Sheltered => Protected) /\ [Next]_vars
        => [\A p \in Procs : pc[p] = "replace" /\ pc'[p] = "list" /\ "owner" \notin faults
              => log' = Canonical(committed')]_vars
  <2> SUFFICES ASSUME Protected, [Next]_vars, NEW p \in Procs, pc[p] = "replace", pc'[p] = "list"
               PROVE  log' = Canonical(committed')
    BY ProtectableMeans
  <2>1. Replace(p) => log' = Canonical(committed')
    BY DEF Replace, Protected, Known
  <2>2. Step(p) => Replace(p)
    <3>1. Synchronize(p) => FALSE
      BY SynchronizeOutside
    <3>2. Work(p) => Replace(p)
      BY DEF Work, Commit, Rollback, AppendLine, AppendThrows, Degrade, List, Compare, Snapshot,
             ReplaceThrows, RowsThrow, At, Goto, Protected, TypeOK
    <3> QED BY <3>1, <3>2 DEF Step
  <2>3. ASSUME NEW q \in Procs, q # p, NEW next, Goto(q, next) PROVE FALSE
    BY <2>3 DEF Goto, Protected, TypeOK
  <2>4. ASSUME NEW q \in Procs, Step(q) PROVE q = p
    BY <2>3, <2>4, SynchronizeOutside, WorkInside DEF Step
  <2>5. \A q \in Procs : ~End(q) /\ \A what \in Operations : ~Call(q, what)
    BY <2>3 DEF End, Call, At, Goto, Protected, TypeOK
  <2>6. ~UNCHANGED vars
    BY DEF vars
  <2> QED BY <2>1, <2>2, <2>4, <2>5, <2>6 DEF Next
<1> QED
  BY <1>1, TypeCorrect, Protection, PTL DEF Spec, RebuildHeals

\* A gap an append left behind is not declared closed by a later append that succeeds: health
\* recovers only after a comparison with the whole history.
THEOREM GapIsNotHidden ==
  ASSUME Protectable
  PROVE  Spec => GapNotHidden
<1>1. TypeOK /\ (Sheltered => Protected) /\ [Next]_vars
        => [health = "DEGRADED" /\ health' = "HEALTHY" /\ "owner" \notin faults
              => log' = Canonical(committed')]_vars
  <2> SUFFICES ASSUME Protected, [Next]_vars, health = "DEGRADED", health' = "HEALTHY"
               PROVE  log' = Canonical(committed')
    BY ProtectableMeans
  <2>1. health # health'
    BY Zenon
  <2>2. History!Judge
    BY <2>1, StepIsOperation
       DEF History!Next, History!Record, History!Project, History!Rebuild, History!Suspect, data
  <2> QED BY <2>1, <2>2 DEF History!Judge, History!Whole, Canonical
<1> QED
  BY <1>1, TypeCorrect, Protection, PTL DEF Spec, GapNotHidden

-----------------------------------------------------------------------------
(***************************************************************************)
(* A gap is on record once the section that made it is over, provided that *)
(* no process ends and the health row can be written.                      *)
(***************************************************************************)
LEMMA GapAttendedStep ==
  ASSUME faults \subseteq {"file"}, Protected, GapAttended, [Next]_vars
  PROVE  GapAttended'
<1>1. ASSUME NEW p \in Procs, UNCHANGED data, NEW next, Goto(p, next),
             pc[p] \notin {"append", "degrade", "list", "compare"}
      PROVE  GapAttended'
  BY <1>1 DEF GapAttended, Protected, TypeOK, Goto, data
<1>2. ASSUME NEW p \in Procs, Synchronize(p) PROVE GapAttended'
  BY <1>1, <1>2, SynchronizeOutside DEF data
<1>3. ASSUME NEW p \in Procs, Work(p) PROVE GapAttended'
  <2>1. pc \in [Procs -> PCs]
    BY DEF Protected, TypeOK
  <2>2. CASE Commit(p) \/ AppendLine(p) \/ AppendThrows(p) \/ List(p) \/ Replace(p)
    <3>1. pc'[p] \in {"append", "degrade", "list", "compare"}
      BY <2>1, <2>2 DEF Commit, AppendLine, AppendThrows, List, Replace, At, Goto
    <3> QED BY <3>1 DEF GapAttended
  <2>3. CASE Rollback(p) \/ Snapshot(p)
    <3>1. /\ pc[p] = "work" /\ UNCHANGED data
          /\ \E next : Goto(p, next)
      BY <2>3 DEF Rollback, Snapshot, At
    <3> QED BY <1>1, <3>1
  <2>4. CASE Degrade(p)
    BY <2>4 DEF Degrade, GapAttended
  <2>5. CASE Compare(p)
    BY <2>5 DEF Compare, At, Protected, Known, GapAttended
  <2>6. CASE ReplaceThrows(p)
    <3>1. pc[p] = "replace" /\ pc[p] \in Section /\ known[p] = committed /\ Goto(p, "release")
      BY <2>6 DEF ReplaceThrows, At, Section, Protected, Known
    <3>2. log = Canonical(committed) \/ health = "DEGRADED"
      BY <3>1, Alone DEF Protected, GapAttended, Section
    <3>3. log' \in {log, Canonical(committed)} /\ UNCHANGED <<committed, health>>
      BY <2>6, <3>1 DEF ReplaceThrows
    <3> QED BY <3>2, <3>3 DEF GapAttended
  <2>7. ~RowsThrow(p)
    BY DEF RowsThrow
  <2> QED BY <1>3, <2>2, <2>3, <2>4, <2>5, <2>6, <2>7 DEF Work
<1>4. ASSUME NEW p \in Procs, NEW what \in Operations, Call(p, what) PROVE GapAttended'
  BY <1>1, <1>4 DEF Call, At
<1>5. CASE UNCHANGED vars
  BY <1>5 DEF vars, GapAttended
<1>6. \A p \in Procs : ~End(p)
  BY DEF End
<1> QED
  BY <1>2, <1>3, <1>4, <1>5, <1>6 DEF Next, Step

\* An append that failed leaves its mutation committed but not unnoticed: while nobody holds
\* the lock, a file that is not the whole history is recorded as degraded.
THEOREM GapIsReported == Spec => []GapReported
<1> DEFINE Kept == faults \subseteq {"file"} => GapAttended
<1>1. Init => Kept
  <2>1. ASSUME Init PROVE log = Canonical(committed)
    BY <2>1 DEF Init, Canonical
  <2> QED BY <2>1 DEF GapAttended
<1>2. faults \subseteq {"file"} => Sheltered
  BY DEF Sheltered
<1>3. (Sheltered => Protected) /\ Kept /\ [Next]_vars => Kept'
  BY <1>2, FaultsKept, GapAttendedStep
<1>4. (Sheltered => Protected) /\ Kept => GapReported
  <2> SUFFICES ASSUME LockHeld, GapAttended, lock = NoLock, log # Canonical(committed)
               PROVE  health = "DEGRADED"
    BY <1>2 DEF Protected, GapReported
  <2>1. ASSUME NEW p \in Procs, pc[p] \in Section PROVE FALSE
    <3>1. lock = [owner |-> p, by |-> p]
      BY <2>1 DEF LockHeld
    <3>2. lock.by = p /\ lock.by = "none"
      BY <3>1 DEF NoLock
    <3> QED BY <3>2, ConstantsAssumption
  <2> QED BY <2>1 DEF GapAttended, Section
<1> HIDE DEF Kept
<1> QED
  BY <1>1, <1>3, <1>4, Protection, PTL DEF Spec
=============================================================================
