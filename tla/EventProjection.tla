--------------------------- MODULE EventProjection ---------------------------
(***************************************************************************)
(* The event history of a workspace: SQLite rows are canonical, the file   *)
(* events.jsonl is their projection, and a row of event_projection_health  *)
(* says whether the two agree.  Every process that opens the workspace     *)
(* commits, projects, inspects and rebuilds under one lock, the directory  *)
(* events.jsonl.lock, which it takes with mkdir and whose file `owner'     *)
(* holds its pid.                                                          *)
(*                                                                         *)
(* An event is its projection_order, so the canonical history is           *)
(* 1 .. committed.  An action is what happens between two steps another    *)
(* process can see: a system call on the lock or the file, a transaction.  *)
(***************************************************************************)
EXTENDS Integers, Sequences

CONSTANTS
  Procs,       \* operating system processes, each with a pid of its own
  Missing,     \* the lock directory has no owner file
  Empty,       \* the owner file is there but holds no pid
  MaxEvents,   \* bound on the history
  Scenarios    \* sets of faults, one of which a behaviour may meet

(***************************************************************************)
(* "end": processes exit, or are killed at any point; "owner": writing the *)
(* owner file may fail; "file": writing events.jsonl may fail; "rows":     *)
(* listing the rows or writing the health row may fail.                    *)
(***************************************************************************)
Faults == {"end", "owner", "file", "rows"}

ASSUME ConstantsAssumption ==
  /\ {Missing, Empty, "none"} \intersect Procs = {} /\ Missing # Empty
  /\ MaxEvents \in Nat
  /\ Scenarios \subseteq SUBSET Faults

NoLock == [owner |-> "none", by |-> "none"]
Lock == [owner : Procs \union {Missing, Empty}, by : Procs]  \* `by' is history: who made the directory

Operations == {"mutate", "inspect", "rebuild"}
\* Inside the synchronized section.
Section == {"work", "append", "degrade", "replace", "list", "compare", "release"}
Trying == {"try", "read", "probe", "break"}
PCs == {"idle", "own", "dead"} \union Trying \union Section

VARIABLES
  committed,  \* number of rows in the events table
  log,        \* events.jsonl, as the projection_order of its lines
  health,     \* event_projection_health.status
  lock,       \* the lock directory
  pc,         \* where each process is
  op,         \* what it was asked to do
  seen,       \* the owner it read
  known,      \* how many rows it has listed, or the event it has committed
  faults      \* the faults this behaviour may meet; it never changes

vars == <<committed, log, health, lock, pc, op, seen, known, faults>>
data == <<committed, log, health>>

TypeOK ==
  /\ committed \in 0 .. MaxEvents
  /\ log \in Seq(1 .. MaxEvents)
  /\ health \in {"HEALTHY", "DEGRADED"}
  /\ lock \in Lock \union {NoLock}
  /\ pc \in [Procs -> PCs]
  /\ op \in [Procs -> Operations]
  /\ seen \in [Procs -> Procs \union {Missing}]
  /\ known \in [Procs -> 0 .. MaxEvents]
  /\ faults \in Scenarios

Init ==
  /\ committed = 0 /\ log = <<>> /\ health = "HEALTHY"
  /\ lock = NoLock
  /\ pc = [p \in Procs |-> "idle"]
  /\ op = [p \in Procs |-> "inspect"]
  /\ seen = [p \in Procs |-> Missing]
  /\ known = [p \in Procs |-> 0]
  /\ faults \in Scenarios

\* What events.jsonl should hold for the first n rows.
Canonical(n) == [i \in 1 .. n |-> i]

Goto(p, next) == pc' = [pc EXCEPT ![p] = next]
At(p, here, next) == pc[p] = here /\ Goto(p, next)

-----------------------------------------------------------------------------
(* EventLog.synchronize *)

Call(p, what) ==
  /\ At(p, "idle", "try")
  /\ op' = [op EXCEPT ![p] = what]
  /\ UNCHANGED <<data, lock, seen, known, faults>>

\* mkdir succeeds, or finds the directory.
MakeLock(p) ==
  /\ pc[p] = "try"
  /\ IF lock = NoLock
     THEN lock' = [owner |-> Missing, by |-> p] /\ Goto(p, "own")
     ELSE UNCHANGED lock /\ Goto(p, "read")
  /\ UNCHANGED <<data, op, seen, known>>

\* Mutant: the section is entered without the owner file.
WriteNoOwner(p) ==
  /\ At(p, "own", "work")
  /\ UNCHANGED <<data, lock, op, seen, known>>

\* The pid goes into whatever directory is there now.  With none, or when the write fails, the
\* catch branch goes on as if another process held the lock.
WriteOwner(p) ==
  /\ pc[p] = "own"
  /\ \/ lock # NoLock /\ lock' = [lock EXCEPT !.owner = p] /\ Goto(p, "work")
     \/ lock = NoLock /\ UNCHANGED lock /\ Goto(p, "read")
     \/ /\ "owner" \in faults /\ lock # NoLock
        /\ \E left \in {Missing, Empty} : lock' = [lock EXCEPT !.owner = left]
        /\ Goto(p, "read")
  /\ UNCHANGED <<data, op, seen, known>>

\* Nothing can be said of the owner: sleep 10 ms and try again, or give up after 30 s.
Wait(p) == Goto(p, "try") \/ Goto(p, "idle")

\* An owner file that holds no pid parses to 0, which names no process.  A missing one counts as
\* abandoned after 5 s, which outlast the gap between mkdir and the write.
ReadOwner(p) ==
  /\ pc[p] = "read"
  /\ \/ lock = NoLock /\ UNCHANGED seen /\ Wait(p)
     \/ lock # NoLock /\ lock.owner = Empty /\ UNCHANGED seen /\ Wait(p)
     \/ /\ lock # NoLock /\ lock.owner = Missing /\ UNCHANGED seen
        /\ IF pc[lock.by] = "own" THEN Wait(p) ELSE Goto(p, "break")
     \/ /\ lock # NoLock /\ lock.owner \in Procs
        /\ seen' = [seen EXCEPT ![p] = lock.owner]
        /\ Goto(p, "probe")
  /\ UNCHANGED <<data, lock, op, known>>

\* Mutant: an owner that cannot be signalled is waited for like any other.
ProbePatient(p) ==
  /\ pc[p] = "probe"
  /\ Wait(p)
  /\ UNCHANGED <<data, lock, op, seen, known>>

\* kill(owner, 0)
Probe(p) ==
  /\ pc[p] = "probe"
  /\ IF pc[seen[p]] = "dead" THEN Goto(p, "break") ELSE Wait(p)
  /\ UNCHANGED <<data, lock, op, seen, known>>

\* rm -r of the directory that is there now, whoever made it.
BreakLock(p) ==
  /\ At(p, "break", "try")
  /\ lock' = NoLock
  /\ UNCHANGED <<data, op, seen, known>>

Release(p) ==
  /\ At(p, "release", "idle")
  /\ lock' = NoLock
  /\ UNCHANGED <<data, op, seen, known>>

-----------------------------------------------------------------------------
(* EventProjection.mutateAndRecord, inspect and rebuild *)

\* The transaction: domain rows and the event row.
Commit(p) ==
  /\ op[p] = "mutate" /\ At(p, "work", "append")
  /\ committed < MaxEvents
  /\ committed' = committed + 1
  /\ known' = [known EXCEPT ![p] = committed + 1]
  /\ UNCHANGED <<log, health, lock, op, seen>>

\* The mutation or the insert throws: the transaction rolls back and the caller sees the error.
Rollback(p) ==
  /\ op[p] = "mutate" /\ At(p, "work", "release")
  /\ UNCHANGED <<data, lock, op, seen, known>>

\* Mutant: the append is retried although the line was written.
AppendTwice(p) ==
  /\ At(p, "append", "list")
  /\ log' = log \o <<known[p], known[p]>>
  /\ UNCHANGED <<committed, health, lock, op, seen, known>>

AppendLine(p) ==
  /\ At(p, "append", "list")
  /\ log' = Append(log, known[p])
  /\ UNCHANGED <<committed, health, lock, op, seen, known>>

\* The append throws, before the line is written or when it is flushed; the mutation stays
\* committed.
AppendThrows(p) ==
  /\ "file" \in faults /\ At(p, "append", "degrade")
  /\ log' \in {log, Append(log, known[p])}
  /\ UNCHANGED <<committed, health, lock, op, seen, known>>

\* Mutant: the failure is not reported.
DegradeSilently(p) ==
  /\ At(p, "degrade", "release")
  /\ UNCHANGED <<data, lock, op, seen, known>>

Degrade(p) ==
  /\ At(p, "degrade", "release")
  /\ health' = "DEGRADED"
  /\ UNCHANGED <<committed, log, lock, op, seen, known>>

\* Mutant: the list counts an event that is still to come.
ListOneMore(p) ==
  /\ \/ op[p] = "inspect" /\ At(p, "work", "compare")
     \/ At(p, "list", "compare")
  /\ known' = [known EXCEPT ![p] = committed + 1]
  /\ UNCHANGED <<data, lock, op, seen>>

\* inspectUnlocked lists the rows.
List(p) ==
  /\ \/ op[p] = "inspect" /\ At(p, "work", "compare")
     \/ At(p, "list", "compare")
  /\ known' = [known EXCEPT ![p] = committed]
  /\ UNCHANGED <<data, lock, op, seen>>

\* Mutant: only the newest line is compared.
CompareNewest(p) ==
  /\ At(p, "compare", "release")
  /\ health' = IF known[p] = 0 \/ (log # <<>> /\ log[Len(log)] = known[p]) THEN "HEALTHY" ELSE "DEGRADED"
  /\ UNCHANGED <<committed, log, lock, op, seen, known>>

\* It reads the file and writes what it found.
Compare(p) ==
  /\ At(p, "compare", "release")
  /\ health' = IF log = Canonical(known[p]) THEN "HEALTHY" ELSE "DEGRADED"
  /\ UNCHANGED <<committed, log, lock, op, seen, known>>

\* rebuild lists the rows before it writes the temporary file.
Snapshot(p) ==
  /\ op[p] = "rebuild" /\ At(p, "work", "replace")
  /\ known' = [known EXCEPT ![p] = committed]
  /\ UNCHANGED <<data, lock, op, seen>>

\* Mutant: the last row is cut off.
ReplaceShort(p) ==
  /\ At(p, "replace", "list")
  /\ log' = Canonical(IF known[p] > 1 THEN known[p] - 1 ELSE known[p])
  /\ UNCHANGED <<committed, health, lock, op, seen, known>>

\* The temporary file is renamed over events.jsonl.
Replace(p) ==
  /\ At(p, "replace", "list")
  /\ log' = Canonical(known[p])
  /\ UNCHANGED <<committed, health, lock, op, seen, known>>

\* The temporary file cannot be written, or the directory not flushed after the rename: the
\* caller of rebuild sees the error.
ReplaceThrows(p) ==
  /\ "file" \in faults /\ At(p, "replace", "release")
  /\ log' \in {log, Canonical(known[p])}
  /\ UNCHANGED <<committed, health, lock, op, seen, known>>

\* Listing the rows or writing the health row throws.  mutateAndRecord swallows the error, the
\* caller of inspect or rebuild sees it.
RowsThrow(p) ==
  /\ "rows" \in faults
  /\ pc[p] \in {"work", "degrade", "list", "compare"}
  /\ Goto(p, "release")
  /\ UNCHANGED <<data, lock, op, seen, known>>

-----------------------------------------------------------------------------
\* A process exits, or is killed; a kill inside the write of the owner file may leave it empty.
End(p) ==
  /\ "end" \in faults /\ pc[p] # "dead"
  /\ Goto(p, "dead")
  /\ \/ UNCHANGED lock
     \/ pc[p] = "own" /\ lock # NoLock /\ lock' = [lock EXCEPT !.owner = Empty]
  /\ UNCHANGED <<data, op, seen, known, faults>>

Synchronize(p) == MakeLock(p) \/ WriteOwner(p) \/ ReadOwner(p) \/ Probe(p) \/ BreakLock(p) \/ Release(p)

Work(p) ==
  \/ Commit(p) \/ Rollback(p) \/ AppendLine(p) \/ AppendThrows(p) \/ Degrade(p)
  \/ List(p) \/ Compare(p) \/ Snapshot(p) \/ Replace(p) \/ ReplaceThrows(p) \/ RowsThrow(p)

Step(p) == (Synchronize(p) \/ Work(p)) /\ UNCHANGED faults

Next == \E p \in Procs : Step(p) \/ End(p) \/ \E what \in Operations : Call(p, what)

Spec == Init /\ [][Next]_vars

\* A process that is running goes on running; nobody has to call.
FairSpec == Spec /\ \A p \in Procs : WF_vars(Step(p))

-----------------------------------------------------------------------------
(* Properties.  The section is only as exclusive as the owner file is       *)
(* reliable: most of them speak of behaviours in which it can be written.   *)

\* "Caller must hold synchronize()": two processes are never inside the section together.
SectionExclusive ==
  "owner" \notin faults => \A p, q \in Procs : pc[p] \in Section /\ pc[q] \in Section => p = q

NeverAhead == \A i \in DOMAIN log : log[i] <= committed
InOrder == \A i, j \in DOMAIN log : i < j => log[i] < log[j]

\* The file can be behind the table but never ahead of it, whatever fails; and its lines are never
\* reordered or duplicated.
OnlyBehind == NeverAhead /\ ("owner" \notin faults => InOrder)

\* However many lines were lost, the rename of a rebuild leaves exactly the canonical history:
\* no event commits between the snapshot and the rename.
RebuildHeals ==
  [][\A p \in Procs : pc[p] = "replace" /\ pc'[p] = "list" /\ "owner" \notin faults
       => log' = Canonical(committed')]_vars

\* A later successful append cannot hide an earlier gap: health returns to HEALTHY only when
\* the file holds every row.
GapNotHidden ==
  [][health = "DEGRADED" /\ health' = "HEALTHY" /\ "owner" \notin faults
       => log' = Canonical(committed')]_vars

\* When no process dies and the health row can be written, a gap that a released section left
\* behind is on record.
GapReported ==
  faults \subseteq {"file"} /\ lock = NoLock /\ log # Canonical(committed) => health = "DEGRADED"

History == INSTANCE DurableHistory

\* The lock makes the operations of all processes, step by step, operations on one durable history,
\* each of which sees the table as it is.
ImplementsDurableHistory ==
  History!Init /\ [][ "owner" \notin faults => History!Next ]_data

\* A lock whose holder ended does not stop the others for good: a process that goes on waiting
\* breaks it.
Abandoned ==
  /\ lock # NoLock
  /\ \/ lock.owner \in Procs /\ pc[lock.owner] = "dead"
     \/ lock.owner = Missing /\ pc[lock.by] = "dead"
AbandonedLockBroken ==
  \A p \in Procs : Abandoned /\ pc[p] \in Trying ~> ~Abandoned \/ pc[p] \notin Trying
=============================================================================
