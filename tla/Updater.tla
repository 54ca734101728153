------------------------------- MODULE Updater -------------------------------
(***************************************************************************)
(* applyAtomicUpdate and rollbackUpdate: the executable at the canonical   *)
(* path, the one before it at <current>.previous, and the recovery copies  *)
(* under names no other call uses.  An action is one file system call and  *)
(* the code up to the next, so the process may be killed between any two.  *)
(* A file that is still being copied is not usable and is left out: its    *)
(* name is unique, and nothing reads it before the copy is whole.          *)
(***************************************************************************)
CONSTANTS
  Versions,  \* executables
  None       \* no file at the path

ASSUME NoneAssumption == None \notin Versions

VARIABLES
  current,    \* the file at the canonical path
  backup,     \* the file at <current>.previous
  saved,      \* the copy of current that the call has made: update-old, or failed
  prior,      \* the former backup, set aside by the call
  strays,     \* whole executables that calls left at their recovery paths
  candidate,  \* what the last update was to install
  pc,         \* the next file system call, or how the last call ended
  before      \* history: current and backup when the last call began

files == <<current, backup, saved, prior, strays>>
vars == <<files, candidate, pc, before>>

File == Versions \union {None}
Ended == {"none", "applied", "restored", "rolledBack", "refused", "failed", "killed"}
Working == {"save", "install", "undo", "smoke", "shift", "commit", "clean", "restore", "unshift",
            "copy", "replace", "keep", "drop"}

\* "never leaves canonical path missing": the canonical path always holds an executable.
TypeOK ==
  /\ current \in Versions
  /\ {backup, saved, prior} \subseteq File
  /\ strays \subseteq Versions
  /\ candidate \in File
  /\ pc \in Ended \union Working
  /\ before \in [current : Versions, backup : File]

Init ==
  /\ current \in Versions /\ backup \in File
  /\ saved = None /\ prior = None /\ strays = {}
  /\ candidate = None
  /\ pc = "none"
  /\ before = [current |-> current, backup |-> backup]

At(here, next) == pc = here /\ pc' = next
Begin(next) == pc \in Ended /\ pc' = next /\ before' = [current |-> current, backup |-> backup]

\* The copies of the call stay where they are.
Abandoned == {saved, prior} \ {None}
LeaveCopies == strays' = strays \union Abandoned /\ saved' = None /\ prior' = None

-----------------------------------------------------------------------------
(* applyAtomicUpdate *)

\* Both files exist and the candidate has passed its smoke test; otherwise nothing is touched.
Apply(v) ==
  /\ Begin("save")
  /\ candidate' = v
  /\ UNCHANGED files

\* Mutant: the installed executable is not copied.
SaveNothing ==
  /\ At("save", "install")
  /\ UNCHANGED <<files, candidate, before>>

\* The candidate is copied next to the executable, and the executable under a name of its own.
Save ==
  /\ \/ At("save", "install") /\ saved' = current
     \/ At("save", "restored") /\ UNCHANGED saved
  /\ UNCHANGED <<current, backup, prior, strays, candidate, before>>

\* The staged candidate is renamed over the executable.
Install ==
  /\ \/ At("install", "smoke") /\ current' = candidate
     \/ At("install", "undo") /\ UNCHANGED current
  /\ UNCHANGED <<backup, saved, prior, strays, candidate, before>>

\* Nothing was installed: the copy is removed, or cannot be.
Undo ==
  /\ \/ At("undo", "restored") /\ saved' = None /\ UNCHANGED <<prior, strays>>
     \/ At("undo", "failed") /\ LeaveCopies
  /\ UNCHANGED <<current, backup, candidate, before>>

Smoke ==
  /\ At("smoke", "shift") \/ At("smoke", "restore")
  /\ UNCHANGED <<files, candidate, before>>

\* An older backup makes room.
Shift ==
  /\ \/ At("shift", "commit") /\ backup = None /\ UNCHANGED <<backup, prior>>
     \/ At("shift", "commit") /\ backup # None /\ prior' = backup /\ backup' = None
     \/ At("shift", "restore") /\ backup # None /\ UNCHANGED <<backup, prior>>
  /\ UNCHANGED <<current, saved, strays, candidate, before>>

\* The former executable becomes the backup.
Commit ==
  /\ \/ At("commit", "clean") /\ backup' = saved /\ saved' = None
     \/ At("commit", "restore") /\ UNCHANGED <<backup, saved>>
  /\ UNCHANGED <<current, prior, strays, candidate, before>>

\* The older backup is removed; one that is locked stays and does not undo the update.
Clean ==
  /\ At("clean", "applied")
  /\ \/ prior' = None /\ UNCHANGED <<saved, strays>>
     \/ LeaveCopies
  /\ UNCHANGED <<current, backup, candidate, before>>

\* Mutant: the candidate is moved away before the former executable is put back.
RestoreByGap ==
  /\ At("restore", "unshift")
  /\ current' = None
  /\ UNCHANGED <<backup, saved, prior, strays, candidate, before>>

\* The catch branch: the former executable is renamed over the candidate.
Restore ==
  /\ \/ At("restore", "unshift") /\ current' = saved /\ saved' = None /\ UNCHANGED <<prior, strays>>
     \/ At("restore", "failed") /\ LeaveCopies /\ UNCHANGED current
  /\ UNCHANGED <<backup, candidate, before>>

\* Mutant: the older backup is forgotten.
UnshiftNot ==
  /\ At("unshift", "restored") /\ LeaveCopies
  /\ UNCHANGED <<current, backup, candidate, before>>

\* A backup that made room comes back.
Unshift ==
  /\ \/ At("unshift", "restored") /\ prior = None /\ UNCHANGED <<backup, saved, prior, strays>>
     \/ At("unshift", "restored") /\ prior # None /\ backup' = prior /\ prior' = None /\ UNCHANGED <<saved, strays>>
     \/ At("unshift", "failed") /\ prior # None /\ LeaveCopies /\ UNCHANGED backup
  /\ UNCHANGED <<current, candidate, before>>

-----------------------------------------------------------------------------
(* rollbackUpdate *)

Rollback ==
  /\ backup # None
  /\ Begin("copy")
  /\ UNCHANGED <<files, candidate>>

Copy ==
  /\ \/ At("copy", "replace") /\ saved' = current
     \/ At("copy", "refused") /\ UNCHANGED saved
  /\ UNCHANGED <<current, backup, prior, strays, candidate, before>>

\* The backup is renamed over the executable.
Replace ==
  /\ \/ At("replace", "drop") /\ current' = backup /\ backup' = None
     \/ At("replace", "keep") /\ UNCHANGED <<current, backup>>
  /\ UNCHANGED <<saved, prior, strays, candidate, before>>

\* The copy of the executable is removed; one that is locked stays.
Drop ==
  /\ At("drop", "rolledBack") \/ At("keep", "refused")
  /\ \/ saved' = None /\ UNCHANGED <<prior, strays>>
     \/ LeaveCopies
  /\ UNCHANGED <<current, backup, candidate, before>>

-----------------------------------------------------------------------------
Kill ==
  /\ pc \in Working /\ pc' = "killed"
  /\ LeaveCopies
  /\ UNCHANGED <<current, backup, candidate, before>>

Update ==
  Save \/ Install \/ Undo \/ Smoke \/ Shift \/ Commit \/ Clean \/ Restore \/ Unshift
ManualRollback == Copy \/ Replace \/ Drop

Next == (\E v \in Versions : Apply(v)) \/ Update \/ Rollback \/ ManualRollback \/ Kill

Spec == Init /\ [][Next]_vars

-----------------------------------------------------------------------------
(* Properties *)

\* "leaves canonical executable and both recovery generations": until a call has succeeded, and
\* after it was killed or failed at any point, the executable and the backup it found are on
\* disk.  An update that succeeded has kept the executable it replaced.
OnDisk == {current, backup, saved, prior} \union strays
GenerationsKept ==
  /\ pc # "rolledBack" => before.current \in OnDisk
  /\ pc # "applied" /\ before.backup # None => before.backup \in OnDisk

\* A call did what it says: `applied' names the candidate and a rollback to the executable it
\* replaced, `rolled back' after a failure means both files are as they were, and a manual
\* rollback leaves the backup in place of the executable.
ResultTrue ==
  /\ pc = "applied" => current = candidate /\ backup = before.current
  /\ pc \in {"restored", "refused"} => current = before.current /\ backup = before.backup
  /\ pc = "rolledBack" => current = before.backup
=============================================================================
