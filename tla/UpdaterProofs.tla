---------------------------- MODULE UpdaterProofs ----------------------------
(***************************************************************************)
(* Proofs about Updater, for any set of executables.  Nothing is assumed:  *)
(* every file system call may fail, and the process may be killed before   *)
(* each of them.                                                           *)
(***************************************************************************)
EXTENDS Updater, TLAPS

\* Every reachable state is well typed; in particular the canonical path is never empty.  The
\* copy a restore uses has been made, and so has the backup a rollback uses.
Copied ==
  /\ pc \in {"install", "undo", "smoke", "shift", "commit", "restore"} => saved \in Versions
  /\ pc \in {"save", "install", "smoke"} => candidate \in Versions
  /\ pc \in {"copy", "replace"} => backup \in Versions

LEMMA TypeInit == Init => TypeOK /\ Copied
  BY DEF Init, TypeOK, Copied, File, Ended, Working

LEMMA TypeStep ==
  ASSUME TypeOK, Copied, [Next]_vars
  PROVE  TypeOK' /\ Copied'
<1> USE NoneAssumption DEF TypeOK, Copied, File, Ended, Working, At, files
<1>1. ASSUME NEW v \in Versions, Apply(v) PROVE TypeOK' /\ Copied'
  BY <1>1 DEF Apply, Begin
<1>2. CASE Save
  BY <1>2 DEF Save
<1>3. CASE Install
  BY <1>3 DEF Install
<1>4. CASE Undo
  BY <1>4 DEF Undo, LeaveCopies, Abandoned
<1>5. CASE Smoke
  BY <1>5 DEF Smoke
<1>6. CASE Shift
  BY <1>6 DEF Shift
<1>7. CASE Commit
  BY <1>7 DEF Commit
<1>8. CASE Clean
  BY <1>8 DEF Clean, LeaveCopies, Abandoned
<1>9. CASE Restore
  BY <1>9 DEF Restore, LeaveCopies, Abandoned
<1>10. CASE Unshift
  BY <1>10 DEF Unshift, LeaveCopies, Abandoned
<1>11. CASE Rollback
  BY <1>11 DEF Rollback, Begin
<1>12. CASE Copy
  BY <1>12 DEF Copy
<1>13. CASE Replace
  BY <1>13 DEF Replace
<1>14. CASE Drop
  BY <1>14 DEF Drop, LeaveCopies, Abandoned
<1>15. CASE Kill
  BY <1>15 DEF Kill, LeaveCopies, Abandoned
<1>16. CASE UNCHANGED vars
  BY <1>16 DEF vars
<1> QED
  BY <1>1, <1>2, <1>3, <1>4, <1>5, <1>6, <1>7, <1>8, <1>9, <1>10, <1>11, <1>12, <1>13, <1>14,
     <1>15, <1>16 DEF Next, Update, ManualRollback

THEOREM Typed == Spec => [](TypeOK /\ Copied)
BY TypeInit, TypeStep, PTL DEF Spec

\* "never leaves canonical path missing": whatever fails and wherever the process is killed.
THEOREM TypeCorrect == Spec => []TypeOK
BY Typed, PTL

-----------------------------------------------------------------------------
(***************************************************************************)
(* Where the two generations a call found are, at each of its steps: this  *)
(* is the strengthening that makes the properties inductive.               *)
(***************************************************************************)
AsFound == current = before.current /\ backup = before.backup
Aside ==
  \/ backup = before.backup /\ prior = None
  \/ backup = None /\ prior = before.backup

Located ==
  /\ pc \in {"save", "install", "undo", "copy", "replace", "keep", "restored", "refused"} => AsFound
  /\ pc \in {"install", "undo", "smoke", "shift", "commit", "restore", "replace", "keep", "drop"}
       => saved = before.current
  /\ pc \in {"smoke", "shift"} => backup = before.backup
  /\ pc \in {"smoke", "shift", "commit", "clean", "applied"} => current = candidate
  /\ pc = "commit" => backup = None /\ prior = before.backup
  /\ pc \in {"restore", "unshift"} => Aside
  /\ pc \in {"clean", "applied"} => backup = before.current
  /\ pc = "clean" => prior = before.backup
  /\ pc = "unshift" => current = before.current
  /\ pc \in {"drop", "rolledBack"} => current = before.backup
  /\ pc \notin {"commit", "clean", "restore", "unshift"} => prior = None

Kept == Located /\ GenerationsKept

LEMMA LocatedResult == ASSUME Located PROVE ResultTrue
  BY DEF Located, ResultTrue, AsFound

LEMMA KeptInit == Init => Kept
  BY DEF Init, Kept, Located, GenerationsKept, OnDisk, AsFound, Aside, File

\* Copies that are left at their recovery paths are still on disk.
LEMMA LeftOnDisk ==
  ASSUME LeaveCopies, UNCHANGED <<current, backup>>
  PROVE  OnDisk \ {None} \subseteq OnDisk'
  BY DEF LeaveCopies, Abandoned, OnDisk

LEMMA KeptUpdate ==
  ASSUME TypeOK, Kept, Update
  PROVE  Kept'
<1> USE NoneAssumption DEF TypeOK, Kept, Located, GenerationsKept, AsFound, Aside, File, At
<1>1. CASE Save
  BY <1>1 DEF Save, OnDisk
<1>2. CASE Install
  BY <1>2 DEF Install, OnDisk
<1>3. CASE Undo
  BY <1>3, LeftOnDisk DEF Undo, OnDisk, LeaveCopies
<1>4. CASE Smoke
  <2>1. /\ current = candidate /\ backup = before.backup
        /\ saved = before.current /\ prior = None
    BY <1>4 DEF Smoke
  <2>2. pc' \in {"shift", "restore"} /\ UNCHANGED <<files, candidate, before, OnDisk>>
    BY <1>4 DEF Smoke, OnDisk, files
  <2>3. Located'
    BY <2>1, <2>2 DEF files
  <2>4. GenerationsKept'
    BY <2>1, <2>2 DEF OnDisk, files
  <2> QED BY <2>3, <2>4
<1>5. CASE Shift
  <2>1. /\ current = candidate /\ backup = before.backup
        /\ saved = before.current /\ prior = None
    BY <1>5 DEF Shift
  <2>2. UNCHANGED <<current, saved, strays, candidate, before>>
    BY <1>5 DEF Shift
  <2>3. \/ pc' = "commit" /\ prior' = before.backup /\ backup' = None
        \/ pc' = "restore" /\ UNCHANGED <<backup, prior>>
    BY <1>5, <2>1 DEF Shift
  <2>4. Located'
    BY <2>1, <2>2, <2>3
  <2>5. GenerationsKept'
    BY <2>1, <2>2, <2>3 DEF OnDisk
  <2> QED BY <2>4, <2>5
<1>6. CASE Commit
  BY <1>6 DEF Commit, OnDisk
<1>7. CASE Clean
  BY <1>7, LeftOnDisk DEF Clean, OnDisk, LeaveCopies
<1>8. CASE Restore
  BY <1>8, LeftOnDisk DEF Restore, OnDisk, LeaveCopies
<1>9. CASE Unshift
  BY <1>9, LeftOnDisk DEF Unshift, OnDisk, LeaveCopies
<1> QED
  BY <1>1, <1>2, <1>3, <1>4, <1>5, <1>6, <1>7, <1>8, <1>9 DEF Update

LEMMA KeptOther ==
  ASSUME TypeOK, Kept, \/ \E v \in Versions : Apply(v)
                       \/ Rollback \/ ManualRollback \/ Kill \/ UNCHANGED vars
  PROVE  Kept'
<1> USE NoneAssumption DEF TypeOK, Kept, Located, GenerationsKept, AsFound, Aside, File, At
<1>1. ASSUME NEW v \in Versions, Apply(v) PROVE Kept'
  BY <1>1 DEF Apply, Begin, OnDisk, files, Ended
<1>2. CASE Rollback
  BY <1>2 DEF Rollback, Begin, OnDisk, files, Ended
<1>3. CASE Copy
  BY <1>3 DEF Copy, OnDisk
<1>4. CASE Replace
  BY <1>4 DEF Replace, OnDisk
<1>5. CASE Drop
  BY <1>5, LeftOnDisk DEF Drop, OnDisk, LeaveCopies
<1>6. CASE Kill
  BY <1>6, LeftOnDisk DEF Kill, LeaveCopies, Working
<1>7. CASE UNCHANGED vars
  BY <1>7 DEF vars, files, OnDisk
<1> QED
  BY <1>1, <1>2, <1>3, <1>4, <1>5, <1>6, <1>7 DEF ManualRollback

THEOREM AlwaysKept == Spec => []Kept
<1>1. TypeOK /\ Kept /\ [Next]_vars => Kept'
  BY KeptUpdate, KeptOther DEF Next
<1> QED
  BY <1>1, KeptInit, TypeCorrect, PTL DEF Spec

\* "leaves canonical executable and both recovery generations", at every point of every call.
THEOREM GenerationsAreKept == Spec => []GenerationsKept
<1>1. Kept => GenerationsKept
  BY DEF Kept
<1> QED
  BY <1>1, AlwaysKept, PTL

\* What a call reports of the executable and of its backup is the case.
THEOREM ResultIsTrue == Spec => []ResultTrue
<1>1. Kept => ResultTrue
  BY LocatedResult DEF Kept
<1> QED
  BY <1>1, AlwaysKept, PTL
=============================================================================
