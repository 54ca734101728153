----------------------------- MODULE TeamRounds -----------------------------
(***************************************************************************)
(* What a team session promises, with no calls, leases, chunks or limits:  *)
(* who contributes to which round, and when a round is over.               *)
(* TeamResearch implements it.                                             *)
(*                                                                         *)
(* A round ends early when the user asks for it, and steps that are under  *)
(* way then may contribute to it after its end.  Unless somebody has asked,*)
(* a round ends with the contributions of all the workers that are left.   *)
(***************************************************************************)
EXTENDS Integers

CONSTANT Agents

VARIABLES
  round,    \* the rounds that are over
  done,     \* who has contributed to which round
  blocked,  \* the workers that are out for good
  live,     \* the workers whose runs are live
  asked     \* what the user has asked for

rvars == <<round, done, blocked, live, asked>>

Init == round = 0 /\ done = {} /\ blocked = {} /\ live = Agents /\ asked = {}

Left == {a \in live \ blocked : <<round + 1, a>> \notin done}

\* A worker contributes once to a round, and to the one that is open; it may be its last time.
Contribute(a) ==
  /\ a \notin blocked
  /\ \E r \in 1 .. round + 1 :
       /\ <<r, a>> \notin done
       /\ asked = {} => r = round + 1
       /\ done' = done \union {<<r, a>>}
  /\ blocked' \in {blocked, blocked \union {a}}
  /\ UNCHANGED <<round, live, asked>>

Close ==
  /\ asked # {} \/ Left = {}
  /\ round' = round + 1
  /\ UNCHANGED <<done, blocked, live, asked>>

Block ==
  /\ blocked' \in SUBSET Agents /\ blocked \subseteq blocked'
  /\ UNCHANGED <<round, done, live, asked>>

\* A run that has stopped comes back only when its worker is blocked.
Change ==
  /\ live' \in SUBSET Agents /\ live' \subseteq live \union blocked
  /\ UNCHANGED <<round, done, blocked, asked>>

Ask ==
  /\ asked' \in SUBSET {"pause", "cancel"}
  /\ UNCHANGED <<round, done, blocked, live>>

Next == (\E a \in Agents : Contribute(a)) \/ Close \/ Block \/ Change \/ Ask

Spec == Init /\ [][Next]_rvars
=============================================================================
