----------------------------- MODULE TrustModel -----------------------------
(***************************************************************************)
(* What the trust model promises, with no services, awaits or tables: who  *)
(* may change which part of the state of a claim.  VerificationGate        *)
(* implements it.                                                          *)
(*                                                                         *)
(* Models, people, solvers and literature gather evidence.  They cannot    *)
(* make a claim verified, and they cannot take away what a verified claim  *)
(* rests on.  Only the gate promotes, and only on complete backing.        *)
(***************************************************************************)
CONSTANTS Claims, Formals

VARIABLES
  verified,  \* the claims whose status is KERNEL_VERIFIED
  backing    \* per claim: the current, human approved statements with an accepted proof

TypeOK ==
  /\ verified \subseteq Claims
  /\ backing \in [Claims -> SUBSET Formals]

Init ==
  /\ verified = {}
  /\ backing = [c \in Claims |-> {}]

\* The backing of the claims in S does not shrink.
Keeps(S) == \A c \in S : backing[c] \subseteq backing'[c]

Gather ==
  /\ verified' = verified
  /\ backing' \in [Claims -> SUBSET Formals]
  /\ Keeps(verified)

Promote(c) ==
  /\ backing[c] # {}
  /\ verified' = verified \union {c}
  /\ backing' = backing

Retract(c) ==
  /\ verified' = verified \ {c}
  /\ backing' \in [Claims -> SUBSET Formals]
  /\ Keeps(verified')

Next == Gather \/ \E c \in Claims : Promote(c) \/ Retract(c)

Spec == Init /\ [][Next]_<<verified, backing>>

\* The promise itself: a verified claim always has backing.
VerifiedIsBacked == \A c \in verified : backing[c] # {}
=============================================================================
