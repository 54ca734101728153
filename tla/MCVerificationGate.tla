------------------------- MODULE MCVerificationGate -------------------------
(* VerificationGate on small tables.  Jobs are interchangeable, and so are contexts. *)
EXTENDS VerificationGate, TLC

Symmetry == Permutations(Jobs) \union Permutations(Contexts)
=============================================================================
