------------------------- MODULE MCEventProjection -------------------------
(* EventProjection with a few processes; processes are interchangeable. *)
EXTENDS EventProjection, TLC

Symmetry == Permutations(Procs)
=============================================================================
