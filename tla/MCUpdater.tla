------------------------------ MODULE MCUpdater ------------------------------
(* Updater with a few executables, which are interchangeable. *)
EXTENDS Updater, TLC

Symmetry == Permutations(Versions)
=============================================================================
