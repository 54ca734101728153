-------------------------- MODULE MCArtifactImport --------------------------
(* ArtifactImport with calls and statements that are interchangeable. *)
EXTENDS ArtifactImport, TLC

Symmetry == Permutations(Calls) \union Permutations(Texts)
=============================================================================
