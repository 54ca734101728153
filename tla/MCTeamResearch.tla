--------------------------- MODULE MCTeamResearch ---------------------------
(* TeamResearch with a few workers; the calls that drive them are interchangeable. *)
EXTENDS TeamResearch, TLC

Symmetry == Permutations(Drivers)

\* No action reads the history.
WithoutHistory == <<store, memory>>
=============================================================================
