---------------------------- MODULE MCResearchRun ----------------------------
(* ResearchRun with a few calls; the calls that do not step are interchangeable. *)
EXTENDS ResearchRun, TLC

Symmetry == Permutations(Controllers) \union Permutations(Calls \ Controllers)

\* What the record and the budget on record depend on: no action reads the history.
WithoutHistory == <<run, rows, verified, call>>
=============================================================================
