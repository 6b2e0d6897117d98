------------------------- MODULE MCChangeSetEngine -------------------------
(* Small instances of ChangeSetEngine for TLC.                             *)
EXTENDS ChangeSetEngine, TLC

Symmetry == Permutations(Keys) \cup Permutations(Procs) \cup Permutations(Hashes)
============================================================================
