--------------------------- MODULE MCPublication ---------------------------
(* Small instances of Publication for TLC.                                 *)
EXTENDS Publication, TLC

Symmetry == Permutations(Keys) \cup Permutations(Procs) \cup Permutations(Stamps)
============================================================================
