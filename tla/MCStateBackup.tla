--------------------------- MODULE MCStateBackup ---------------------------
(* StateBackup with model values. *)
EXTENDS StateBackup, TLC

Symmetry == Permutations(Units) \cup Permutations(Archives)
============================================================================
