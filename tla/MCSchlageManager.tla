------------------------- MODULE MCSchlageManager --------------------------
(* SchlageManager with model values. *)
EXTENDS SchlageManager, TLC

Symmetry ==
  Permutations(Sessions) \cup Permutations(Ids) \cup Permutations(Pins)
    \cup Permutations(Names) \cup Permutations(Timeouts)
============================================================================
