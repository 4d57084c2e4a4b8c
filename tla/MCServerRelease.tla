-------------------------- MODULE MCServerRelease --------------------------
(***************************************************************************)
(* ServerRelease for TLC: generations "g0" (installed by hand), "g1" and   *)
(* "g2", and the release that each of the last two is published as.        *)
(***************************************************************************)
EXTENDS ServerRelease

MCPathOf == [r \in Releases |-> IF r = 1 THEN "g1" ELSE "g2"]
=============================================================================
