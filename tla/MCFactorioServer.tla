-------------------------- MODULE MCFactorioServer --------------------------
(***************************************************************************)
(* A small instance of FactorioServer: one player under two spellings.     *)
(***************************************************************************)
EXTENDS FactorioServer

MCLower == [n \in {"Ann", "ann"} |-> "ann"]
=============================================================================
