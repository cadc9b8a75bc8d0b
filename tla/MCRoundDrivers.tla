---------------------------- MODULE MCRoundDrivers ----------------------------
(***************************************************************************)
(* Drivers of rounds on a small instance.                                  *)
(***************************************************************************)
EXTENDS RoundDrivers, TLC

Symmetry == Permutations(Request)
=============================================================================
