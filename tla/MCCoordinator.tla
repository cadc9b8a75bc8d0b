---------------------------- MODULE MCCoordinator ----------------------------
(***************************************************************************)
(* The coordinator on a small instance.                                    *)
(***************************************************************************)
EXTENDS Coordinator, TLC

Symmetry == Permutations(Client)
=============================================================================
