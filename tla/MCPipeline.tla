------------------------------ MODULE MCPipeline ------------------------------
(***************************************************************************)
(* Client processes and the dataset job on a small instance.               *)
(***************************************************************************)
EXTENDS Pipeline, TLC

Symmetry == Permutations(Process) \cup Permutations(Request)
=============================================================================
