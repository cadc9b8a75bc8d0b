---------------------------- MODULE MCSecAggRound ----------------------------
(***************************************************************************)
(* Coordinator and clients on small instances.                             *)
(***************************************************************************)
EXTENDS SecAggRound

\* One ClientSecAgg instance per client, round and life of the process.
MCKey == Client \X (1 .. MaxRound) \X (0 .. MaxFaults)
=============================================================================
