------------------------------ MODULE MCAccounts ------------------------------
(***************************************************************************)
(* Accounts and tokens on a small instance.                                *)
(***************************************************************************)
EXTENDS Accounts, TLC

Symmetry == Permutations(Request) \cup Permutations(Email) \cup Permutations(Id) \cup Permutations(Key)
=============================================================================
