------------------------------ MODULE MCAuditLog ------------------------------
(***************************************************************************)
(* The audit log on a small instance.  A body is an action and its time.   *)
(***************************************************************************)
EXTENDS AuditLog, TLC

MCBody == {<<"created", 12>>, <<"read", 12>>, <<"read", 10>>}
MCForgery == {<<"read", 10>>}
MCShifted(body) == <<body[1], body[2] + 2>>

Symmetry == Permutations(Session)
=============================================================================
