---------------------------- MODULE MCA2Executor ----------------------------
(***************************************************************************)
(* A2Executor with two arms, three matched candidates (two of them of one  *)
(* arm) and a reserve of each arm.                                         *)
(***************************************************************************)
EXTENDS A2Executor

CONSTANTS e1, e2, a1, a2, b1, b2

MCArmOf == <<a1, a2, a1, a1, a2>>

=============================================================================
