-------------------------- MODULE MCScreenAttempt --------------------------
(***************************************************************************)
(* ScreenAttempt with the local arm and one remote arm of two cells each.  *)
(***************************************************************************)
EXTENDS ScreenAttempt

CONSTANTS a1, a2, r1, r2

MCArmOf == <<a1, a1, a2, a2>>

=============================================================================
