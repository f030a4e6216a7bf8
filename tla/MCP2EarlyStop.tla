--------------------------- MODULE MCP2EarlyStop ---------------------------
(***************************************************************************)
(* P2StateMachine with one base candidate and up to four iterations of one *)
(* adaptive candidate: every history of improvements that can or cannot    *)
(* earn an early stop.                                                     *)
(***************************************************************************)
EXTENDS P2StateMachine, TLC

CONSTANTS c1, c2, c3, c4, c5

MCValues == 0..2
MCBuildCounts == {1}
Sym == Permutations(CandidateIds)

=============================================================================
