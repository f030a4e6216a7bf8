--------------------------- MODULE MCP2Shortlist ---------------------------
(***************************************************************************)
(* P2StateMachine with two base candidates and one adaptive iteration of   *)
(* two: ties, a full shortlist, failures, and outcomes over the budget.    *)
(***************************************************************************)
EXTENDS P2StateMachine, TLC

CONSTANTS c1, c2, c3, c4

MCValues == 0..3
MCBuildCounts == {1, 2}
Sym == Permutations(CandidateIds)

=============================================================================
