------------------------- MODULE MCRemoteCandidate -------------------------
(***************************************************************************)
(* RemoteCandidate with two supervisors and three launches.                *)
(***************************************************************************)
EXTENDS RemoteCandidate

CONSTANTS s1, s2, w1, w2, w3

=============================================================================
