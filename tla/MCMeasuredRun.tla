--------------------------- MODULE MCMeasuredRun ---------------------------
(***************************************************************************)
(* MeasuredRun with a baseline, one adaptive iteration of one candidate,   *)
(* and with or without another base candidate: with it, two candidates can *)
(* be finalists.                                                           *)
(***************************************************************************)
EXTENDS MeasuredRun

CONSTANTS b, c, a, w, v

MCBaselineAlone == <<b>>
MCBaseOrder == <<b, c>>
MCBatches == <<<<a>>>>

=============================================================================
