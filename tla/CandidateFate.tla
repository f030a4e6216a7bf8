--------------------------- MODULE CandidateFate ---------------------------
(***************************************************************************)
(* What becomes of one piece of measured work: it is open until its result *)
(* is recorded or it is lost, and then stays what it is.  RemoteCandidate  *)
(* (a candidate of an A2 attempt, with its supervisor and files) and       *)
(* ArmScreen (each cell of an A1.2 screen) implement it; A2Executor is     *)
(* written over it.                                                        *)
(***************************************************************************)
VARIABLE fate

\* A fate is settled once.
Settles(from, to) == from = "open" /\ to \in {"recorded", "lost"}

Init == fate = "open"

Next == Settles(fate, fate')

\* What one step of an implementation may do to it.
Step == Next \/ UNCHANGED fate

Spec == Init /\ [][Next]_fate

=============================================================================
