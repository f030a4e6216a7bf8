---------------------------- MODULE MCRunJournal ----------------------------
(***************************************************************************)
(* RunJournal with two workers and one verify command, two keys after the  *)
(* first and two states: enough for a key to be reused for the same and    *)
(* for another transition, and for two processes to meet at one sequence   *)
(* number.                                                                 *)
(***************************************************************************)
EXTENDS RunJournal, TLC

CONSTANTS w1, w2, v1, k1, k2, s1, s2

Sym == Permutations({w1, w2}) \cup Permutations({k1, k2}) \cup Permutations({s1, s2})

=============================================================================
