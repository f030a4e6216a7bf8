---------------------------- MODULE FreezeBarrier ----------------------------
(***************************************************************************)
(* What a P2 run promises, whatever program carries it out                 *)
(* (src/myis_research/p2/state.py: "P2 candidate lifecycle with a hard     *)
(* internal freeze barrier"): the baseline expectation is fixed before any *)
(* train outcome is known, every outcome is recorded once and stays, the   *)
(* finalists are fixed among the measured candidates before the selection  *)
(* split is exposed, it is exposed at most once, and it reveals one        *)
(* aggregate per finalist and nothing else.                                *)
(***************************************************************************)
CONSTANTS
    CandidateIds,
    Expectations, \* what the baseline may be expected to give
    NoExpectation,
    Outcomes,     \* what a train measurement can give
    NoOutcome     \* not an outcome

VARIABLES
    expectation,  \* the baseline expectation, once it is fixed
    outcome,      \* each candidate's train outcome
    frozen,       \* whether the finalists are fixed
    finalists,    \* the candidates selection may evaluate
    exposures,    \* times the selection split was opened
    revealed      \* finalists whose selection aggregate is known

vars == <<expectation, outcome, frozen, finalists, exposures, revealed>>

Measured == {c \in CandidateIds : outcome[c] # NoOutcome}

Init ==
    /\ expectation = NoExpectation
    /\ outcome = [c \in CandidateIds |-> NoOutcome]
    /\ frozen = FALSE
    /\ finalists = {}
    /\ exposures = 0
    /\ revealed = {}

Commit ==
    /\ expectation = NoExpectation
    /\ Measured = {}
    /\ expectation' \in Expectations
    /\ UNCHANGED <<outcome, frozen, finalists, exposures, revealed>>

Measure(c) ==
    /\ expectation # NoExpectation
    /\ ~frozen
    /\ outcome[c] = NoOutcome
    /\ \E o \in Outcomes : outcome' = [outcome EXCEPT ![c] = o]
    /\ UNCHANGED <<expectation, frozen, finalists, exposures, revealed>>

Freeze ==
    /\ expectation # NoExpectation
    /\ ~frozen
    /\ frozen' = TRUE
    /\ finalists' \in SUBSET Measured
    /\ UNCHANGED <<expectation, outcome, exposures, revealed>>

Expose ==
    /\ frozen
    /\ finalists # {}
    /\ exposures = 0
    /\ exposures' = 1
    /\ UNCHANGED <<expectation, outcome, frozen, finalists, revealed>>

Reveal(c) ==
    /\ exposures = 1
    /\ c \in finalists \ revealed
    /\ revealed' = revealed \cup {c}
    /\ UNCHANGED <<expectation, outcome, frozen, finalists, exposures>>

Next ==
    \/ Commit
    \/ \E c \in CandidateIds : Measure(c)
    \/ Freeze
    \/ Expose
    \/ \E c \in CandidateIds : Reveal(c)

Spec == Init /\ [][Next]_vars
=============================================================================
