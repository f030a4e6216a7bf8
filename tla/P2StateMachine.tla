--------------------------- MODULE P2StateMachine ---------------------------
(***************************************************************************)
(* P2RunStateMachine (src/myis_research/p2/state.py): the candidate        *)
(* lifecycle of one scientific P2 run, from the registration of candidates *)
(* to the one-shot selection.  One action per method; a call that raises   *)
(* without changing the object is a stuttering step, and the calls that    *)
(* change it before they raise are modelled with what they leave behind.   *)
(*                                                                         *)
(* A metric is its value; identity, lineage and digest fields are checks   *)
(* on the arguments, which the calls modelled here pass.                   *)
(***************************************************************************)
EXTENDS Integers, FiniteSets, FiniteSetsExt

CONSTANTS
    CandidateIds,     \* ids a caller may register
    Values,           \* values of a train metric
    None,             \* no value, no commitment, no reason
    FrozenControls,   \* candidate_allocation.frozen_controls
    Preregistered,    \* candidate_allocation.preregistered_patent_candidates
    MaxTotal,         \* limits.max_candidates_total
    MaxAdaptive,      \* limits.max_adaptive_candidates
    MaxIterations,    \* limits.max_adaptive_iterations
    IterationSize,    \* limits.candidates_per_iteration
    MaxFinalists,     \* limits.max_selection_finalists
    MaxBuilds,        \* limits.max_index_builds
    BuildCounts,      \* index builds one train outcome may report
    MinIterations,    \* stopping.min_iterations_before_early_stop
    Patience,         \* stopping.no_improvement_patience
    Reasons,          \* stop reasons a caller may give
    StopReasons,      \* stopping.valid_reasons
    Tolerance         \* tolerance of the baseline commitment

ASSUME ValuesAreNumbers == Values \subseteq Int /\ None \notin Values
ASSUME LimitsAreNumbers ==
    /\ {FrozenControls, Preregistered, MaxTotal, MaxAdaptive, MaxFinalists} \subseteq Nat
    /\ {MaxIterations, IterationSize, MaxBuilds, MinIterations, Patience} \subseteq Nat \ {0}
ASSUME BuildsAreNumbers == BuildCounts \subseteq 0..MaxBuilds
ASSUME ReasonsOK == StopReasons \subseteq Reasons /\ None \notin Reasons
ASSUME NoneIsNoCommitment == None \notin [baseline: CandidateIds, expected: Values]

VARIABLES
    state,
    candidates,       \* row of each id; status "absent": not registered
    commitment,       \* the baseline commitment, or None
    reproduction,     \* status of the baseline reproduction receipt
    completed,        \* completed_iterations is <<1, ..., completed>>
    iterated,         \* candidate ids in the iteration records
    best,             \* best_iteration_metric
    streak,           \* no_improvement_streak
    early,            \* early_stop_eligible
    builds,           \* total_index_builds
    stopReason,
    shortlist,        \* shortlist_ids
    freezeReceipt,    \* a freeze receipt exists
    exposures,        \* selection_exposure_count
    selected          \* ids with a selection metric

search == <<completed, iterated, best, streak, early>>
selection == <<shortlist, freezeReceipt, exposures, selected>>
vars == <<state, candidates, commitment, reproduction, search, builds, stopReason, selection>>

Classes == {"frozen_control", "preregistered_patent", "adaptive_autoindex"}
Statuses == {"absent", "generated", "train_complete", "failed", "rejected", "frozen"}
States == {"candidate_generation", "train_evaluation", "shortlist", "shortlist_ready",
           "frozen", "selection_exposed", "closed", "blocked"}

Row == [class: Classes \cup {None}, iteration: 0..MaxIterations, status: Statuses,
        metric: Values \cup {None}, builds: BuildCounts \cup {0}]
Absent == [class |-> None, iteration |-> 0, status |-> "absent", metric |-> None, builds |-> 0]
Generated(class, i) ==
    [class |-> class, iteration |-> i, status |-> "generated", metric |-> None, builds |-> 0]

TypeOK ==
    /\ state \in States
    /\ candidates \in [CandidateIds -> Row]
    /\ commitment \in [baseline: CandidateIds, expected: Values] \cup {None}
    /\ reproduction \in {"pending", "passed", "failed"}
    /\ completed \in 0..MaxIterations
    /\ iterated \subseteq CandidateIds
    /\ best \in Values \cup {None}
    /\ streak \in Nat
    /\ early \in BOOLEAN
    /\ builds \in Nat
    /\ stopReason \in Reasons \cup {None}
    /\ shortlist \subseteq CandidateIds
    /\ freezeReceipt \in BOOLEAN
    /\ exposures \in 0..1
    /\ selected \subseteq CandidateIds

Init ==
    /\ state = "candidate_generation"
    /\ candidates = [c \in CandidateIds |-> Absent]
    /\ commitment = None
    /\ reproduction = "pending"
    /\ completed = 0
    /\ iterated = {}
    /\ best = None
    /\ streak = 0
    /\ early = FALSE
    /\ builds = 0
    /\ stopReason = None
    /\ shortlist = {}
    /\ freezeReceipt = FALSE
    /\ exposures = 0
    /\ selected = {}

Registered == {c \in CandidateIds : candidates[c].status # "absent"}
OfClass(class) == {c \in Registered : candidates[c].class = class}
Adaptive == OfClass("adaptive_autoindex")
WithStatus(status) == {c \in Registered : candidates[c].status = status}
Members(i) == {c \in Adaptive : candidates[c].iteration = i}
MetricOf(c) == candidates[c].metric

BaseAllocationComplete ==
    /\ Cardinality(OfClass("frozen_control")) = FrozenControls
    /\ Cardinality(OfClass("preregistered_patent")) = Preregistered

(***************************************************************************)
(* Generation                                                              *)
(***************************************************************************)

\* MUTANT of RegisterBase: the allocation of a class is not a limit.
RegisterBaseNoAllocation(c, class) ==
    /\ state = "candidate_generation"
    /\ c \notin Registered
    /\ Cardinality(Registered) < MaxTotal
    /\ Adaptive = {}
    /\ candidates' = [candidates EXCEPT ![c] = Generated(class, 0)]
    /\ UNCHANGED <<state, commitment, reproduction, search, builds, stopReason, selection>>

\* register_candidate of a frozen control or a preregistered candidate.
RegisterBase(c, class) ==
    /\ state = "candidate_generation"
    /\ c \notin Registered
    /\ Cardinality(Registered) < MaxTotal
    /\ Adaptive = {}
    /\ Cardinality(OfClass(class)) < IF class = "frozen_control" THEN FrozenControls
                                                                 ELSE Preregistered
    /\ candidates' = [candidates EXCEPT ![c] = Generated(class, 0)]
    /\ UNCHANGED <<state, commitment, reproduction, search, builds, stopReason, selection>>

\* register_candidate of an adaptive candidate for iteration i: it joins the
\* open iteration, or opens the one that follows the completed ones.
RegisterAdaptive(c, i) ==
    LET open == {candidates[a].iteration : a \in Adaptive} \ 1..completed
    IN  /\ state = "candidate_generation"
        /\ c \notin Registered
        /\ Cardinality(Registered) < MaxTotal
        /\ Cardinality(Adaptive) < MaxAdaptive
        /\ BaseAllocationComplete
        /\ i > completed
        /\ IF open = {} THEN i = completed + 1
                        ELSE i \in open /\ \A j \in open : j <= i
        /\ Cardinality(Members(i)) < IterationSize
        /\ candidates' = [candidates EXCEPT ![c] = Generated("adaptive_autoindex", i)]
        /\ UNCHANGED <<state, commitment, reproduction, search, builds, stopReason, selection>>

\* MUTANT of CommitBaselineExpectation: outcomes may already be known.
CommitAnyTime(c, v) ==
    /\ state = "candidate_generation"
    /\ BaseAllocationComplete
    /\ c \in OfClass("frozen_control")
    /\ commitment' = [baseline |-> c, expected |-> v]
    /\ UNCHANGED <<state, candidates, reproduction, search, builds, stopReason, selection>>

CommitBaselineExpectation(c, v) ==
    /\ state = "candidate_generation"
    /\ WithStatus("generated") = Registered
    /\ commitment = None
    /\ BaseAllocationComplete
    /\ c \in OfClass("frozen_control")
    /\ commitment' = [baseline |-> c, expected |-> v]
    /\ UNCHANGED <<state, candidates, reproduction, search, builds, stopReason, selection>>

(***************************************************************************)
(* Train outcomes                                                          *)
(***************************************************************************)

\* What record_train requires before it touches the object.
TrainOutcomeAllowed(c) ==
    /\ state \in {"candidate_generation", "train_evaluation"}
    /\ c \in Registered
    /\ commitment # None
    /\ state = "candidate_generation" =>
          IF c \in Adaptive THEN candidates[c].iteration > completed
                            ELSE BaseAllocationComplete
    /\ candidates[c].status = "generated"

\* A row with its outcome: a metric, or a failure when v is None.
WithOutcome(row, v, n) ==
    [row EXCEPT !.status = IF v = None THEN "failed" ELSE "train_complete",
                !.metric = v,
                !.builds = n]

\* MUTANT of RecordTrain: a recorded outcome can be recorded again.
RecordTrainAgain(c, v, n) ==
    /\ state \in {"candidate_generation", "train_evaluation"}
    /\ c \in Registered
    /\ commitment # None
    /\ builds' = builds + n
    /\ IF builds + n <= MaxBuilds
         THEN candidates' = [candidates EXCEPT ![c] = WithOutcome(@, v, n)]
         ELSE builds <= MaxBuilds /\ UNCHANGED candidates
    /\ UNCHANGED <<state, commitment, reproduction, search, stopReason, selection>>

\* MUTANT of RecordTrain: the outcome is written before the budget is checked.
RecordTrainThenCheck(c, v, n) ==
    /\ TrainOutcomeAllowed(c)
    /\ builds' = builds + n
    /\ builds <= MaxBuilds
    /\ candidates' = [candidates EXCEPT ![c] = WithOutcome(@, v, n)]
    /\ UNCHANGED <<state, commitment, reproduction, search, stopReason, selection>>

\* MUTANT of RecordTrain: the row gets the running total of the builds.
RecordTrainTotal(c, v, n) ==
    /\ TrainOutcomeAllowed(c)
    /\ builds' = builds + n
    /\ builds + n <= MaxBuilds
    /\ candidates' = [candidates EXCEPT ![c] = WithOutcome(@, v, builds')]
    /\ UNCHANGED <<state, commitment, reproduction, search, stopReason, selection>>

\* record_train, with a metric (its value v) or a failure.  The counter is
\* raised before it is compared with the limit: a call over the limit raises,
\* keeps the outcome out and leaves the counter raised.  BOUND: only the first
\* such call is taken.
RecordTrain(c, v, n) ==
    /\ TrainOutcomeAllowed(c)
    /\ builds' = builds + n
    /\ IF builds + n <= MaxBuilds
         THEN candidates' = [candidates EXCEPT ![c] = WithOutcome(@, v, n)]
         ELSE builds <= MaxBuilds /\ UNCHANGED candidates
    /\ UNCHANGED <<state, commitment, reproduction, search, stopReason, selection>>

\* MUTANT of RecordIteration: an iteration that equals the best one counts as
\* an improvement.
RecordIterationTies(i) ==
    /\ state = "candidate_generation"
    /\ i = completed + 1
    /\ Cardinality(Members(i)) = IterationSize
    /\ Members(i) \subseteq WithStatus("train_complete")
    /\ completed' = i
    /\ iterated' = iterated \cup Members(i)
    /\ \E value \in {MetricOf(c) : c \in Members(i)} :
          /\ \A c \in Members(i) : MetricOf(c) <= value
          /\ IF best = None \/ value >= best
               THEN best' = value /\ streak' = 0
               ELSE best' = best /\ streak' = streak + 1
    /\ early' = (i >= MinIterations /\ streak' >= Patience)
    /\ UNCHANGED <<state, candidates, commitment, reproduction, builds, stopReason, selection>>

\* record_iteration: the best of its outcomes either improves on the earlier
\* iterations or lengthens the streak.
RecordIteration(i) ==
    /\ state = "candidate_generation"
    /\ i = completed + 1
    /\ Cardinality(Members(i)) = IterationSize
    /\ Members(i) \subseteq WithStatus("train_complete")
    /\ completed' = i
    /\ iterated' = iterated \cup Members(i)
    /\ \E value \in {MetricOf(c) : c \in Members(i)} :
          /\ \A c \in Members(i) : MetricOf(c) <= value
          /\ IF best = None \/ value > best
               THEN best' = value /\ streak' = 0
               ELSE best' = best /\ streak' = streak + 1
    /\ early' = (i >= MinIterations /\ streak' >= Patience)
    /\ UNCHANGED <<state, candidates, commitment, reproduction, builds, stopReason, selection>>

\* Once all iterations are used, any reason is taken, or none.
MayStop(reason) ==
    completed < MaxIterations => (reason = None /\ early) \/ reason \in StopReasons

\* MUTANT of FinishGeneration: an open iteration may be left behind.
FinishGenerationOpenIteration(reason) ==
    /\ state = "candidate_generation"
    /\ BaseAllocationComplete
    /\ MayStop(reason)
    /\ state' = "train_evaluation"
    /\ stopReason' = reason
    /\ UNCHANGED <<candidates, commitment, reproduction, search, builds, selection>>

\* finish_generation_with_reason.  A failed adaptive candidate is in no
\* completed iteration, so that the branch of the code that blocks the run on
\* one is never reached: the call before it refuses.
FinishGeneration(reason) ==
    /\ state = "candidate_generation"
    /\ BaseAllocationComplete
    /\ Adaptive = iterated
    /\ MayStop(reason)
    /\ IF Adaptive \cap WithStatus("failed") # {}
         THEN state' = "blocked" /\ UNCHANGED stopReason
         ELSE state' = "train_evaluation" /\ stopReason' = reason
    /\ UNCHANGED <<candidates, commitment, reproduction, search, builds, selection>>

\* record_baseline_reproduction, given the train metric of the baseline.
RecordBaselineReproduction ==
    /\ state \in {"candidate_generation", "train_evaluation"}
    /\ commitment # None
    /\ reproduction = "pending"
    /\ LET b == commitment.baseline
           distance == MetricOf(b) - commitment.expected
       IN  /\ candidates[b].status = "train_complete"
           /\ IF -Tolerance <= distance /\ distance <= Tolerance
                THEN reproduction' = "passed" /\ UNCHANGED state
                ELSE reproduction' = "failed" /\ state' = "blocked"
    /\ UNCHANGED <<candidates, commitment, search, builds, stopReason, selection>>

\* MUTANT of FinishTrain: failed candidates are only left out of the shortlist.
FinishTrainIgnoresFailures ==
    /\ state = "train_evaluation"
    /\ WithStatus("generated") = {}
    /\ state' = IF reproduction # "passed" THEN "blocked" ELSE "shortlist"
    /\ UNCHANGED <<candidates, commitment, reproduction, search, builds, stopReason, selection>>

FinishTrain ==
    /\ state = "train_evaluation"
    /\ WithStatus("generated") = {}
    /\ state' = IF WithStatus("failed") # {} \/ reproduction # "passed"
                  THEN "blocked" ELSE "shortlist"
    /\ UNCHANGED <<candidates, commitment, reproduction, search, builds, stopReason, selection>>

(***************************************************************************)
(* Shortlist, freeze and selection                                         *)
(***************************************************************************)

\* The candidates strictly better than the baseline, and those among them that
\* no other equals: a tie rejects the whole group.
Eligible == {c \in WithStatus("train_complete") :
                MetricOf(c) > MetricOf(commitment.baseline)}
Untied == {c \in Eligible : \A d \in Eligible : MetricOf(d) = MetricOf(c) => d = c}

\* MUTANT of Finalists: one member of a tied group is kept.
FinalistsKeepOneTied ==
    LET kept == {c \in Eligible : c = CHOOSE d \in Eligible : MetricOf(d) = MetricOf(c)}
    IN  {c \in kept : Cardinality({d \in kept : MetricOf(d) > MetricOf(c)}) < MaxFinalists}

Finalists ==
    {c \in Untied : Cardinality({d \in Untied : MetricOf(d) > MetricOf(c)}) < MaxFinalists}

BuildShortlist ==
    /\ state = "shortlist"
    /\ shortlist' = Finalists
    /\ candidates' = [c \in CandidateIds |->
          IF c \in Eligible
            THEN [candidates[c] EXCEPT !.status = IF c \in Finalists THEN "frozen" ELSE "rejected"]
            ELSE candidates[c]]
    /\ state' = "shortlist_ready"
    /\ UNCHANGED <<commitment, reproduction, search, builds, stopReason,
                   freezeReceipt, exposures, selected>>

FreezeShortlist ==
    /\ state = "shortlist_ready"
    /\ ~freezeReceipt
    /\ reproduction = "passed"
    /\ commitment # None
    /\ freezeReceipt' = TRUE
    /\ state' = "frozen"
    /\ UNCHANGED <<candidates, commitment, reproduction, search, builds, stopReason,
                   shortlist, exposures, selected>>

\* open_selection: an empty shortlist closes the run without an exposure.
OpenSelection ==
    /\ state = "frozen"
    /\ exposures = 0
    /\ IF shortlist = {}
         THEN state' = "closed" /\ UNCHANGED exposures
         ELSE state' = "selection_exposed" /\ exposures' = 1
    /\ UNCHANGED <<candidates, commitment, reproduction, search, builds, stopReason,
                   shortlist, freezeReceipt, selected>>

RecordSelection(c) ==
    /\ state = "selection_exposed"
    /\ c \in shortlist \ selected
    /\ selected' = selected \cup {c}
    /\ UNCHANGED <<state, candidates, commitment, reproduction, search, builds, stopReason,
                   shortlist, freezeReceipt, exposures>>

\* MUTANT of Close: one finalist's aggregate is enough.
CloseEarly ==
    /\ state = "selection_exposed"
    /\ selected # {}
    /\ state' = "closed"
    /\ UNCHANGED <<candidates, commitment, reproduction, search, builds, stopReason, selection>>

Close ==
    /\ state = "selection_exposed"
    /\ selected = shortlist
    /\ state' = "closed"
    /\ UNCHANGED <<candidates, commitment, reproduction, search, builds, stopReason, selection>>

Next ==
    \/ \E c \in CandidateIds, class \in {"frozen_control", "preregistered_patent"} :
          RegisterBase(c, class)
    \/ \E c \in CandidateIds, i \in 1..MaxIterations : RegisterAdaptive(c, i)
    \/ \E c \in CandidateIds : RecordSelection(c)
    \/ \E c \in CandidateIds, v \in Values : CommitBaselineExpectation(c, v)
    \/ \E c \in CandidateIds, v \in Values \cup {None}, n \in BuildCounts : RecordTrain(c, v, n)
    \/ \E i \in 1..MaxIterations : RecordIteration(i)
    \/ \E reason \in Reasons \cup {None} : FinishGeneration(reason)
    \/ RecordBaselineReproduction \/ FinishTrain \/ BuildShortlist \/ FreezeShortlist
    \/ OpenSelection \/ Close

Spec == Init /\ [][Next]_vars

-----------------------------------------------------------------------------
(***************************************************************************)
(* Properties                                                              *)
(***************************************************************************)

\* Every finalist strictly beats the baseline that reproduced, no two finalists
\* are equal, there are at most MaxFinalists, and a candidate that beats a
\* finalist without being one is tied with another candidate.
ShortlistSound ==
    /\ shortlist # {} => reproduction = "passed"
    /\ Cardinality(shortlist) <= MaxFinalists
    /\ \A c \in shortlist :
          /\ MetricOf(c) > MetricOf(commitment.baseline)
          /\ \A d \in Registered \ {c} :
                /\ MetricOf(d) # MetricOf(c)
                /\ MetricOf(d) > MetricOf(c) /\ d \notin shortlist =>
                      \E e \in Registered \ {d} : MetricOf(e) = MetricOf(d)

\* A run in which any candidate failed, or whose baseline did not reproduce,
\* never gets past train evaluation: no shortlist, no freeze, no exposure.
FailureStopsTheRun ==
    WithStatus("failed") # {} \/ reproduction = "failed" =>
        state \in {"candidate_generation", "train_evaluation", "blocked"}

\* Every candidate that reaches a shortlist decision was measured in an
\* iteration that was completed, or is one of the base candidates.
NoOpenIterationLeft ==
    state \notin {"candidate_generation", "blocked"} =>
        \A c \in Adaptive : candidates[c].iteration <= completed
                            /\ Cardinality(Members(candidates[c].iteration)) = IterationSize

\* The index builds of the recorded outcomes: <<c, k>> is the k-th of c.
RecordedBuilds == UNION {{c} \X (1..candidates[c].builds) : c \in Registered}

\* The builds of the recorded outcomes stay inside the budget, although a
\* refused outcome raises the counter.
RecordedBuildsInBudget == Cardinality(RecordedBuilds) <= MaxBuilds

\* The counters that allow an early stop agree with the outcomes they were
\* derived from: at least MinIterations iterations, the last Patience of which
\* did not improve on the best of those before them.
EarlyStopMatchesHistory ==
    LET bestOf(is) == Max({MetricOf(c) : c \in UNION {Members(i) : i \in is}})
    IN  early <=> /\ completed >= MinIterations
                  /\ completed > Patience
                  /\ bestOf(1..completed) = bestOf(1..(completed - Patience))

\* A closed run has exactly one aggregate for each finalist, and opened the
\* selection split only when there was one.
ClosedIsComplete ==
    state = "closed" => /\ selected = shortlist
                        /\ exposures = IF shortlist = {} THEN 0 ELSE 1
                        /\ freezeReceipt

\* The base candidates are fixed from the commitment on: none can be added once
\* an outcome may be known.
BaseFixedByCommitment ==
    [][commitment # None => Registered' \ Adaptive' = Registered \ Adaptive]_vars

\* The run keeps the freeze barrier: see FreezeBarrier.  An outcome is a set: {}
\* before it is recorded, {None} for a failure, {v} for the metric v.
TrainOutcome(c) ==
    IF candidates[c].status \in {"absent", "generated"} THEN {} ELSE {MetricOf(c)}

Barrier == INSTANCE FreezeBarrier WITH
    Outcomes <- {{v} : v \in Values \cup {None}},
    NoOutcome <- {},
    Expectations <- [baseline: CandidateIds, expected: Values],
    NoExpectation <- None,
    expectation <- commitment,
    outcome <- [c \in CandidateIds |-> TrainOutcome(c)],
    frozen <- freezeReceipt,
    finalists <- IF freezeReceipt THEN shortlist ELSE {},
    revealed <- selected

BarrierSpec == Barrier!Spec

=============================================================================
