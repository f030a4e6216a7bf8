------------------------ MODULE P2StateMachineProofs ------------------------
(***************************************************************************)
(* Proofs about P2StateMachine, for every set of candidates and values and *)
(* every budget.                                                           *)
(***************************************************************************)
EXTENDS P2StateMachine, TLAPS

(***************************************************************************)
(* Type correctness.                                                       *)
(***************************************************************************)

\* A measured candidate has a metric; without it the best metric of an
\* iteration need not be a value.
MetricsRecorded ==
    \A c \in CandidateIds :
        candidates[c].status \in {"train_complete", "frozen", "rejected"} =>
            candidates[c].metric \in Values

TypeInv == TypeOK /\ MetricsRecorded

\* The row of a newly registered candidate.
LEMMA NewRow ==
    ASSUME NEW class \in Classes, NEW i \in 0..MaxIterations
    PROVE  Generated(class, i) \in Row /\ Generated(class, i).status = "generated"
BY DEF Generated, Row, Statuses

\* A row with its train outcome.
LEMMA OutcomeRow ==
    ASSUME NEW r \in Row, NEW v \in Values \cup {None}, NEW n \in BuildCounts
    PROVE  /\ WithOutcome(r, v, n) \in Row
           /\ WithOutcome(r, v, n).status = IF v = None THEN "failed" ELSE "train_complete"
           /\ WithOutcome(r, v, n).metric = v
           /\ WithOutcome(r, v, n).class = r.class
           /\ WithOutcome(r, v, n).iteration = r.iteration
BY DEF WithOutcome, Row, Statuses

LEMMA TypeInit == Init => TypeInv
<1> SUFFICES ASSUME Init
             PROVE  TypeInv
  OBVIOUS
<1>1. Absent \in Row
  BY LimitsAreNumbers DEF Absent, Row, Statuses
<1>2. 0 \in 0..MaxIterations
  BY LimitsAreNumbers
<1>3. TypeOK
  <2>1. candidates \in [CandidateIds -> Row]
    BY <1>1 DEF Init
  <2>2. /\ state \in States
        /\ commitment \in [baseline: CandidateIds, expected: Values] \cup {None}
        /\ reproduction \in {"pending", "passed", "failed"}
        /\ best \in Values \cup {None}
        /\ stopReason \in Reasons \cup {None}
    BY DEF Init, States
  <2>3. /\ completed \in 0..MaxIterations
        /\ streak \in Nat
        /\ builds \in Nat
        /\ exposures \in 0..1
    BY <1>2 DEF Init
  <2>4. /\ early \in BOOLEAN /\ freezeReceipt \in BOOLEAN
        /\ iterated \subseteq CandidateIds
        /\ shortlist \subseteq CandidateIds
        /\ selected \subseteq CandidateIds
    BY DEF Init
  <2> QED
    BY <2>1, <2>2, <2>3, <2>4 DEF TypeOK
<1>4. MetricsRecorded
  BY DEF Init, MetricsRecorded, Absent
<1> QED
  BY <1>3, <1>4 DEF TypeInv

\* A step that leaves the candidates alone and keeps everything else typed.
LEMMA TypeKeep ==
    ASSUME TypeInv, UNCHANGED candidates,
           state' \in States,
           commitment' \in [baseline: CandidateIds, expected: Values] \cup {None},
           reproduction' \in {"pending", "passed", "failed"},
           builds' \in Nat,
           stopReason' \in Reasons \cup {None},
           shortlist' \subseteq CandidateIds,
           freezeReceipt' \in BOOLEAN,
           exposures' \in 0..1,
           selected' \subseteq CandidateIds,
           UNCHANGED search
    PROVE  TypeInv'
BY DEF TypeInv, TypeOK, MetricsRecorded, search

LEMMA TypeNext == TypeInv /\ [Next]_vars => TypeInv'
<1> SUFFICES ASSUME TypeInv, [Next]_vars
             PROVE  TypeInv'
  OBVIOUS
<1> USE DEF TypeInv, TypeOK
<1>0. ASSUME NEW c \in CandidateIds, NEW class \in Classes, NEW i \in 0..MaxIterations,
             candidates' = [candidates EXCEPT ![c] = Generated(class, i)],
             UNCHANGED <<state, commitment, reproduction, search, builds, stopReason, selection>>
      PROVE  TypeInv'
  BY <1>0, NewRow DEF MetricsRecorded, search, selection
<1>1. ASSUME NEW c \in CandidateIds, NEW class \in {"frozen_control", "preregistered_patent"},
             RegisterBase(c, class)
      PROVE  TypeInv'
  <2>1. class \in Classes /\ 0 \in 0..MaxIterations
    BY LimitsAreNumbers DEF Classes
  <2> QED
    BY <1>0, <1>1, <2>1 DEF RegisterBase
<1>2. ASSUME NEW c \in CandidateIds, NEW i \in 1..MaxIterations, RegisterAdaptive(c, i)
      PROVE  TypeInv'
  <2>1. "adaptive_autoindex" \in Classes /\ i \in 0..MaxIterations
    BY DEF Classes
  <2> QED
    BY <1>0, <1>2, <2>1 DEF RegisterAdaptive
<1>3. ASSUME NEW c \in CandidateIds, NEW v \in Values, CommitBaselineExpectation(c, v)
      PROVE  TypeInv'
  BY <1>3, TypeKeep DEF CommitBaselineExpectation, selection
<1>4. ASSUME NEW c \in CandidateIds, NEW v \in Values \cup {None}, NEW n \in BuildCounts,
             RecordTrain(c, v, n)
      PROVE  TypeInv'
  <2>1. builds' = builds + n /\ n \in Nat
        /\ UNCHANGED <<state, commitment, reproduction, search, stopReason, selection>>
    BY <1>4, BuildsAreNumbers DEF RecordTrain
  <2>2. CASE builds + n <= MaxBuilds
    <3>1. candidates' = [candidates EXCEPT ![c] = WithOutcome(candidates[c], v, n)]
      BY <1>4, <2>2 DEF RecordTrain
    <3>2. /\ WithOutcome(candidates[c], v, n) \in Row
          /\ WithOutcome(candidates[c], v, n).status \in {"failed", "train_complete"}
          /\ WithOutcome(candidates[c], v, n).status = "train_complete"
               => WithOutcome(candidates[c], v, n).metric \in Values
      BY OutcomeRow, ValuesAreNumbers
    <3> QED
      BY <2>1, <3>1, <3>2 DEF MetricsRecorded, search, selection
  <2>3. CASE ~(builds + n <= MaxBuilds)
    BY <1>4, <2>1, <2>3, TypeKeep DEF RecordTrain, selection
  <2> QED
    BY <2>2, <2>3
<1>5. ASSUME NEW i \in 1..MaxIterations, RecordIteration(i)
      PROVE  TypeInv'
  <2>1. PICK value \in {MetricOf(c) : c \in Members(i)} :
          IF best = None \/ value > best
            THEN best' = value /\ streak' = 0
            ELSE best' = best /\ streak' = streak + 1
    BY <1>5 DEF RecordIteration
  <2>2. value \in Values
    BY <1>5 DEF RecordIteration, MetricsRecorded, MetricOf, Members, Adaptive, OfClass,
                Registered, WithStatus
  <2>3. best' \in Values \cup {None} /\ streak' \in Nat
    BY <2>1, <2>2
  <2>4. iterated' \subseteq CandidateIds
    BY <1>5 DEF RecordIteration, Members, Adaptive, OfClass, Registered
  <2>5. completed' \in 0..MaxIterations /\ early' \in BOOLEAN
    BY <1>5, LimitsAreNumbers DEF RecordIteration
  <2> QED
    BY <1>5, <2>3, <2>4, <2>5 DEF RecordIteration, MetricsRecorded, selection
<1>6. ASSUME NEW reason \in Reasons \cup {None}, FinishGeneration(reason)
      PROVE  TypeInv'
  <2>1. state' \in States /\ stopReason' \in Reasons \cup {None}
    <3>1. CASE Adaptive \cap WithStatus("failed") # {}
      BY <1>6, <3>1 DEF FinishGeneration, States
    <3>2. CASE Adaptive \cap WithStatus("failed") = {}
      BY <1>6, <3>2 DEF FinishGeneration, States
    <3> QED
      BY <3>1, <3>2
  <2> QED
    BY <1>6, <2>1, TypeKeep DEF FinishGeneration, selection
<1>7. CASE RecordBaselineReproduction
  <2>1. state' \in States /\ reproduction' \in {"pending", "passed", "failed"}
    BY <1>7 DEF RecordBaselineReproduction, States
  <2> QED
    BY <1>7, <2>1, TypeKeep DEF RecordBaselineReproduction, selection
<1>8. CASE FinishTrain
  <2>1. state' \in States
    BY <1>8 DEF FinishTrain, States
  <2> QED
    BY <1>8, <2>1, TypeKeep DEF FinishTrain, selection
<1>9. CASE BuildShortlist
  <2>1. Finalists \subseteq Eligible /\ Eligible \subseteq CandidateIds
    BY DEF Finalists, Untied, Eligible, WithStatus, Registered
  <2>2. \A c \in CandidateIds :
           /\ candidates'[c] = IF c \in Eligible
                THEN [candidates[c] EXCEPT !.status = IF c \in Finalists THEN "frozen" ELSE "rejected"]
                ELSE candidates[c]
           /\ candidates'[c] \in Row
           /\ candidates'[c].metric = candidates[c].metric
           /\ c \in Eligible => candidates[c].status = "train_complete"
    BY <1>9 DEF BuildShortlist, Row, Statuses, Eligible, WithStatus, Registered
  <2>3. candidates' \in [CandidateIds -> Row]
    BY <1>9, <2>2 DEF BuildShortlist
  <2>4. MetricsRecorded'
    BY <2>2 DEF MetricsRecorded
  <2> QED
    BY <1>9, <2>1, <2>3, <2>4 DEF BuildShortlist, search, States
<1>10. CASE FreezeShortlist
  BY <1>10, TypeKeep DEF FreezeShortlist, States
<1>11. CASE OpenSelection
  <2>1. state' \in States /\ exposures' \in 0..1
    BY <1>11 DEF OpenSelection, States
  <2> QED
    BY <1>11, <2>1, TypeKeep DEF OpenSelection
<1>12. ASSUME NEW c \in CandidateIds, RecordSelection(c)
       PROVE  TypeInv'
  BY <1>12, TypeKeep DEF RecordSelection
<1>13. CASE Close
  BY <1>13, TypeKeep DEF Close, States, selection
<1>14. CASE UNCHANGED vars
  BY <1>14, TypeKeep DEF vars, selection
<1> QED
  BY <1>1, <1>2, <1>3, <1>4, <1>5, <1>6, <1>7, <1>8, <1>9, <1>10, <1>11, <1>12, <1>13, <1>14
     DEF Next

\* Every reachable state of the machine is well typed.
THEOREM TypeCorrect == Spec => []TypeOK
<1>1. TypeInv => TypeOK
  BY DEF TypeInv
<1> QED
  BY TypeInit, TypeNext, <1>1, PTL DEF Spec

-----------------------------------------------------------------------------
(***************************************************************************)
(* The lifecycle: what each state says about the failures, the shortlist,  *)
(* the freeze and the exposure.                                            *)
(***************************************************************************)

HasOutcome(c) == candidates[c].status \notin {"absent", "generated"}

LifecycleInv ==
    /\ \A c \in CandidateIds : HasOutcome(c) => commitment # None
    /\ \A c \in shortlist : HasOutcome(c)
    /\ freezeReceipt <=> state \in {"frozen", "selection_exposed", "closed"}
    /\ state \notin {"candidate_generation", "train_evaluation", "blocked"} => reproduction = "passed"
    /\ reproduction # "pending" => commitment # None
    /\ state \in {"selection_exposed", "closed"} \/ (selected = {} /\ exposures = 0)
    /\ state = "selection_exposed" => shortlist # {} /\ exposures = 1
    /\ selected \subseteq shortlist
    /\ FailureStopsTheRun
    /\ ClosedIsComplete

LEMMA LifecycleInit == Init => LifecycleInv
<1> SUFFICES ASSUME Init
             PROVE  LifecycleInv
  OBVIOUS
<1>1. \A c \in CandidateIds : ~HasOutcome(c)
  BY DEF Init, HasOutcome, Absent
<1> QED
  BY <1>1 DEF Init, LifecycleInv, FailureStopsTheRun, ClosedIsComplete

\* A step that leaves the candidates and the selection alone keeps the
\* invariant when the new state is justified.
LEMMA LifecycleKeep ==
    ASSUME LifecycleInv, UNCHANGED <<candidates, selection>>,
           commitment # None => commitment' # None,
           state' \in {"candidate_generation", "train_evaluation", "shortlist", "blocked"},
           state \in {"candidate_generation", "train_evaluation"},
           reproduction' # "pending" => commitment' # None,
           state' = "shortlist" => reproduction' = "passed" /\ WithStatus("failed") = {}
    PROVE  LifecycleInv'
BY DEF LifecycleInv, HasOutcome, FailureStopsTheRun, ClosedIsComplete, WithStatus, Registered,
       selection

LEMMA LifecycleNext == TypeInv /\ LifecycleInv /\ [Next]_vars => LifecycleInv'
<1> SUFFICES ASSUME TypeInv, LifecycleInv, [Next]_vars
             PROVE  LifecycleInv'
  OBVIOUS
<1>0. ASSUME NEW c \in CandidateIds, NEW class, NEW i,
             state = "candidate_generation", c \notin Registered,
             candidates' = [candidates EXCEPT ![c] = Generated(class, i)],
             UNCHANGED <<state, commitment, reproduction, selection>>
      PROVE  LifecycleInv'
  <2>1. /\ \A d \in CandidateIds \ {c} : candidates'[d] = candidates[d]
        /\ candidates'[c].status = "generated"
    BY <1>0 DEF TypeInv, TypeOK, Generated
  <2>2. c \notin shortlist
    BY <1>0 DEF LifecycleInv, HasOutcome, Registered
  <2>3. \A d \in shortlist : d \in CandidateIds
    BY DEF TypeInv, TypeOK
  <2> QED
    BY <1>0, <2>1, <2>2, <2>3
       DEF LifecycleInv, HasOutcome, FailureStopsTheRun, ClosedIsComplete, selection
<1>1. ASSUME NEW c \in CandidateIds, NEW class \in {"frozen_control", "preregistered_patent"},
             RegisterBase(c, class)
      PROVE  LifecycleInv'
  BY <1>0, <1>1 DEF RegisterBase
<1>2. ASSUME NEW c \in CandidateIds, NEW i \in 1..MaxIterations, RegisterAdaptive(c, i)
      PROVE  LifecycleInv'
  BY <1>0, <1>2 DEF RegisterAdaptive
<1>3. ASSUME NEW c \in CandidateIds, NEW v \in Values, CommitBaselineExpectation(c, v)
      PROVE  LifecycleInv'
  <2>1. commitment' # None
    BY <1>3, NoneIsNoCommitment DEF CommitBaselineExpectation
  <2> QED
    BY <1>3, <2>1, LifecycleKeep DEF CommitBaselineExpectation, selection
<1>4. ASSUME NEW c \in CandidateIds, NEW v \in Values \cup {None}, NEW n \in BuildCounts,
             RecordTrain(c, v, n)
      PROVE  LifecycleInv'
  <2>1. /\ state \in {"candidate_generation", "train_evaluation"}
        /\ commitment # None
        /\ UNCHANGED <<state, commitment, reproduction, selection>>
    BY <1>4 DEF RecordTrain, TrainOutcomeAllowed
  <2>2. \A d \in CandidateIds : HasOutcome(d) => HasOutcome(d)'
    <3>1. CASE builds + n <= MaxBuilds
      <4>1. candidates' = [candidates EXCEPT ![c] = WithOutcome(candidates[c], v, n)]
        BY <1>4, <3>1 DEF RecordTrain
      <4>2. WithOutcome(candidates[c], v, n).status \in {"failed", "train_complete"}
        BY OutcomeRow DEF TypeInv, TypeOK
      <4> QED
        BY <4>1, <4>2 DEF HasOutcome, TypeInv, TypeOK
    <3>2. CASE ~(builds + n <= MaxBuilds)
      BY <1>4, <3>2 DEF RecordTrain, HasOutcome
    <3> QED
      BY <3>1, <3>2
  <2>3. \A d \in shortlist : d \in CandidateIds
    BY DEF TypeInv, TypeOK
  <2> QED
    BY <2>1, <2>2, <2>3 DEF LifecycleInv, FailureStopsTheRun, ClosedIsComplete, selection
<1>5. ASSUME NEW i \in 1..MaxIterations, RecordIteration(i)
      PROVE  LifecycleInv'
  BY <1>5, LifecycleKeep DEF RecordIteration, LifecycleInv
<1>6. ASSUME NEW reason \in Reasons \cup {None}, FinishGeneration(reason)
      PROVE  LifecycleInv'
  BY <1>6, LifecycleKeep DEF FinishGeneration, LifecycleInv
<1>7. CASE RecordBaselineReproduction
  BY <1>7, LifecycleKeep DEF RecordBaselineReproduction, LifecycleInv
<1>8. CASE FinishTrain
  BY <1>8, LifecycleKeep DEF FinishTrain, LifecycleInv
<1>9. CASE BuildShortlist
  <2>1. Finalists \subseteq Eligible
    BY DEF Finalists, Untied
  <2>2. \A c \in CandidateIds :
           candidates'[c] = IF c \in Eligible
                THEN [candidates[c] EXCEPT !.status = IF c \in Finalists THEN "frozen" ELSE "rejected"]
                ELSE candidates[c]
    BY <1>9 DEF BuildShortlist
  <2>3. \A c \in CandidateIds :
           /\ c \in Eligible => HasOutcome(c) /\ HasOutcome(c)'
           /\ c \notin Eligible => candidates'[c] = candidates[c]
           /\ candidates'[c].status = "failed" => candidates[c].status = "failed"
    BY <2>2 DEF HasOutcome, Eligible, WithStatus, Registered, TypeInv, TypeOK, Row
  <2>4. \A c \in CandidateIds : HasOutcome(c)' => HasOutcome(c)
    BY <2>3 DEF HasOutcome
  <2>5. \A c \in shortlist' : c \in CandidateIds /\ HasOutcome(c)'
    BY <1>9, <2>1, <2>3 DEF BuildShortlist, Eligible, WithStatus, Registered
  <2>6. /\ state = "shortlist" /\ state' = "shortlist_ready"
        /\ UNCHANGED <<commitment, reproduction, freezeReceipt, exposures, selected>>
    BY <1>9 DEF BuildShortlist
  <2>7. reproduction = "passed" /\ WithStatus("failed") = {} /\ selected = {} /\ exposures = 0
    BY <2>6 DEF LifecycleInv, FailureStopsTheRun
  <2>8. WithStatus("failed")' = {}
    BY <2>3, <2>7 DEF WithStatus, Registered
  <2> QED
    BY <2>4, <2>5, <2>6, <2>7, <2>8 DEF LifecycleInv, FailureStopsTheRun, ClosedIsComplete
<1>10. CASE FreezeShortlist
  BY <1>10 DEF FreezeShortlist, LifecycleInv, HasOutcome, FailureStopsTheRun, ClosedIsComplete,
               WithStatus, Registered
<1>11. CASE OpenSelection
  <2>1. CASE shortlist = {}
    BY <1>11, <2>1 DEF OpenSelection, LifecycleInv, HasOutcome, FailureStopsTheRun,
                       ClosedIsComplete, WithStatus, Registered
  <2>2. CASE shortlist # {}
    BY <1>11, <2>2 DEF OpenSelection, LifecycleInv, HasOutcome, FailureStopsTheRun,
                       ClosedIsComplete, WithStatus, Registered
  <2> QED
    BY <2>1, <2>2
<1>12. ASSUME NEW c \in CandidateIds, RecordSelection(c)
       PROVE  LifecycleInv'
  BY <1>12 DEF RecordSelection, LifecycleInv, HasOutcome, FailureStopsTheRun,
               ClosedIsComplete, WithStatus, Registered
<1>13. CASE Close
  BY <1>13 DEF Close, LifecycleInv, HasOutcome, FailureStopsTheRun,
               ClosedIsComplete, WithStatus, Registered, selection
<1>14. CASE UNCHANGED vars
  BY <1>14 DEF vars, LifecycleInv, HasOutcome, FailureStopsTheRun,
               ClosedIsComplete, WithStatus, Registered, selection
<1> QED
  BY <1>1, <1>2, <1>3, <1>4, <1>5, <1>6, <1>7, <1>8, <1>9, <1>10, <1>11, <1>12, <1>13, <1>14
     DEF Next

LEMMA LifecycleSound == LifecycleInv => FailureStopsTheRun /\ ClosedIsComplete
BY DEF LifecycleInv

\* A failed candidate or a baseline that does not reproduce keeps the run from
\* ever having a shortlist.
THEOREM FailureIsFinal == Spec => []FailureStopsTheRun
BY TypeInit, TypeNext, LifecycleInit, LifecycleNext, LifecycleSound, PTL DEF Spec

\* A closed run is complete.
THEOREM ClosedRunComplete == Spec => []ClosedIsComplete
BY TypeInit, TypeNext, LifecycleInit, LifecycleNext, LifecycleSound, PTL DEF Spec

-----------------------------------------------------------------------------
(***************************************************************************)
(* The freeze barrier.                                                     *)
(***************************************************************************)

LEMMA BarrierInit == Init => Barrier!Init
BY DEF Init, Barrier!Init, TrainOutcome, Absent

\* The outcomes as the barrier sees them stay when every candidate keeps its
\* status and metric, as far as TrainOutcome tells them apart.
Outcome == [c \in CandidateIds |-> TrainOutcome(c)]

LEMMA BarrierNext ==
    TypeInv /\ LifecycleInv /\ [Next]_vars => [Barrier!Next]_(Barrier!vars)
<1> SUFFICES ASSUME TypeInv, LifecycleInv, [Next]_vars
             PROVE  [Barrier!Next]_(Barrier!vars)
  OBVIOUS
<1>0. ASSUME UNCHANGED <<commitment, freezeReceipt, exposures, selected>>,
             UNCHANGED Outcome,
             UNCHANGED shortlist \/ (~freezeReceipt /\ ~freezeReceipt')
      PROVE  UNCHANGED Barrier!vars
  BY <1>0 DEF Barrier!vars, Outcome
<1>01. UNCHANGED candidates => UNCHANGED Outcome
  BY DEF Outcome, TrainOutcome, MetricOf
<1>02. ASSUME NEW c \in CandidateIds, NEW class, NEW i, c \notin Registered,
              candidates' = [candidates EXCEPT ![c] = Generated(class, i)]
       PROVE  UNCHANGED Outcome
  <2>1. \A d \in CandidateIds : TrainOutcome(d)' = TrainOutcome(d)
    BY <1>02 DEF TrainOutcome, MetricOf, Generated, Registered, TypeInv, TypeOK
  <2> QED
    BY <2>1 DEF Outcome
<1>1. ASSUME NEW c \in CandidateIds, NEW class \in {"frozen_control", "preregistered_patent"},
             RegisterBase(c, class)
      PROVE  UNCHANGED Barrier!vars
  BY <1>0, <1>02, <1>1 DEF RegisterBase, selection
<1>2. ASSUME NEW c \in CandidateIds, NEW i \in 1..MaxIterations, RegisterAdaptive(c, i)
      PROVE  UNCHANGED Barrier!vars
  BY <1>0, <1>02, <1>2 DEF RegisterAdaptive, selection
<1>3. ASSUME NEW c \in CandidateIds, NEW v \in Values, CommitBaselineExpectation(c, v)
      PROVE  Barrier!Commit
  <2>1. \A d \in CandidateIds : TrainOutcome(d) = {}
    BY <1>3 DEF CommitBaselineExpectation, WithStatus, Registered, TrainOutcome, TypeInv, TypeOK
  <2>2. UNCHANGED Outcome
    BY <1>3, <1>01 DEF CommitBaselineExpectation
  <2>3. Barrier!Measured = {}
    BY <2>1 DEF Barrier!Measured
  <2> QED
    BY <1>3, <2>2, <2>3 DEF CommitBaselineExpectation, Barrier!Commit, Outcome, selection
<1>4. ASSUME NEW c \in CandidateIds, NEW v \in Values \cup {None}, NEW n \in BuildCounts,
             RecordTrain(c, v, n)
      PROVE  Barrier!Measure(c) \/ UNCHANGED Barrier!vars
  <2>1. CASE builds + n <= MaxBuilds
    <3>1. candidates' = [candidates EXCEPT ![c] = WithOutcome(candidates[c], v, n)]
      BY <1>4, <2>1 DEF RecordTrain
    <3>2. /\ TrainOutcomeAllowed(c)
          /\ UNCHANGED <<commitment, selection>>
      BY <1>4 DEF RecordTrain
    <3>3. commitment # None /\ ~freezeReceipt /\ TrainOutcome(c) = {}
      BY <3>2 DEF TrainOutcomeAllowed, LifecycleInv, TrainOutcome
    <3>4. /\ WithOutcome(candidates[c], v, n).status \in {"failed", "train_complete"}
          /\ WithOutcome(candidates[c], v, n).metric = v
      BY OutcomeRow DEF TypeInv, TypeOK
    <3>5. \A d \in CandidateIds : TrainOutcome(d)' = IF d = c THEN {v} ELSE TrainOutcome(d)
      BY <3>1, <3>4 DEF TrainOutcome, MetricOf, TypeInv, TypeOK
    <3>6. Outcome' = [Outcome EXCEPT ![c] = {v}]
      BY <3>5 DEF Outcome
    <3>7. Outcome[c] = {}
      BY <3>3 DEF Outcome
    <3> QED
      BY <3>2, <3>3, <3>6, <3>7 DEF Barrier!Measure, Outcome, selection
  <2>2. CASE ~(builds + n <= MaxBuilds)
    BY <1>0, <1>01, <1>4, <2>2 DEF RecordTrain, selection
  <2> QED
    BY <2>1, <2>2
<1>5. ASSUME NEW i \in 1..MaxIterations, RecordIteration(i)
      PROVE  UNCHANGED Barrier!vars
  BY <1>0, <1>01, <1>5 DEF RecordIteration, selection
<1>6. ASSUME NEW reason \in Reasons \cup {None}, FinishGeneration(reason)
      PROVE  UNCHANGED Barrier!vars
  BY <1>0, <1>01, <1>6 DEF FinishGeneration, selection
<1>7. ASSUME RecordBaselineReproduction \/ FinishTrain \/ Close \/ UNCHANGED vars
      PROVE  UNCHANGED Barrier!vars
  BY <1>0, <1>01, <1>7 DEF RecordBaselineReproduction, FinishTrain, Close, vars, selection
<1>8. CASE BuildShortlist
  <2>1. \A c \in CandidateIds :
           candidates'[c] = IF c \in Eligible
                THEN [candidates[c] EXCEPT !.status = IF c \in Finalists THEN "frozen" ELSE "rejected"]
                ELSE candidates[c]
    BY <1>8 DEF BuildShortlist
  <2>2. \A c \in CandidateIds : TrainOutcome(c)' = TrainOutcome(c)
    BY <2>1 DEF TrainOutcome, MetricOf, Eligible, WithStatus, Registered, TypeInv, TypeOK, Row
  <2>3. UNCHANGED Outcome
    BY <2>2 DEF Outcome
  <2>4. ~freezeReceipt /\ ~freezeReceipt'
    BY <1>8 DEF BuildShortlist, LifecycleInv
  <2> QED
    BY <1>0, <1>8, <2>3, <2>4 DEF BuildShortlist
<1>9. CASE FreezeShortlist
  <2>1. UNCHANGED Outcome
    BY <1>9, <1>01 DEF FreezeShortlist
  <2>2. shortlist \subseteq Barrier!Measured
    BY DEF LifecycleInv, HasOutcome, Barrier!Measured, TrainOutcome, TypeInv, TypeOK
  <2>3. Barrier!Freeze
    BY <1>9, <2>1, <2>2 DEF FreezeShortlist, Barrier!Freeze, Outcome
  <2> QED
    BY <2>3 DEF Barrier!Next
<1>10. CASE OpenSelection
  <2>1. UNCHANGED Outcome
    BY <1>10, <1>01 DEF OpenSelection
  <2>2. CASE shortlist = {}
    BY <1>0, <1>10, <2>1, <2>2 DEF OpenSelection
  <2>3. CASE shortlist # {}
    <3>1. Barrier!Expose
      BY <1>10, <2>1, <2>3 DEF OpenSelection, LifecycleInv, Barrier!Expose, Outcome
    <3> QED
      BY <3>1 DEF Barrier!Next
  <2> QED
    BY <2>2, <2>3
<1>11. ASSUME NEW c \in CandidateIds, RecordSelection(c)
       PROVE  Barrier!Reveal(c)
  <2>1. UNCHANGED Outcome
    BY <1>11, <1>01 DEF RecordSelection
  <2> QED
    BY <1>11, <2>1 DEF RecordSelection, LifecycleInv, Barrier!Reveal, Outcome
<1> QED
  BY <1>1, <1>2, <1>3, <1>4, <1>5, <1>6, <1>7, <1>8, <1>9, <1>10, <1>11 DEF Next, Barrier!Next

\* The machine implements the freeze barrier.
THEOREM BarrierCorrect == Spec => BarrierSpec
BY TypeInit, TypeNext, LifecycleInit, LifecycleNext, BarrierInit, BarrierNext, PTL
   DEF Spec, BarrierSpec, Barrier!Spec

=============================================================================
