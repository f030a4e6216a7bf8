------------------------- MODULE P2ShortlistProofs -------------------------
(***************************************************************************)
(* What P2StateMachine promises of its generation and of its shortlist,    *)
(* for any candidates, metrics and budget: the base candidates are fixed   *)
(* by the commitment, no iteration is left open, the stop is justified,    *)
(* and the shortlist is the one that the rule of ties and ranks gives.     *)
(* Types and lifecycle are those of P2StateMachineProofs.                  *)
(***************************************************************************)
EXTENDS P2StateMachineProofs, FiniteSetTheorems

-----------------------------------------------------------------------------
(***************************************************************************)
(* Registration.  A step registers one candidate, or none and leaves the   *)
(* class and the iteration of each alone.                                  *)
(***************************************************************************)
Kept(c) ==
    /\ candidates'[c].class = candidates[c].class
    /\ candidates'[c].iteration = candidates[c].iteration
    /\ candidates'[c].status = "absent" <=> candidates[c].status = "absent"

LEMMA KeptSets ==
    ASSUME \A c \in CandidateIds : Kept(c)
    PROVE  /\ Registered' = Registered
           /\ \A class \in Classes : OfClass(class)' = OfClass(class)
           /\ Adaptive' = Adaptive
           /\ \A i \in Int : Members(i)' = Members(i)
<1>1. Registered' = Registered
  BY DEF Kept, Registered
<1>2. \A class \in Classes : OfClass(class)' = OfClass(class)
  BY <1>1 DEF Kept, OfClass, Registered
<1>3. Adaptive' = Adaptive
  BY <1>2 DEF Adaptive, Classes
<1>4. \A i \in Int : Members(i)' = Members(i)
  BY <1>3 DEF Kept, Members, Adaptive, OfClass, Registered
<1> QED
  BY <1>1, <1>2, <1>3, <1>4

LEMMA Entered ==
    ASSUME TypeInv, NEW c \in CandidateIds, c \notin Registered,
           NEW class \in Classes, NEW i \in 0..MaxIterations,
           candidates' = [candidates EXCEPT ![c] = Generated(class, i)]
    PROVE  /\ Registered' = Registered \cup {c}
           /\ \A k \in Classes : OfClass(k)' = IF k = class THEN OfClass(k) \cup {c} ELSE OfClass(k)
           /\ candidates'[c].iteration = i
           /\ \A d \in Registered : d # c /\ candidates'[d] = candidates[d]
<1>1. /\ candidates'[c].status = "generated"
      /\ candidates'[c].class = class
      /\ candidates'[c].iteration = i
      /\ \A d \in CandidateIds : d # c => candidates'[d] = candidates[d]
  BY DEF TypeInv, TypeOK, Generated
<1>2. Registered' = Registered \cup {c}
  BY <1>1 DEF Registered
<1>3. ASSUME NEW k \in Classes
      PROVE  OfClass(k)' = IF k = class THEN OfClass(k) \cup {c} ELSE OfClass(k)
  BY <1>1, <1>2 DEF OfClass, Registered
<1> QED
  BY <1>1, <1>2, <1>3 DEF Registered

LEMMA RecordTrainKept ==
    ASSUME TypeInv, NEW c \in CandidateIds, NEW v \in Values \cup {None}, NEW n \in BuildCounts,
           RecordTrain(c, v, n)
    PROVE  \A d \in CandidateIds : Kept(d)
<1>1. CASE builds + n <= MaxBuilds
  <2>1. candidates' = [candidates EXCEPT ![c] = WithOutcome(candidates[c], v, n)]
    BY <1>1 DEF RecordTrain
  <2>2. /\ WithOutcome(candidates[c], v, n).status # "absent"
        /\ WithOutcome(candidates[c], v, n).class = candidates[c].class
        /\ WithOutcome(candidates[c], v, n).iteration = candidates[c].iteration
    BY OutcomeRow DEF TypeInv, TypeOK
  <2>3. candidates[c].status # "absent"
    BY DEF RecordTrain, TrainOutcomeAllowed, Registered
  <2>4. /\ candidates'[c] = WithOutcome(candidates[c], v, n)
        /\ \A d \in CandidateIds : d # c => candidates'[d] = candidates[d]
    BY <2>1 DEF TypeInv, TypeOK
  <2> QED
    BY <2>2, <2>3, <2>4 DEF Kept
<1>2. CASE ~ (builds + n <= MaxBuilds)
  BY <1>2 DEF RecordTrain, Kept
<1> QED
  BY <1>1, <1>2

LEMMA OthersKeep ==
    ASSUME TypeInv, [Next]_vars,
           ~ \E c \in CandidateIds, class \in {"frozen_control", "preregistered_patent"} :
               RegisterBase(c, class),
           ~ \E c \in CandidateIds, i \in 1..MaxIterations : RegisterAdaptive(c, i)
    PROVE  \A c \in CandidateIds : Kept(c)
<1>1. CASE UNCHANGED candidates
  BY <1>1 DEF Kept
<1>2. ASSUME NEW c \in CandidateIds, NEW v \in Values \cup {None}, NEW n \in BuildCounts,
             RecordTrain(c, v, n)
      PROVE  \A d \in CandidateIds : Kept(d)
  BY <1>2, RecordTrainKept
<1>3. CASE BuildShortlist
  <2>1. \A c \in CandidateIds :
           candidates'[c] = IF c \in Eligible
                THEN [candidates[c] EXCEPT !.status = IF c \in Finalists THEN "frozen" ELSE "rejected"]
                ELSE candidates[c]
    BY <1>3 DEF BuildShortlist
  <2>2. \A c \in Eligible : candidates[c].status = "train_complete"
    BY DEF Eligible, WithStatus
  <2> QED
    BY <2>1, <2>2 DEF Kept, TypeInv, TypeOK, Row
<1> QED
  BY <1>1, <1>2, <1>3 DEF Next, CommitBaselineExpectation, RecordIteration, FinishGeneration,
     RecordBaselineReproduction, FinishTrain, FreezeShortlist, OpenSelection, RecordSelection,
     Close, vars

-----------------------------------------------------------------------------
(***************************************************************************)
(* Generation.                                                             *)
(***************************************************************************)
GenerationInv ==
    /\ IsFiniteSet(Registered)
    /\ commitment # None => BaseAllocationComplete
    /\ \A c \in Adaptive : candidates[c].iteration \in 1..MaxIterations
    /\ iterated = {c \in Adaptive : candidates[c].iteration <= completed}
    /\ \A i \in 1..completed : Cardinality(Members(i)) = IterationSize
    /\ state \notin {"candidate_generation", "blocked"} => Adaptive = iterated

BaseStays == commitment # None => Registered' \ Adaptive' = Registered \ Adaptive

LEMMA GenerationInit == Init => GenerationInv
<1> SUFFICES ASSUME Init
             PROVE  GenerationInv
  OBVIOUS
<1>1. Registered = {}
  BY DEF Init, Registered, Absent
<1> QED
  BY <1>1, FS_EmptySet DEF Init, GenerationInv, Adaptive, OfClass

LEMMA RegisterBaseKeeps ==
    ASSUME TypeInv, GenerationInv,
           NEW c \in CandidateIds, NEW class \in {"frozen_control", "preregistered_patent"},
           RegisterBase(c, class)
    PROVE  GenerationInv' /\ BaseStays
<1>1. /\ c \notin Registered /\ state = "candidate_generation"
      /\ candidates' = [candidates EXCEPT ![c] = Generated(class, 0)]
      /\ UNCHANGED <<state, commitment, completed, iterated>>
  BY DEF RegisterBase, search
<1>2. class \in Classes /\ class # "adaptive_autoindex" /\ 0 \in 0..MaxIterations
  BY LimitsAreNumbers DEF Classes
<1>3. /\ Registered' = Registered \cup {c}
      /\ Adaptive' = Adaptive
      /\ \A d \in Registered : d # c /\ candidates'[d] = candidates[d]
  <2>1. /\ Registered' = Registered \cup {c}
        /\ \A d \in Registered : d # c /\ candidates'[d] = candidates[d]
    BY <1>1, <1>2, Entered
  <2>2. \A k \in Classes : OfClass(k)' = IF k = class THEN OfClass(k) \cup {c} ELSE OfClass(k)
    BY <1>1, <1>2, Entered
  <2> QED
    BY <1>2, <2>1, <2>2 DEF Adaptive, Classes
<1>4. \A i \in Int : Members(i)' = Members(i)
  BY <1>3 DEF Members, Adaptive, OfClass
<1>5. commitment = None
  <2>1. Cardinality(OfClass(class)) < IF class = "frozen_control" THEN FrozenControls
                                                                  ELSE Preregistered
    BY DEF RegisterBase
  <2> QED
    BY <2>1, LimitsAreNumbers DEF GenerationInv, BaseAllocationComplete
<1>6. IsFiniteSet(Registered')
  BY <1>3, FS_AddElement DEF GenerationInv
<1>7. /\ \A d \in Adaptive' : candidates'[d].iteration \in 1..MaxIterations
      /\ iterated' = {d \in Adaptive' : candidates'[d].iteration <= completed'}
  BY <1>1, <1>3 DEF GenerationInv, Adaptive, OfClass
<1>8. \A i \in 1..completed' : Cardinality(Members(i)') = IterationSize
  BY <1>1, <1>4 DEF GenerationInv
<1> QED
  BY <1>1, <1>5, <1>6, <1>7, <1>8 DEF GenerationInv, BaseStays

LEMMA RegisterAdaptiveKeeps ==
    ASSUME TypeInv, GenerationInv,
           NEW c \in CandidateIds, NEW i \in 1..MaxIterations, RegisterAdaptive(c, i)
    PROVE  GenerationInv' /\ BaseStays
<1>1. /\ c \notin Registered /\ state = "candidate_generation" /\ i > completed
      /\ candidates' = [candidates EXCEPT ![c] = Generated("adaptive_autoindex", i)]
      /\ UNCHANGED <<state, commitment, completed, iterated>>
  BY DEF RegisterAdaptive, search
<1>2. "adaptive_autoindex" \in Classes /\ i \in 0..MaxIterations
  BY DEF Classes
<1>3. /\ Registered' = Registered \cup {c}
      /\ candidates'[c].iteration = i
      /\ \A d \in Registered : d # c /\ candidates'[d] = candidates[d]
      /\ \A k \in Classes : OfClass(k)' =
           IF k = "adaptive_autoindex" THEN OfClass(k) \cup {c} ELSE OfClass(k)
  BY <1>1, <1>2, Entered
<1>4. Adaptive' = Adaptive \cup {c}
  BY <1>2, <1>3 DEF Adaptive
<1>5. BaseAllocationComplete => BaseAllocationComplete'
  BY <1>3 DEF BaseAllocationComplete, Classes
<1>6. Adaptive \subseteq Registered
  BY DEF Adaptive, OfClass
<1>7. completed \in Nat
  BY LimitsAreNumbers DEF TypeInv, TypeOK
<1>8. \A j \in 1..completed : Members(j)' = Members(j)
  BY <1>1, <1>3, <1>4, <1>6, <1>7 DEF Members
<1>9. /\ \A d \in Adaptive' : candidates'[d].iteration \in 1..MaxIterations
      /\ iterated' = {d \in Adaptive' : candidates'[d].iteration <= completed'}
  BY <1>1, <1>3, <1>4, <1>6, <1>7 DEF GenerationInv
<1>10. IsFiniteSet(Registered')
  BY <1>3, FS_AddElement DEF GenerationInv
<1>11. \A j \in 1..completed' : Cardinality(Members(j)') = IterationSize
  BY <1>1, <1>8 DEF GenerationInv
<1>12. BaseStays
  BY <1>1, <1>3, <1>4 DEF BaseStays
<1> QED
  BY <1>1, <1>5, <1>9, <1>10, <1>11, <1>12 DEF GenerationInv

\* The iteration recorded is the one that follows the completed ones.
LEMMA RecordIterationKeeps ==
    ASSUME TypeInv, GenerationInv, NEW i \in 1..MaxIterations, RecordIteration(i)
    PROVE  GenerationInv' /\ BaseStays
<1>1. /\ state = "candidate_generation" /\ i = completed + 1
      /\ Cardinality(Members(i)) = IterationSize
      /\ completed' = i /\ iterated' = iterated \cup Members(i)
      /\ UNCHANGED <<state, candidates, commitment>>
  BY DEF RecordIteration
<1>2. completed \in Nat
  BY LimitsAreNumbers DEF TypeInv, TypeOK
<1>3. \A c \in CandidateIds : Kept(c)
  BY <1>1 DEF Kept
<1>4. /\ Registered' = Registered /\ Adaptive' = Adaptive
      /\ \A class \in Classes : OfClass(class)' = OfClass(class)
      /\ \A j \in Int : Members(j)' = Members(j)
  BY <1>3, KeptSets
<1>5. iterated' = {c \in Adaptive' : candidates'[c].iteration <= completed'}
  BY <1>1, <1>2, <1>4 DEF GenerationInv, Members
<1>6. \A j \in 1..completed' : Cardinality(Members(j)') = IterationSize
  BY <1>1, <1>2, <1>4 DEF GenerationInv
<1>7. BaseAllocationComplete' = BaseAllocationComplete
  BY <1>4 DEF BaseAllocationComplete, Classes
<1> QED
  BY <1>1, <1>4, <1>5, <1>6, <1>7 DEF GenerationInv, BaseStays

\* Leaving generation needs every adaptive candidate in an iteration record.
LEMMA FinishGenerationKeeps ==
    ASSUME TypeInv, GenerationInv, NEW reason \in Reasons \cup {None}, FinishGeneration(reason)
    PROVE  GenerationInv' /\ BaseStays
<1>1. /\ Adaptive = iterated
      /\ UNCHANGED <<candidates, commitment, completed, iterated>>
  BY DEF FinishGeneration, search
<1>2. \A c \in CandidateIds : Kept(c)
  BY <1>1 DEF Kept
<1>3. /\ Registered' = Registered /\ Adaptive' = Adaptive
      /\ \A class \in Classes : OfClass(class)' = OfClass(class)
      /\ \A j \in Int : Members(j)' = Members(j)
  BY <1>2, KeptSets
<1>4. BaseAllocationComplete' = BaseAllocationComplete
  BY <1>3 DEF BaseAllocationComplete, Classes
<1> QED
  BY <1>1, <1>3, <1>4 DEF GenerationInv, BaseStays

LEMMA GenerationNext ==
    ASSUME TypeInv, GenerationInv, [Next]_vars
    PROVE  GenerationInv' /\ BaseStays
<1>1. CASE \E c \in CandidateIds, class \in {"frozen_control", "preregistered_patent"} :
             RegisterBase(c, class)
  BY <1>1, RegisterBaseKeeps
<1>2. CASE \E c \in CandidateIds, i \in 1..MaxIterations : RegisterAdaptive(c, i)
  BY <1>2, RegisterAdaptiveKeeps
<1>3. CASE \E i \in 1..MaxIterations : RecordIteration(i)
  BY <1>3, RecordIterationKeeps
<1>4. CASE \E reason \in Reasons \cup {None} : FinishGeneration(reason)
  BY <1>4, FinishGenerationKeeps
<1>5. ASSUME \A c \in CandidateIds : Kept(c),
             UNCHANGED <<completed, iterated>>,
             commitment' # None => commitment # None \/ BaseAllocationComplete,
             state = "candidate_generation" => state' \in {"candidate_generation", "blocked"},
             state = "blocked" => state' = "blocked"
      PROVE  GenerationInv' /\ BaseStays
  <2>1. /\ Registered' = Registered /\ Adaptive' = Adaptive
        /\ \A class \in Classes : OfClass(class)' = OfClass(class)
        /\ \A j \in Int : Members(j)' = Members(j)
    BY <1>5, KeptSets
  <2>2. BaseAllocationComplete' = BaseAllocationComplete
    BY <2>1 DEF BaseAllocationComplete, Classes
  <2>3. \A c \in Adaptive : candidates'[c].iteration = candidates[c].iteration
    BY <1>5 DEF Kept, Adaptive, OfClass, Registered
  <2> QED
    BY <1>5, <2>1, <2>2, <2>3 DEF GenerationInv, BaseStays
<1>6. ASSUME ~ (\E c \in CandidateIds, class \in {"frozen_control", "preregistered_patent"} :
                  RegisterBase(c, class)),
             ~ (\E c \in CandidateIds, i \in 1..MaxIterations : RegisterAdaptive(c, i)),
             ~ (\E i \in 1..MaxIterations : RecordIteration(i)),
             ~ (\E reason \in Reasons \cup {None} : FinishGeneration(reason))
      PROVE  GenerationInv' /\ BaseStays
  <2>1. \A c \in CandidateIds : Kept(c)
    BY <1>6, OthersKeep
  <2>2. /\ UNCHANGED <<completed, iterated>>
        /\ commitment' # None => commitment # None \/ BaseAllocationComplete
        /\ state = "candidate_generation" => state' \in {"candidate_generation", "blocked"}
        /\ state = "blocked" => state' = "blocked"
    BY <1>6 DEF Next, CommitBaselineExpectation, RecordTrain, TrainOutcomeAllowed,
       RecordBaselineReproduction, FinishTrain, BuildShortlist, FreezeShortlist, OpenSelection,
       RecordSelection, Close, vars, search
  <2> QED
    BY <1>5, <2>1, <2>2
<1> QED
  BY <1>1, <1>2, <1>3, <1>4, <1>6

\* No base candidate is added once an outcome may be known.
THEOREM BaseFixed == Spec => BaseFixedByCommitment
<1>1. TypeInv /\ GenerationInv /\ [Next]_vars
        => [commitment # None => Registered' \ Adaptive' = Registered \ Adaptive]_vars
  BY GenerationNext DEF BaseStays
<1> QED
  BY TypeInit, TypeNext, GenerationInit, GenerationNext, <1>1, PTL DEF Spec, BaseFixedByCommitment

\* Whatever reaches the shortlist decision was measured in a full iteration that
\* is on record.
THEOREM IterationsClosed == Spec => []NoOpenIterationLeft
<1>1. TypeInv /\ GenerationInv => NoOpenIterationLeft
  <2> SUFFICES ASSUME TypeInv, GenerationInv, state \notin {"candidate_generation", "blocked"},
                      NEW c \in Adaptive
               PROVE  /\ candidates[c].iteration <= completed
                      /\ Cardinality(Members(candidates[c].iteration)) = IterationSize
    BY DEF NoOpenIterationLeft
  <2>1. candidates[c].iteration \in 1..MaxIterations /\ candidates[c].iteration <= completed
    BY DEF GenerationInv
  <2>2. candidates[c].iteration \in 1..completed
    BY <2>1, LimitsAreNumbers DEF TypeInv, TypeOK
  <2> QED
    BY <2>1, <2>2 DEF GenerationInv
<1> QED
  BY TypeInit, TypeNext, GenerationInit, GenerationNext, <1>1, PTL DEF Spec

-----------------------------------------------------------------------------
(***************************************************************************)
(* The rule of the shortlist.  A finalist has fewer than MaxFinalists      *)
(* untied candidates above it; this number tells finalists apart, so that  *)
(* there are at most MaxFinalists of them.                                 *)
(***************************************************************************)
Above(c) == {d \in Untied : MetricOf(d) > MetricOf(c)}

LEMMA MetricsAreNumbers ==
    ASSUME TypeInv, NEW c \in Eligible
    PROVE  c \in Registered /\ MetricOf(c) \in Int
BY ValuesAreNumbers DEF TypeInv, MetricsRecorded, Eligible, WithStatus, Registered, MetricOf

LEMMA AboveIsFinite ==
    ASSUME IsFiniteSet(Registered), NEW c
    PROVE  /\ IsFiniteSet(Above(c)) /\ Cardinality(Above(c)) \in Nat
           /\ IsFiniteSet(Finalists)
<1>1. Above(c) \subseteq Registered /\ Finalists \subseteq Registered
  BY DEF Above, Finalists, Untied, Eligible, WithStatus
<1> QED
  BY <1>1, FS_Subset, FS_CardinalityType

\* Of two untied candidates the higher one has fewer above it.
LEMMA HigherHasFewer ==
    ASSUME TypeInv, IsFiniteSet(Registered),
           NEW c \in Untied, NEW d \in Untied, MetricOf(d) > MetricOf(c)
    PROVE  Cardinality(Above(d)) < Cardinality(Above(c))
<1>1. \A e \in Untied : MetricOf(e) \in Int
  BY MetricsAreNumbers DEF Untied
<1>2. Above(d) \subseteq Above(c)
  BY <1>1 DEF Above
<1>3. d \in Above(c) /\ d \notin Above(d)
  BY <1>1 DEF Above
<1>4. Cardinality(Above(d)) <= Cardinality(Above(c)) /\ Cardinality(Above(d)) # Cardinality(Above(c))
  BY <1>2, <1>3, AboveIsFinite, FS_Subset
<1> QED
  BY <1>4, AboveIsFinite

LEMMA FinalistsInBudget ==
    ASSUME TypeInv, IsFiniteSet(Registered)
    PROVE  Cardinality(Finalists) <= MaxFinalists
<1> DEFINE rank == [c \in Finalists |-> Cardinality(Above(c))]
<1> DEFINE ranks == 0..(MaxFinalists - 1)
<1>1. MaxFinalists \in Nat
  BY LimitsAreNumbers
<1>2. IsFiniteSet(ranks) /\ Cardinality(ranks) = MaxFinalists
  BY <1>1, FS_Interval
<1>3. rank \in [Finalists -> ranks]
  <2>1. ASSUME NEW c \in Finalists
        PROVE  Cardinality(Above(c)) \in 0..(MaxFinalists - 1)
    <3>1. Cardinality(Above(c)) < MaxFinalists
      BY DEF Finalists, Above
    <3>2. Cardinality(Above(c)) \in Nat
      BY AboveIsFinite
    <3> QED
      BY <1>1, <3>1, <3>2
  <2> QED
    BY <2>1
<1>4. ASSUME NEW c \in Finalists, NEW d \in Finalists, c # d
      PROVE  rank[c] # rank[d]
  <2>1. c \in Untied /\ d \in Untied /\ MetricOf(c) # MetricOf(d)
    BY <1>4 DEF Finalists, Untied
  <2>2. MetricOf(c) \in Int /\ MetricOf(d) \in Int
    BY <2>1, MetricsAreNumbers DEF Untied
  <2>3. MetricOf(c) > MetricOf(d) \/ MetricOf(d) > MetricOf(c)
    BY <2>1, <2>2
  <2> QED
    BY <2>1, <2>3, HigherHasFewer, AboveIsFinite
<1>5. IsFiniteSet(Finalists) /\ Cardinality(Finalists) \in Nat
  BY AboveIsFinite, FS_CardinalityType
<1> HIDE DEF rank, ranks
<1>6. ~ (Cardinality(ranks) < Cardinality(Finalists))
  BY <1>2, <1>3, <1>4, <1>5, FS_PigeonHole
<1> QED
  BY <1>1, <1>2, <1>5, <1>6

\* What the rule gives once every candidate is measured.
LEMMA FinalistsSound ==
    ASSUME TypeInv, IsFiniteSet(Registered),
           \A c \in Registered : candidates[c].status = "train_complete",
           MetricOf(commitment.baseline) \in Int,
           NEW c \in Finalists
    PROVE  /\ MetricOf(c) > MetricOf(commitment.baseline)
           /\ \A d \in Registered \ {c} :
                /\ MetricOf(d) # MetricOf(c)
                /\ MetricOf(d) > MetricOf(c) /\ d \notin Finalists =>
                     \E e \in Registered \ {d} : MetricOf(e) = MetricOf(d)
<1>1. c \in Untied /\ c \in Eligible /\ MetricOf(c) \in Int /\ Cardinality(Above(c)) < MaxFinalists
  BY MetricsAreNumbers DEF Finalists, Untied, Above
<1>2. MetricOf(c) > MetricOf(commitment.baseline)
  BY <1>1 DEF Eligible
<1>3. ASSUME NEW d \in Registered \ {c}
      PROVE  MetricOf(d) # MetricOf(c)
  <2>1. MetricOf(d) = MetricOf(c) => d \in Eligible
    BY <1>2, <1>3 DEF Eligible, WithStatus
  <2> QED
    BY <1>1, <1>3, <2>1 DEF Untied
<1>4. ASSUME NEW d \in Registered \ {c}, MetricOf(d) > MetricOf(c), d \notin Finalists
      PROVE  \E e \in Registered \ {d} : MetricOf(e) = MetricOf(d)
  <2>1. MetricOf(d) \in Int
    BY <1>4, ValuesAreNumbers DEF TypeInv, MetricsRecorded, MetricOf, Registered
  <2>2. d \in Eligible
    BY <1>1, <1>2, <1>4, <2>1 DEF Eligible, WithStatus
  <2>3. d \notin Untied
    <3>1. SUFFICES ASSUME d \in Untied
                   PROVE  FALSE
      OBVIOUS
    <3>2. Cardinality(Above(d)) < Cardinality(Above(c))
      BY <1>1, <1>4, <3>1, HigherHasFewer
    <3>3. Cardinality(Above(d)) < MaxFinalists
      BY <1>1, <3>2, AboveIsFinite, LimitsAreNumbers
    <3> QED
      BY <1>4, <3>1, <3>3 DEF Finalists, Above
  <2>4. PICK e \in Eligible : MetricOf(e) = MetricOf(d) /\ e # d
    BY <2>2, <2>3 DEF Untied
  <2> QED
    BY <2>4, MetricsAreNumbers
<1> QED
  BY <1>2, <1>3, <1>4

-----------------------------------------------------------------------------
(***************************************************************************)
(* The shortlist of a run.                                                 *)
(***************************************************************************)
Undecided == {"candidate_generation", "train_evaluation", "shortlist", "blocked"}

ShortlistInv ==
    /\ state \in Undecided =>
         /\ shortlist = {}
         /\ \A c \in Registered : candidates[c].status \notin {"frozen", "rejected"}
    /\ state = "shortlist" => \A c \in Registered : candidates[c].status = "train_complete"
    /\ reproduction # "pending" =>
         candidates[commitment.baseline].status \in {"train_complete", "frozen", "rejected"}
    /\ ShortlistSound

LEMMA NoShortlistIsSound == shortlist = {} => ShortlistSound
BY FS_EmptySet, LimitsAreNumbers DEF ShortlistSound

LEMMA ShortlistInit == Init => ShortlistInv
<1> SUFFICES ASSUME Init
             PROVE  ShortlistInv
  OBVIOUS
<1>1. Registered = {}
  BY DEF Init, Registered, Absent
<1> QED
  BY <1>1, NoShortlistIsSound DEF Init, ShortlistInv

\* A step before the decision, that decides nothing.
LEMMA UndecidedKeeps ==
    ASSUME ShortlistInv, state \in Undecided, state' \in Undecided, UNCHANGED shortlist,
           \A c \in Registered' : candidates'[c].status \notin {"frozen", "rejected"},
           state' = "shortlist" => \A c \in Registered' : candidates'[c].status = "train_complete",
           reproduction' # "pending" => candidates'[commitment'.baseline].status = "train_complete"
    PROVE  ShortlistInv'
<1>1. shortlist' = {}
  BY DEF ShortlistInv
<1>2. ShortlistSound'
  BY <1>1, FS_EmptySet, LimitsAreNumbers DEF ShortlistSound
<1> QED
  BY <1>1, <1>2 DEF ShortlistInv

\* A step after the decision leaves it alone.
LEMMA DecidedKeeps ==
    ASSUME ShortlistInv, state \notin Undecided, state' \notin Undecided,
           UNCHANGED <<candidates, commitment, reproduction, shortlist>>
    PROVE  ShortlistInv'
<1>1. ShortlistSound'
  BY DEF ShortlistInv, ShortlistSound, MetricOf, Registered
<1> QED
  BY <1>1 DEF ShortlistInv, Undecided

LEMMA BuildShortlistKeeps ==
    ASSUME TypeInv, LifecycleInv, GenerationInv, ShortlistInv, BuildShortlist
    PROVE  ShortlistInv'
<1>1. /\ state = "shortlist" /\ state' = "shortlist_ready" /\ shortlist' = Finalists
      /\ UNCHANGED <<commitment, reproduction>>
      /\ candidates' = [c \in CandidateIds |->
            IF c \in Eligible
              THEN [candidates[c] EXCEPT !.status = IF c \in Finalists THEN "frozen" ELSE "rejected"]
              ELSE candidates[c]]
  BY DEF BuildShortlist
<1>2. \A c \in Registered : candidates[c].status = "train_complete"
  BY <1>1 DEF ShortlistInv
<1>3. reproduction = "passed" /\ commitment # None
  BY <1>1 DEF LifecycleInv
<1>4. commitment.baseline \in CandidateIds
  BY <1>3 DEF TypeInv, TypeOK
<1>5. \A c \in CandidateIds :
        /\ MetricOf(c)' = MetricOf(c)
        /\ candidates'[c].status = "absent" <=> candidates[c].status = "absent"
        /\ candidates[c].status = "train_complete" =>
             candidates'[c].status \in {"train_complete", "frozen", "rejected"}
  <2>1. ASSUME NEW c \in CandidateIds
        PROVE  /\ candidates'[c].metric = candidates[c].metric
               /\ c \in Eligible => candidates'[c].status \in {"frozen", "rejected"}
               /\ c \notin Eligible => candidates'[c] = candidates[c]
    BY <1>1, <2>1 DEF TypeInv, TypeOK, Row
  <2>2. \A c \in Eligible : candidates[c].status = "train_complete"
    BY DEF Eligible, WithStatus
  <2> QED
    BY <2>1, <2>2 DEF MetricOf
<1>6. Registered' = Registered
  BY <1>5 DEF Registered
<1>7. MetricOf(commitment.baseline) \in Int
  BY <1>3, <1>4, ValuesAreNumbers DEF ShortlistInv, TypeInv, MetricsRecorded, MetricOf
<1>8. Finalists \subseteq Registered /\ Registered \subseteq CandidateIds
  BY DEF Finalists, Untied, Eligible, WithStatus, Registered
<1>9. Cardinality(Finalists) <= MaxFinalists
  BY FinalistsInBudget DEF GenerationInv
<1>10. ASSUME NEW c \in Finalists
       PROVE  /\ MetricOf(c) > MetricOf(commitment.baseline)
              /\ \A d \in Registered \ {c} :
                   /\ MetricOf(d) # MetricOf(c)
                   /\ MetricOf(d) > MetricOf(c) /\ d \notin Finalists =>
                        \E e \in Registered \ {d} : MetricOf(e) = MetricOf(d)
  BY <1>2, <1>7, FinalistsSound DEF GenerationInv
<1>11. /\ MetricOf(commitment.baseline)' = MetricOf(commitment.baseline)
       /\ \A c \in Registered : MetricOf(c)' = MetricOf(c)
  BY <1>1, <1>4, <1>5, <1>8 DEF MetricOf
<1>12. ShortlistSound'
  BY <1>1, <1>3, <1>6, <1>8, <1>9, <1>10, <1>11 DEF ShortlistSound
<1>13. candidates'[commitment'.baseline].status \in {"train_complete", "frozen", "rejected"}
  BY <1>1, <1>2, <1>3, <1>4, <1>5 DEF ShortlistInv, Registered
<1> QED
  BY <1>1, <1>12, <1>13 DEF ShortlistInv, Undecided

LEMMA ShortlistNext ==
    ASSUME TypeInv, LifecycleInv, GenerationInv, ShortlistInv, [Next]_vars
    PROVE  ShortlistInv'
<1>0. ASSUME NEW c \in CandidateIds, NEW class \in Classes, NEW i \in 0..MaxIterations,
             state = "candidate_generation", c \notin Registered,
             candidates' = [candidates EXCEPT ![c] = Generated(class, i)],
             UNCHANGED <<state, commitment, reproduction, shortlist>>
      PROVE  ShortlistInv'
  <2>1. /\ Registered' = Registered \cup {c}
        /\ \A d \in Registered : d # c /\ candidates'[d] = candidates[d]
    BY <1>0, Entered
  <2>2. candidates'[c].status = "generated"
    BY <1>0, NewRow DEF TypeInv, TypeOK
  <2>3. reproduction # "pending" => commitment # None /\ commitment.baseline \in CandidateIds
    BY DEF LifecycleInv, TypeInv, TypeOK
  <2>4. reproduction # "pending" => /\ candidates[commitment.baseline].status = "train_complete"
                                    /\ commitment.baseline \in Registered
    BY <1>0, <2>3 DEF ShortlistInv, Undecided, Registered
  <2> QED
    BY <1>0, <2>1, <2>2, <2>4, UndecidedKeeps DEF ShortlistInv, Undecided
<1>1. ASSUME NEW c \in CandidateIds, NEW class \in {"frozen_control", "preregistered_patent"},
             RegisterBase(c, class)
      PROVE  ShortlistInv'
  <2>1. class \in Classes /\ 0 \in 0..MaxIterations
    BY LimitsAreNumbers DEF Classes
  <2> QED
    BY <1>0, <1>1, <2>1 DEF RegisterBase, selection
<1>2. ASSUME NEW c \in CandidateIds, NEW i \in 1..MaxIterations, RegisterAdaptive(c, i)
      PROVE  ShortlistInv'
  <2>1. "adaptive_autoindex" \in Classes /\ i \in 0..MaxIterations
    BY DEF Classes
  <2> QED
    BY <1>0, <1>2, <2>1 DEF RegisterAdaptive, selection
<1>20. reproduction # "pending" =>
         /\ commitment # None /\ commitment.baseline \in CandidateIds
         /\ commitment.baseline \in Registered
         /\ state \in Undecided => candidates[commitment.baseline].status = "train_complete"
  <2>1. reproduction # "pending" => commitment # None /\ commitment.baseline \in CandidateIds
    BY DEF LifecycleInv, TypeInv, TypeOK
  <2> QED
    BY <2>1 DEF ShortlistInv, Registered
<1>21. ASSUME UNCHANGED <<candidates, shortlist>>, state \in Undecided, state' \in Undecided,
              state' = "shortlist" => \A c \in Registered : candidates[c].status = "train_complete",
              reproduction' # "pending" =>
                candidates[commitment'.baseline].status = "train_complete"
       PROVE  ShortlistInv'
  BY <1>21, UndecidedKeeps DEF ShortlistInv, Registered
<1>3. ASSUME NEW c \in CandidateIds, NEW v \in Values, CommitBaselineExpectation(c, v)
      PROVE  ShortlistInv'
  <2>1. reproduction = "pending"
    BY <1>3, <1>20 DEF CommitBaselineExpectation, TypeInv, TypeOK
  <2> QED
    BY <1>3, <1>21, <2>1 DEF CommitBaselineExpectation, selection, Undecided
<1>4. ASSUME NEW c \in CandidateIds, NEW v \in Values \cup {None}, NEW n \in BuildCounts,
             RecordTrain(c, v, n)
      PROVE  ShortlistInv'
  <2>1. /\ state \in {"candidate_generation", "train_evaluation"}
        /\ candidates[c].status = "generated"
        /\ UNCHANGED <<state, commitment, reproduction, shortlist>>
    BY <1>4 DEF RecordTrain, TrainOutcomeAllowed, selection
  <2>2. CASE builds + n <= MaxBuilds
    <3>1. candidates' = [candidates EXCEPT ![c] = WithOutcome(candidates[c], v, n)]
      BY <1>4, <2>2 DEF RecordTrain
    <3>2. WithOutcome(candidates[c], v, n).status \in {"failed", "train_complete"}
      BY OutcomeRow DEF TypeInv, TypeOK
    <3>3. /\ candidates'[c] = WithOutcome(candidates[c], v, n)
          /\ \A d \in CandidateIds : d # c => candidates'[d] = candidates[d]
      BY <3>1 DEF TypeInv, TypeOK
    <3>4. \A d \in Registered' : candidates'[d].status \notin {"frozen", "rejected"}
      BY <2>1, <3>2, <3>3 DEF ShortlistInv, Undecided, Registered
    <3>5. reproduction # "pending" => c # commitment.baseline
      BY <1>20, <2>1 DEF Undecided
    <3>6. reproduction' # "pending" => candidates'[commitment'.baseline].status = "train_complete"
      BY <1>20, <2>1, <3>3, <3>5 DEF Undecided
    <3> QED
      BY <2>1, <3>4, <3>6, UndecidedKeeps DEF Undecided
  <2>3. CASE ~ (builds + n <= MaxBuilds)
    BY <1>4, <1>20, <1>21, <2>1, <2>3 DEF RecordTrain, Undecided
  <2> QED
    BY <2>2, <2>3
<1>5. ASSUME NEW i \in 1..MaxIterations, RecordIteration(i)
      PROVE  ShortlistInv'
  BY <1>5, <1>20, <1>21 DEF RecordIteration, selection, Undecided
<1>6. ASSUME NEW reason \in Reasons \cup {None}, FinishGeneration(reason)
      PROVE  ShortlistInv'
  BY <1>6, <1>20, <1>21 DEF FinishGeneration, selection, Undecided
<1>7. CASE RecordBaselineReproduction
  BY <1>7, <1>21 DEF RecordBaselineReproduction, selection, Undecided
<1>8. CASE FinishTrain
  <2>1. state' = "shortlist" => WithStatus("failed") = {} /\ WithStatus("generated") = {}
    BY <1>8 DEF FinishTrain
  <2>2. \A c \in Registered : candidates[c].status \in
           {"generated", "failed", "train_complete", "frozen", "rejected"}
    BY DEF TypeInv, TypeOK, Row, Statuses, Registered
  <2>3. state' = "shortlist" => \A c \in Registered : candidates[c].status = "train_complete"
    BY <1>8, <2>1, <2>2 DEF FinishTrain, ShortlistInv, Undecided, WithStatus
  <2> QED
    BY <1>8, <1>20, <1>21, <2>3 DEF FinishTrain, selection, Undecided
<1>9. CASE BuildShortlist
  BY <1>9, BuildShortlistKeeps
<1>10. CASE FreezeShortlist
  BY <1>10, DecidedKeeps DEF FreezeShortlist, Undecided
<1>11. CASE OpenSelection
  BY <1>11, DecidedKeeps DEF OpenSelection, Undecided
<1>12. ASSUME NEW c \in CandidateIds, RecordSelection(c)
       PROVE  ShortlistInv'
  BY <1>12, DecidedKeeps DEF RecordSelection, Undecided
<1>13. CASE Close
  BY <1>13, DecidedKeeps DEF Close, Undecided, selection
<1>14. CASE UNCHANGED vars
  <2>1. ShortlistSound'
    BY <1>14 DEF vars, selection, ShortlistInv, ShortlistSound, MetricOf, Registered
  <2> QED
    BY <1>14, <2>1 DEF vars, selection, ShortlistInv, Undecided, Registered
<1> QED
  BY <1>1, <1>2, <1>3, <1>4, <1>5, <1>6, <1>7, <1>8, <1>9, <1>10, <1>11, <1>12, <1>13, <1>14
     DEF Next

\* The finalists are the at most MaxFinalists best candidates above the baseline
\* that no other candidate equals.
THEOREM ShortlistCorrect == Spec => []ShortlistSound
<1>1. ShortlistInv => ShortlistSound
  BY DEF ShortlistInv
<1> QED
  BY TypeInit, TypeNext, LifecycleInit, LifecycleNext, GenerationInit, GenerationNext,
     ShortlistInit, ShortlistNext, <1>1, PTL DEF Spec

-----------------------------------------------------------------------------
(***************************************************************************)
(* The budget of index builds, and the history behind the early stop.      *)
(***************************************************************************)
BudgetInv ==
    /\ IsFiniteSet(RecordedBuilds)
    /\ Cardinality(RecordedBuilds) <= builds
    /\ Cardinality(RecordedBuilds) <= MaxBuilds
    /\ \A c \in CandidateIds : candidates[c].status = "generated" => candidates[c].builds = 0

Measured == {"train_complete", "frozen", "rejected"}

\* The adaptive candidates of the first n iterations, and their best metric.
UpTo(n) == {c \in Adaptive : candidates[c].iteration \in 1..n}
BestIs(n, v) ==
    /\ \E c \in UpTo(n) : MetricOf(c) = v
    /\ \A c \in UpTo(n) : MetricOf(c) <= v

\* The best metric of the first n iterations is that of all the completed ones
\* exactly when n is within the streak.
HistoryInv ==
    /\ \A c \in Adaptive :
          candidates[c].iteration <= completed => candidates[c].status \in Measured
    /\ IF completed = 0 THEN best = None /\ streak = 0
                        ELSE best \in Values /\ streak < completed
    /\ \A n \in 1..completed :
          \E v \in Values : /\ BestIs(n, v)
                            /\ v <= best
                            /\ v = best <=> n >= completed - streak
    /\ early <=> completed >= MinIterations /\ streak >= Patience

\* A step that records no outcome leaves the recorded builds alone.
LEMMA BudgetKeep ==
    ASSUME TypeInv, BudgetInv, builds' = builds, Registered \subseteq Registered',
           \A c \in Registered : /\ candidates'[c].builds = candidates[c].builds
                                 /\ candidates'[c].status = "generated" =>
                                       candidates[c].status = "generated",
           \A c \in Registered' \ Registered : candidates'[c].builds = 0
    PROVE  BudgetInv'
<1> DEFINE Of(c) == {c} \X (1..candidates[c].builds)
           New(c) == {c} \X (1..candidates'[c].builds)
<1>1. \A c \in Registered : New(c) = Of(c)
  OBVIOUS
<1>2. \A c \in Registered' \ Registered : New(c) = {}
  OBVIOUS
<1>3. RecordedBuilds = UNION {Of(c) : c \in Registered}
  BY DEF RecordedBuilds
<1>4. RecordedBuilds' = UNION {New(c) : c \in Registered'}
  BY DEF RecordedBuilds
<1> HIDE DEF Of, New
<1>5. RecordedBuilds' = RecordedBuilds
  BY <1>1, <1>2, <1>3, <1>4
<1>6. \A c \in CandidateIds : candidates'[c].status = "generated" => c \in Registered'
  BY DEF Registered
<1> QED
  BY <1>5, <1>6 DEF BudgetInv, Registered

LEMMA BudgetInit == Init => BudgetInv
<1> SUFFICES ASSUME Init
             PROVE  BudgetInv
  OBVIOUS
<1>1. Registered = {} /\ \A c \in CandidateIds : candidates[c].status # "generated"
  BY DEF Init, Registered, Absent
<1>2. RecordedBuilds = {}
  BY <1>1 DEF RecordedBuilds
<1> QED
  BY <1>1, <1>2, FS_EmptySet, LimitsAreNumbers DEF Init, BudgetInv

\* An outcome is recorded once, and only if the budget has its builds.
LEMMA RecordTrainBudget ==
    ASSUME TypeInv, BudgetInv, NEW c \in CandidateIds, NEW v \in Values \cup {None},
           NEW n \in BuildCounts, RecordTrain(c, v, n)
    PROVE  BudgetInv'
<1>1. /\ n \in Nat /\ builds \in Nat /\ MaxBuilds \in Nat /\ builds' = builds + n
      /\ c \in Registered /\ candidates[c].status = "generated" /\ candidates[c].builds = 0
  BY LimitsAreNumbers, BuildsAreNumbers
     DEF RecordTrain, TrainOutcomeAllowed, TypeInv, TypeOK, BudgetInv
<1>2. CASE ~ (builds + n <= MaxBuilds)
  <2>1. UNCHANGED candidates
    BY <1>2 DEF RecordTrain
  <2>2. RecordedBuilds' = RecordedBuilds
    BY <2>1 DEF RecordedBuilds, Registered
  <2>3. Cardinality(RecordedBuilds) \in Nat
    BY FS_CardinalityType DEF BudgetInv
  <2> QED
    BY <1>1, <2>1, <2>2, <2>3 DEF BudgetInv
<1>3. CASE builds + n <= MaxBuilds
  <2>1. candidates' = [candidates EXCEPT ![c] = WithOutcome(candidates[c], v, n)]
    BY <1>3 DEF RecordTrain
  <2>2. /\ WithOutcome(candidates[c], v, n).status \notin {"absent", "generated"}
        /\ WithOutcome(candidates[c], v, n).builds = n
    <3>1. WithOutcome(candidates[c], v, n).builds = n
      BY DEF WithOutcome, TypeInv, TypeOK, Row
    <3>2. candidates[c] \in Row
      BY DEF TypeInv, TypeOK
    <3> QED
      BY <3>1, <3>2, OutcomeRow
  <2>3. /\ candidates'[c].status \notin {"absent", "generated"} /\ candidates'[c].builds = n
        /\ \A d \in CandidateIds : d # c => candidates'[d] = candidates[d]
    BY <2>1, <2>2 DEF TypeInv, TypeOK
  <2>4. Registered' = Registered
    BY <1>1, <2>3 DEF Registered
  <2> DEFINE Of(d) == {d} \X (1..candidates[d].builds)
             New(d) == {d} \X (1..candidates'[d].builds)
  <2>5. \A d \in Registered : d # c => New(d) = Of(d)
    BY <2>3 DEF Registered
  <2>6. New(c) = {c} \X (1..n) /\ Of(c) = {}
    BY <1>1, <2>3
  <2>7. RecordedBuilds = UNION {Of(d) : d \in Registered}
    BY DEF RecordedBuilds
  <2>8. RecordedBuilds' = UNION {New(d) : d \in Registered}
    BY <2>4 DEF RecordedBuilds
  <2>9. \A d : \A x \in Of(d) : x[1] = d
    OBVIOUS
  <2>10. \A x \in {c} \X (1..n) : x[1] = c
    OBVIOUS
  <2> HIDE DEF Of, New
  <2>11. RecordedBuilds' = RecordedBuilds \cup ({c} \X (1..n))
    BY <1>1, <2>5, <2>6, <2>7, <2>8
  <2>12. RecordedBuilds \cap ({c} \X (1..n)) = {}
    BY <2>6, <2>7, <2>9, <2>10
  <2>13. IsFiniteSet({c} \X (1..n)) /\ Cardinality({c} \X (1..n)) = n
    <3>1. IsFiniteSet({c}) /\ Cardinality({c}) = 1
      BY FS_Singleton
    <3>2. IsFiniteSet(1..n) /\ Cardinality(1..n) = n
      BY <1>1, FS_Interval
    <3>3. /\ IsFiniteSet({c} \X (1..n))
          /\ Cardinality({c} \X (1..n)) = Cardinality({c}) * Cardinality(1..n)
      BY <3>1, <3>2, FS_Product, Zenon
    <3> QED
      BY <1>1, <3>1, <3>2, <3>3
  <2>14. /\ IsFiniteSet(RecordedBuilds')
         /\ Cardinality(RecordedBuilds') = Cardinality(RecordedBuilds) + n
         /\ Cardinality(RecordedBuilds) \in Nat
    <3>1. IsFiniteSet(RecordedBuilds) /\ Cardinality(RecordedBuilds) \in Nat
      BY FS_CardinalityType DEF BudgetInv
    <3>2. Cardinality(RecordedBuilds \cap ({c} \X (1..n))) = 0
      BY <2>12, FS_EmptySet
    <3>3. /\ IsFiniteSet(RecordedBuilds \cup ({c} \X (1..n)))
          /\ Cardinality(RecordedBuilds \cup ({c} \X (1..n))) =
                Cardinality(RecordedBuilds) + n
                    - Cardinality(RecordedBuilds \cap ({c} \X (1..n)))
      BY <2>13, <3>1, FS_Union
    <3> QED
      BY <1>1, <2>11, <3>1, <3>2, <3>3
  <2>15. Cardinality(RecordedBuilds') <= builds' /\ Cardinality(RecordedBuilds') <= MaxBuilds
    BY <1>1, <1>3, <2>14 DEF BudgetInv
  <2> QED
    BY <2>3, <2>14, <2>15 DEF BudgetInv
<1> QED
  BY <1>2, <1>3

LEMMA BudgetNext ==
    ASSUME TypeInv, BudgetInv, [Next]_vars
    PROVE  BudgetInv'
<1>1. ASSUME NEW c \in CandidateIds, NEW class \in Classes, NEW i \in 0..MaxIterations,
             c \notin Registered, builds' = builds,
             candidates' = [candidates EXCEPT ![c] = Generated(class, i)]
      PROVE  BudgetInv'
  <2>1. /\ Registered' = Registered \cup {c}
        /\ \A d \in Registered : d # c /\ candidates'[d] = candidates[d]
    BY <1>1, Entered
  <2>2. candidates'[c].builds = 0
    BY <1>1 DEF TypeInv, TypeOK, Generated
  <2> QED
    BY <1>1, <2>1, <2>2, BudgetKeep
<1>2. ASSUME NEW c \in CandidateIds, NEW class \in {"frozen_control", "preregistered_patent"},
             RegisterBase(c, class)
      PROVE  BudgetInv'
  <2>1. class \in Classes /\ 0 \in 0..MaxIterations
    BY LimitsAreNumbers DEF Classes
  <2>2. /\ c \notin Registered /\ builds' = builds
        /\ candidates' = [candidates EXCEPT ![c] = Generated(class, 0)]
    BY <1>2 DEF RegisterBase
  <2> QED
    BY <1>1, <2>1, <2>2
<1>3. ASSUME NEW c \in CandidateIds, NEW i \in 1..MaxIterations, RegisterAdaptive(c, i)
      PROVE  BudgetInv'
  <2>1. "adaptive_autoindex" \in Classes /\ i \in 0..MaxIterations
    BY DEF Classes
  <2>2. /\ c \notin Registered /\ builds' = builds
        /\ candidates' = [candidates EXCEPT ![c] = Generated("adaptive_autoindex", i)]
    BY <1>3 DEF RegisterAdaptive
  <2> QED
    BY <1>1, <2>1, <2>2
<1>4. ASSUME builds' = builds, UNCHANGED candidates
      PROVE  BudgetInv'
  <2>1. Registered' = Registered
    BY <1>4 DEF Registered
  <2> QED
    BY <1>4, <2>1, BudgetKeep
<1>5. CASE BuildShortlist
  <2>1. builds' = builds /\ \A c \in CandidateIds : Kept(c)
    BY <1>5, OthersKeep DEF BuildShortlist, RegisterBase, RegisterAdaptive
  <2>2. Registered' = Registered
    BY <2>1, KeptSets
  <2>3. \A c \in CandidateIds :
           candidates'[c] = IF c \in Eligible
                THEN [candidates[c] EXCEPT !.status = IF c \in Finalists THEN "frozen" ELSE "rejected"]
                ELSE candidates[c]
    BY <1>5 DEF BuildShortlist
  <2>4. \A c \in CandidateIds : /\ candidates'[c].builds = candidates[c].builds
                                /\ candidates'[c].status = "generated" =>
                                      candidates[c].status = "generated"
    BY <2>3 DEF TypeInv, TypeOK, Row
  <2> QED
    BY <2>1, <2>2, <2>4, BudgetKeep DEF Registered
<1> QED
  BY <1>2, <1>3, <1>4, <1>5, RecordTrainBudget
     DEF Next, CommitBaselineExpectation, RecordIteration, FinishGeneration,
     RecordBaselineReproduction, FinishTrain, FreezeShortlist, OpenSelection, RecordSelection,
     Close, vars

\* The builds of the recorded outcomes are within the budget, for any budget and
\* any number of outcomes that were refused.
THEOREM BuildsInBudget == Spec => []RecordedBuildsInBudget
<1>1. BudgetInv => RecordedBuildsInBudget
  BY DEF BudgetInv, RecordedBuildsInBudget
<1> QED
  BY TypeInit, TypeNext, BudgetInit, BudgetNext, <1>1, PTL DEF Spec

LEMMA HistoryInit == Init => HistoryInv
<1> SUFFICES ASSUME Init
             PROVE  HistoryInv
  OBVIOUS
<1>1. Adaptive = {} /\ completed = 0 /\ best = None /\ streak = 0 /\ early = FALSE
  BY DEF Init, Adaptive, OfClass, Registered, Absent
<1> QED
  BY <1>1, LimitsAreNumbers DEF HistoryInv

\* The outcomes of the completed iterations are what the history is about.
LEMMA HistoryKeep ==
    ASSUME TypeInv, HistoryInv, UNCHANGED <<completed, best, streak, early>>,
           \A c \in Adaptive : candidates[c].iteration <= completed =>
               /\ c \in Adaptive'
               /\ candidates'[c].iteration = candidates[c].iteration
               /\ candidates'[c].metric = candidates[c].metric
               /\ candidates'[c].status \in Measured,
           \A c \in Adaptive' : candidates'[c].iteration <= completed =>
               c \in Adaptive /\ candidates'[c].iteration = candidates[c].iteration
    PROVE  HistoryInv'
<1>1. completed \in Nat /\ \A c \in Adaptive : candidates[c].iteration \in Nat
  BY LimitsAreNumbers DEF TypeInv, TypeOK, Row, Adaptive, OfClass, Registered
<1>2. ASSUME NEW n \in 1..completed
      PROVE  UpTo(n)' = UpTo(n)
  <2>1. ASSUME NEW c \in UpTo(n)'
        PROVE  c \in UpTo(n)
    <3>1. c \in Adaptive' /\ candidates'[c].iteration \in 1..n
      BY <2>1 DEF UpTo
    <3>2. candidates'[c].iteration <= completed
      BY <1>1, <1>2, <3>1
    <3> QED
      BY <3>1, <3>2 DEF UpTo
  <2>2. ASSUME NEW c \in UpTo(n)
        PROVE  c \in UpTo(n)'
    <3>1. c \in Adaptive /\ candidates[c].iteration \in 1..n
      BY <2>2 DEF UpTo
    <3>2. candidates[c].iteration <= completed
      BY <1>1, <1>2, <3>1
    <3> QED
      BY <3>1, <3>2 DEF UpTo
  <2> QED
    BY <2>1, <2>2
<1>3. ASSUME NEW n \in 1..completed, NEW v, BestIs(n, v)
      PROVE  BestIs(n, v)'
  <2>1. \A c \in UpTo(n) : candidates'[c].metric = candidates[c].metric
    BY <1>1, <1>3 DEF UpTo
  <2> QED
    BY <1>2, <1>3, <2>1 DEF BestIs, MetricOf
<1>4. \A c \in Adaptive' : candidates'[c].iteration <= completed' =>
          candidates'[c].status \in Measured
  OBVIOUS
<1>5. \A n \in 1..completed' :
          \E v \in Values : /\ BestIs(n, v)'
                            /\ v <= best'
                            /\ v = best' <=> n >= completed' - streak'
  BY <1>3 DEF HistoryInv
<1> QED
  BY <1>4, <1>5 DEF HistoryInv

\* A completed iteration either improves on the best metric, or adds to the
\* streak of those that do not.
LEMMA RecordIterationHistory ==
    ASSUME TypeInv, HistoryInv, NEW i \in 1..MaxIterations, RecordIteration(i)
    PROVE  HistoryInv'
<1>1. /\ i = completed + 1 /\ completed' = i /\ candidates' = candidates
      /\ Members(i) \subseteq WithStatus("train_complete")
      /\ early' = (i >= MinIterations /\ streak' >= Patience)
  BY DEF RecordIteration
<1>2. /\ completed \in Nat /\ streak \in Nat /\ Values \subseteq Int /\ None \notin Values
      /\ \A c \in Adaptive : candidates[c].iteration \in Nat
      /\ MinIterations \in Nat /\ Patience \in Nat
  BY LimitsAreNumbers, ValuesAreNumbers DEF TypeInv, TypeOK, Row, Adaptive, OfClass, Registered
<1>3. \A c \in Members(i) : MetricOf(c) \in Values
  BY <1>1 DEF TypeInv, MetricsRecorded, WithStatus, Registered, MetricOf
<1>4. PICK value \in {MetricOf(c) : c \in Members(i)} :
         /\ \A c \in Members(i) : MetricOf(c) <= value
         /\ IF best = None \/ value > best
              THEN best' = value /\ streak' = 0
              ELSE best' = best /\ streak' = streak + 1
  BY DEF RecordIteration
<1>5. value \in Values /\ \E c \in Members(i) : MetricOf(c) = value
  BY <1>3, <1>4
<1>6. UpTo(i) = UpTo(completed) \cup Members(i)
  BY <1>1, <1>2 DEF UpTo, Members
<1>7. \A n, v : BestIs(n, v)' <=> BestIs(n, v)
  BY <1>1 DEF BestIs, UpTo, MetricOf, Adaptive, OfClass, Registered
<1>8. \A c \in Adaptive' : candidates'[c].iteration <= completed' =>
          candidates'[c].status \in Measured
  <2>1. Adaptive' = Adaptive
    BY <1>1 DEF Adaptive, OfClass, Registered
  <2>2. ASSUME NEW c \in Adaptive, candidates[c].iteration <= i
        PROVE  candidates[c].status \in Measured
    <3>1. candidates[c].iteration <= completed \/ c \in Members(i)
      BY <1>1, <1>2, <2>2 DEF Members
    <3> QED
      BY <1>1, <3>1 DEF HistoryInv, WithStatus, Measured
  <2> QED
    BY <1>1, <2>1, <2>2
<1>9. early' <=> completed' >= MinIterations /\ streak' >= Patience
  BY <1>1
<1>10. \A n \in 1..i : n \in 1..completed \/ n = i
  BY <1>1, <1>2
<1>11. CASE completed = 0
  <2>1. best' = value /\ streak' = 0 /\ UpTo(completed) = {}
    BY <1>2, <1>4, <1>11 DEF HistoryInv, UpTo
  <2>2. BestIs(i, value)
    BY <1>4, <1>5, <1>6, <2>1 DEF BestIs
  <2>3. \A n \in 1..i : n = i
    BY <1>1, <1>11
  <2> QED
    BY <1>1, <1>2, <1>5, <1>7, <1>8, <1>9, <2>1, <2>2, <2>3 DEF HistoryInv
<1>12. CASE completed # 0
  <2>1. best \in Values /\ streak < completed /\ completed \in 1..completed /\ best # None
    BY <1>2, <1>12 DEF HistoryInv
  <2>2. BestIs(completed, best)
    BY <1>2, <2>1 DEF HistoryInv
  <2>3. CASE value > best
    <3>1. best' = value /\ streak' = 0
      BY <1>4, <2>3
    <3>2. \A c \in UpTo(completed) : MetricOf(c) <= value
      <4>1. ASSUME NEW c \in UpTo(completed)
            PROVE  MetricOf(c) <= value
        <5>1. MetricOf(c) <= best /\ MetricOf(c) \in Values
          BY <1>2, <2>2 DEF BestIs, UpTo, HistoryInv, TypeInv, MetricsRecorded, Measured, MetricOf, Adaptive, OfClass, Registered
        <5>2. MetricOf(c) \in Int /\ best \in Int /\ value \in Int
          BY <1>2, <1>5, <2>1, <5>1
        <5> QED
          BY <2>3, <5>1, <5>2
      <4> QED
        BY <4>1
    <3>3. BestIs(i, value)
      BY <1>4, <1>5, <1>6, <3>2 DEF BestIs
    <3>4. ASSUME NEW n \in 1..i
          PROVE  \E v \in Values : /\ BestIs(n, v)
                                   /\ v <= value
                                   /\ v = value <=> n >= i - streak'
      <4>1. CASE n = i
        <5>1. value \in Int /\ value <= value /\ n >= i - streak'
          BY <1>1, <1>2, <1>5, <3>1, <4>1
        <5> QED
          BY <1>5, <3>3, <4>1, <5>1
      <4>2. CASE n \in 1..completed
        <5>1. PICK v \in Values : BestIs(n, v) /\ v <= best
          BY <4>2 DEF HistoryInv
        <5>2. v \in Int /\ best \in Int /\ value \in Int
          BY <1>2, <1>5, <2>1
        <5>3. v <= value /\ v # value
          BY <2>3, <5>1, <5>2
        <5>4. ~ (n >= i - streak')
          BY <1>1, <1>2, <3>1, <4>2
        <5> QED
          BY <5>1, <5>3, <5>4
      <4> QED
        BY <1>10, <4>1, <4>2
    <3>5. ASSUME NEW n \in 1..completed'
          PROVE  \E v \in Values : /\ BestIs(n, v)'
                                   /\ v <= best'
                                   /\ v = best' <=> n >= completed' - streak'
      <4>1. n \in 1..i
        BY <1>1
      <4>2. PICK v \in Values : /\ BestIs(n, v)
                                /\ v <= value
                                /\ v = value <=> n >= i - streak'
        BY <3>4, <4>1
      <4>3. BestIs(n, v)'
        BY <1>7, <4>2
      <4>4. v <= best' /\ (v = best' <=> n >= completed' - streak')
        BY <1>1, <3>1, <4>2
      <4> QED
        BY <4>3, <4>4
    <3>6. completed' # 0 /\ best' \in Values /\ streak' < completed'
      BY <1>1, <1>2, <1>5, <3>1
    <3> QED
      BY <1>8, <1>9, <3>5, <3>6 DEF HistoryInv
  <2>4. CASE ~ (value > best)
    <3>1. best' = best /\ streak' = streak + 1
      BY <1>4, <2>1, <2>4
    <3>2. ASSUME NEW c \in Members(i)
          PROVE  MetricOf(c) <= best
      <4>1. MetricOf(c) \in Int /\ best \in Int /\ value \in Int
        BY <1>2, <1>3, <1>5, <2>1
      <4>2. MetricOf(c) <= value /\ ~ (value > best)
        BY <1>4, <2>4
      <4> QED
        BY <4>1, <4>2
    <3>3. BestIs(i, best)
      BY <1>6, <2>2, <3>2 DEF BestIs
    <3>4. ASSUME NEW n \in 1..i
          PROVE  \E v \in Values : /\ BestIs(n, v)
                                   /\ v <= best
                                   /\ v = best <=> n >= i - (streak + 1)
      <4>1. CASE n = i
        <5>1. best \in Int /\ best <= best /\ n >= i - (streak + 1)
          BY <1>1, <1>2, <2>1, <4>1
        <5> QED
          BY <2>1, <3>3, <4>1, <5>1
      <4>2. CASE n \in 1..completed
        <5>1. PICK v \in Values : /\ BestIs(n, v)
                                  /\ v <= best
                                  /\ v = best <=> n >= completed - streak
          BY <4>2 DEF HistoryInv
        <5>2. i - (streak + 1) = completed - streak
          BY <1>1, <1>2
        <5> QED
          BY <5>1, <5>2
      <4> QED
        BY <1>10, <4>1, <4>2
    <3>5. \A n \in 1..completed' :
             \E v \in Values : /\ BestIs(n, v)'
                               /\ v <= best'
                               /\ v = best' <=> n >= completed' - streak'
      BY <1>1, <1>7, <3>1, <3>4
    <3>6. completed' # 0 /\ best' \in Values /\ streak' < completed'
      BY <1>1, <1>2, <2>1, <3>1
    <3> QED
      BY <1>8, <1>9, <3>5, <3>6 DEF HistoryInv
  <2> QED
    BY <2>3, <2>4
<1> QED
  BY <1>11, <1>12

LEMMA HistoryNext ==
    ASSUME TypeInv, HistoryInv, [Next]_vars
    PROVE  HistoryInv'
<1>1. completed \in Nat /\ \A c \in Adaptive : candidates[c].iteration \in Nat
  BY LimitsAreNumbers DEF TypeInv, TypeOK, Row, Adaptive, OfClass, Registered
<1>2. Adaptive \subseteq Registered /\ Registered \subseteq CandidateIds
  BY DEF Adaptive, OfClass, Registered
<1>3. \A c \in Adaptive : candidates[c].iteration <= completed => candidates[c].status \in Measured
  BY DEF HistoryInv
<1>4. ASSUME UNCHANGED <<completed, best, streak, early>>, UNCHANGED candidates
      PROVE  HistoryInv'
  <2>1. Adaptive' = Adaptive
    BY <1>4 DEF Adaptive, OfClass, Registered
  <2> QED
    BY <1>3, <1>4, <2>1, HistoryKeep
\* What is registered belongs to no completed iteration.
<1>5. ASSUME NEW c \in CandidateIds, NEW class \in {"frozen_control", "preregistered_patent"},
             RegisterBase(c, class)
      PROVE  HistoryInv'
  <2>1. class \in Classes /\ class # "adaptive_autoindex" /\ 0 \in 0..MaxIterations
    BY LimitsAreNumbers DEF Classes
  <2>2. /\ c \notin Registered /\ UNCHANGED <<completed, best, streak, early>>
        /\ candidates' = [candidates EXCEPT ![c] = Generated(class, 0)]
    BY <1>5 DEF RegisterBase, search
  <2>3. /\ \A k \in Classes : OfClass(k)' = IF k = class THEN OfClass(k) \cup {c} ELSE OfClass(k)
        /\ \A d \in Registered : d # c /\ candidates'[d] = candidates[d]
    BY <2>1, <2>2, Entered
  <2>4. Adaptive' = Adaptive
    BY <2>1, <2>3 DEF Adaptive, Classes
  <2> QED
    BY <1>2, <1>3, <2>2, <2>3, <2>4, HistoryKeep
<1>6. ASSUME NEW c \in CandidateIds, NEW i \in 1..MaxIterations, RegisterAdaptive(c, i)
      PROVE  HistoryInv'
  <2>1. "adaptive_autoindex" \in Classes /\ i \in 0..MaxIterations
    BY DEF Classes
  <2>2. /\ c \notin Registered /\ UNCHANGED <<completed, best, streak, early>> /\ i > completed
        /\ candidates' = [candidates EXCEPT ![c] = Generated("adaptive_autoindex", i)]
    BY <1>6 DEF RegisterAdaptive, search
  <2>3. /\ candidates'[c].iteration = i
        /\ \A d \in Registered : d # c /\ candidates'[d] = candidates[d]
        /\ \A k \in Classes : OfClass(k)' =
             IF k = "adaptive_autoindex" THEN OfClass(k) \cup {c} ELSE OfClass(k)
    BY <2>1, <2>2, Entered
  <2>4. Adaptive' = Adaptive \cup {c}
    BY <2>1, <2>3 DEF Adaptive
  <2>5. ~ (candidates'[c].iteration <= completed)
    BY <1>1, <2>2, <2>3
  <2> QED
    BY <1>2, <1>3, <2>2, <2>3, <2>4, <2>5, HistoryKeep
\* An outcome of a completed iteration is not recorded again.
<1>7. ASSUME NEW c \in CandidateIds, NEW v \in Values \cup {None}, NEW n \in BuildCounts,
             RecordTrain(c, v, n)
      PROVE  HistoryInv'
  <2>1. /\ UNCHANGED <<completed, best, streak, early>> /\ candidates[c].status = "generated"
        /\ \A d \in CandidateIds : d # c => candidates'[d] = candidates[d]
    BY <1>7 DEF RecordTrain, TrainOutcomeAllowed, search, TypeInv, TypeOK
  <2>2. \A d \in CandidateIds : Kept(d)
    BY <1>7, RecordTrainKept
  <2>3. Adaptive' = Adaptive
    BY <2>2, KeptSets
  <2>4. c \in Adaptive => ~ (candidates[c].iteration <= completed)
    BY <1>3, <2>1 DEF Measured
  <2>5. \A d \in Adaptive : candidates[d].iteration <= completed =>
            d # c /\ candidates'[d] = candidates[d]
    BY <1>2, <2>1, <2>4
  <2>6. \A d \in Adaptive' : candidates'[d].iteration = candidates[d].iteration
    BY <1>2, <2>2, <2>3 DEF Kept
  <2> QED
    BY <1>3, <2>1, <2>3, <2>5, <2>6, HistoryKeep
<1>8. CASE BuildShortlist
  <2>1. UNCHANGED <<completed, best, streak, early>> /\ \A c \in CandidateIds : Kept(c)
    BY <1>8, OthersKeep DEF BuildShortlist, RegisterBase, RegisterAdaptive, search
  <2>2. Adaptive' = Adaptive
    BY <2>1, KeptSets
  <2>3. \A c \in CandidateIds :
           candidates'[c] = IF c \in Eligible
                THEN [candidates[c] EXCEPT !.status = IF c \in Finalists THEN "frozen" ELSE "rejected"]
                ELSE candidates[c]
    BY <1>8 DEF BuildShortlist
  <2>4. \A c \in CandidateIds :
            /\ candidates'[c].metric = candidates[c].metric
            /\ candidates[c].status \in Measured => candidates'[c].status \in Measured
    BY <2>3 DEF TypeInv, TypeOK, Row, Measured
  <2> QED
    BY <1>2, <1>3, <2>1, <2>2, <2>4, HistoryKeep DEF Kept
<1> QED
  BY <1>4, <1>5, <1>6, <1>7, <1>8, RecordIterationHistory
     DEF Next, CommitBaselineExpectation, FinishGeneration, search,
     RecordBaselineReproduction, FinishTrain, FreezeShortlist, OpenSelection, RecordSelection,
     Close, vars

\* The maximum that the property takes is the metric that BestIs names.
LEMMA BestIsMax ==
    ASSUME TypeInv, HistoryInv, NEW n \in 1..completed, NEW v \in Values, BestIs(n, v)
    PROVE  Max({MetricOf(c) : c \in UNION {Members(i) : i \in 1..n}}) = v
<1>1. completed \in Nat /\ Values \subseteq Int
  BY LimitsAreNumbers, ValuesAreNumbers DEF TypeInv, TypeOK
<1>2. UNION {Members(i) : i \in 1..n} = UpTo(n)
  BY DEF Members, UpTo
<1>3. \A c \in UpTo(n) : MetricOf(c) \in Int
  <2>1. \A c \in UpTo(n) : c \in CandidateIds /\ candidates[c].status \in Measured
    BY <1>1 DEF UpTo, HistoryInv, Adaptive, OfClass, Registered
  <2> QED
    BY <1>1, <2>1 DEF TypeInv, MetricsRecorded, Measured, MetricOf
<1> DEFINE S == {MetricOf(c) : c \in UpTo(n)}
<1>4. v \in S /\ v \in Int /\ S \subseteq Int /\ \A y \in S : y <= v
  BY <1>1, <1>3 DEF BestIs
<1> HIDE DEF S
<1>5. \A x \in S : (\A y \in S : x >= y) => x = v
  BY <1>4
<1>6. \A y \in S : v >= y
  BY <1>4
<1>7. Max(S) = v
  BY <1>4, <1>5, <1>6 DEF Max
<1> QED
  BY <1>2, <1>7 DEF S

\* An early stop is eligible exactly when the outcomes justify it: enough
\* iterations, of which the last Patience did not improve.
THEOREM EarlyStopJustified == Spec => []EarlyStopMatchesHistory
<1>1. TypeInv /\ HistoryInv => EarlyStopMatchesHistory
  <2> SUFFICES ASSUME TypeInv, HistoryInv
               PROVE  EarlyStopMatchesHistory
    OBVIOUS
  <2> DEFINE bestOf(is) == Max({MetricOf(c) : c \in UNION {Members(i) : i \in is}})
  <2>1. /\ completed \in Nat /\ streak \in Nat /\ Patience \in Nat \ {0} /\ MinIterations \in Nat \ {0}
        /\ early <=> completed >= MinIterations /\ streak >= Patience
        /\ completed # 0 => best \in Values /\ streak < completed
        /\ completed = 0 => streak = 0
    BY LimitsAreNumbers DEF TypeInv, TypeOK, HistoryInv
  <2>2. \A n \in 1..completed : \E v \in Values : /\ bestOf(1..n) = v
                                                  /\ v = best <=> n >= completed - streak
    BY BestIsMax DEF HistoryInv
  <2> HIDE DEF bestOf
  <2>3. early <=> /\ completed >= MinIterations
                  /\ completed > Patience
                  /\ bestOf(1..completed) = bestOf(1..(completed - Patience))
    <3>1. CASE completed > Patience
      <4>1. completed \in 1..completed /\ completed - Patience \in 1..completed
        BY <2>1, <3>1
      <4>2. bestOf(1..completed) = best
        BY <2>1, <2>2, <4>1
      <4>3. bestOf(1..(completed - Patience)) = best <=> completed - Patience >= completed - streak
        BY <2>2, <4>1
      <4>4. completed - Patience >= completed - streak <=> streak >= Patience
        BY <2>1
      <4> QED
        BY <2>1, <3>1, <4>2, <4>3, <4>4
    <3>2. CASE ~ (completed > Patience)
      BY <2>1, <3>2
    <3> QED
      BY <3>1, <3>2
  <2> QED
    BY <2>3 DEF EarlyStopMatchesHistory, bestOf
<1> QED
  BY TypeInit, TypeNext, HistoryInit, HistoryNext, <1>1, PTL DEF Spec

=============================================================================
