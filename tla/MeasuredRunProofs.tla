------------------------- MODULE MeasuredRunProofs -------------------------
(***************************************************************************)
(* Proofs about MeasuredRun, for any base candidates, batches, number of   *)
(* workers started one after the other and number of verify commands.      *)
(*                                                                         *)
(* The argument rests on the commitment: one worker writes it, and no      *)
(* other gets past it.  So whatever a crash or a verify command makes of   *)
(* the journaled state, the artifacts, the counter and the children are    *)
(* those of this one worker, and its copy of the state in memory is the    *)
(* authority on them.                                                      *)
(***************************************************************************)
EXTENDS MeasuredRun, FiniteSetTheorems, TLAPS

\* The worker has a task.
TaskLocs == {"attempt", "launched", "waiting", "collect", "infra", "science", "accept",
             "accepted"}

\* Before the commitment is journaled, and after it.
Setup == {"lineage", "base", "commit", "committed"}
Late == TaskLocs \cup
    {"next", "freeze batch", "reproduce", "checkpoint", "acknowledge", "shortlist", "freeze",
     "frozen", "expose", "exposed", "select", "finalize", "complete"}

\* The states that are journaled, held in memory, or behind a key.
Known == ({state} \cup {mem[p] : p \in Procs} \cup {e.state : e \in keyed}) \ {None}

TypeInv ==
    /\ TypeOK
    /\ opened \in [Procs -> Nat]
    /\ \A p \in Procs : /\ pc[p] = "down" <=> mem[p] = None
                        /\ pc[p] # "down" => state # None
    /\ \A v \in Verifiers : pc[v] \in {"down", "ended", "conflict", "child", "index", "counter"}
    /\ pc[Worker] \in TaskLocs => task \in Tasks
    /\ pc[Worker] \in {"launched", "waiting"} => Attempts \in 1..2
    /\ exit # None <=> pc[Worker] \in {"launched", "waiting"} /\ Child \notin alive

\* Iterations are numbered one after the other.
CountInv ==
    pc[Worker] \in Late =>
        /\ mem[Worker].completed <= mem[Worker].batches
        /\ mem[Worker].batches <= mem[Worker].completed + 1
        /\ mem[Worker].batches <= Len(Batches)
        /\ pc[Worker] = "freeze batch" => /\ mem[Worker].batches = mem[Worker].completed
                                          /\ mem[Worker].batches < Len(Batches)

\* The constant key of Validate: a state without the lineage is the first
\* state but for its stage, and only such a state is journaled under the key.
StartInv ==
    /\ \A s \in Known : "lineage" \notin s.marks => s = At(Initial, s.stage)
    /\ \A e \in keyed : e.key = <<"validating">> => "lineage" \notin e.state.marks
    /\ (\E s \in Known : "lineage" \in s.marks) \/ pc[Worker] \in Setup \cup Late =>
          \E e \in keyed : e.key = <<"validating">>
    /\ pc[Worker] \in Setup =>
          /\ mem[Worker].marks \subseteq {"lineage", "base"}
          /\ mem[Worker] = [At(Initial, mem[Worker].stage) EXCEPT !.marks = mem[Worker].marks]
    /\ pc[Worker] \in (Setup \ {"lineage"}) \cup Late => "lineage" \in mem[Worker].marks

\* Nothing is measured before the commitment.
Released(c) == \E e \in keyed : e.key = <<"released", c>>
Untouched ==
    /\ results = {} /\ alive = {} /\ freeze = None /\ ~package /\ counter # "ours"
    /\ \A s \in Known : s.child = None /\ s.accepted = {}
    /\ \A c \in Children : ~Released(c)
CommitInv ==
    /\ ~commitment \/ pc[Worker] = "committed" => Untouched
    /\ IF commitment THEN state # None ELSE pc[Worker] \notin Late \cup {"committed"}

Trained(c) == [role |-> "train", cand |-> c]
Selected(c) == [role |-> "selection", cand |-> c]

\* What the artifacts and the counter say of a state.
Backed(s) ==
    /\ \A c \in s.accepted : Trained(c) \in results
    /\ "reproduction" \in s.marks => Baseline \in s.accepted
    /\ s.accepted \ {Baseline} # {} => "reproduction" \in s.marks
    /\ "frozen" \in s.marks => Base \subseteq s.accepted /\ freeze = s.shortlist
    /\ s.shortlist \subseteq s.accepted
    /\ s.exposure = 1 => counter = "ours"
BackedInv == \A s \in Known : Backed(s)

\* No child that a state or a key names was launched by anyone but the worker
\* that counts attempts, and one child runs at a time.
Launched(c) == c.attempt <= mem[Worker].attempts[c.task]
ChildInv ==
    /\ pc[Worker] \in Late =>
          /\ \A s \in Known : s.child # None => Launched(s.child)
          /\ \A c \in Children : Released(c) => Launched(c)
    /\ pc[Worker] \in Late \ {"launched", "waiting"} => alive = {}
    /\ pc[Worker] \in {"launched", "waiting"} => alive \subseteq {Child}
    /\ \A c, d \in alive : c = d
    /\ \A c \in alive : ~Released(c)

\* The worker's way through train evaluation.
TrainInv ==
    /\ pc[Worker] \in {"next", "freeze batch", "reproduce", "checkpoint", "shortlist", "freeze"}
          => freeze = None
    /\ pc[Worker] \in {"next", "freeze batch"} =>
          mem[Worker].accepted = {} \/ "reproduction" \in mem[Worker].marks
    /\ pc[Worker] = "checkpoint" => "reproduction" \in mem[Worker].marks
    /\ pc[Worker] = "reproduce" => mem[Worker].accepted = {Baseline}
    /\ pc[Worker] \in {"freeze batch", "shortlist", "freeze", "frozen"} =>
          Base \subseteq mem[Worker].accepted
    /\ pc[Worker] \in TaskLocs /\ task.role = "train" =>
          /\ freeze = None
          /\ \/ task.cand = Baseline /\ mem[Worker].accepted = {}
             \/ task.cand # Baseline /\ "reproduction" \in mem[Worker].marks
    /\ pc[Worker] = "accepted" => task \in results

\* ... and through selection.
SelectInv ==
    /\ pc[Worker] \in TaskLocs /\ task.role = "selection" =>
          /\ counter = "ours"
          /\ freeze = mem[Worker].shortlist
          /\ task.cand \in mem[Worker].shortlist
    /\ pc[Worker] \in {"frozen", "expose", "exposed", "select", "finalize", "complete"} =>
          freeze = mem[Worker].shortlist
    /\ pc[Worker] \in {"frozen", "expose"} => counter # "ours"
    /\ pc[Worker] = "expose" => mem[Worker].shortlist # {}
    /\ pc[Worker] \in {"exposed", "select"} => counter = "ours"
    /\ pc[Worker] \in {"finalize", "complete"} =>
          /\ counter = "ours" <=> freeze # {}
          /\ \A c \in freeze : Selected(c) \in results

\* A worker that journaled a block ends, and no command took up such a state.
BlockInv ==
    /\ state # None /\ state.stage \in Blocked => pc[Worker] \in {"down", "ended"}
    /\ \A p \in Procs : pc[p] \in {"child", "index", "counter", "resumed", "supervise", "validate",
                               "lineage", "base"} => mem[p].stage \notin Blocked

RunInv ==
    /\ TypeInv /\ CountInv /\ StartInv /\ CommitInv /\ BackedInv /\ ChildInv
    /\ TrainInv /\ SelectInv /\ BlockInv
    /\ ExposureBound /\ PackageIsWhole

\* s has everything that t has.
AtLeast(s, t) ==
    /\ t.accepted \subseteq s.accepted
    /\ t.marks \subseteq s.marks
    /\ \A k \in Tasks : t.attempts[k] <= s.attempts[k]
    /\ t.batches <= s.batches
    /\ t.completed <= s.completed
    /\ t.exposure <= s.exposure

\* Until a verify command is started, the worker has all that the journal has.
Unverified == \A v \in Verifiers : opened[v] = 0
ProgressInv ==
    Unverified => /\ \A v \in Verifiers : pc[v] = "down"
                  /\ pc[Worker] # "down" => AtLeast(mem[Worker], state)

-----------------------------------------------------------------------------
(***************************************************************************)
(* States, and what a step adds to the known ones.                         *)
(***************************************************************************)

LEMMA SequenceFacts ==
    /\ DOMAIN BaseOrder = 1..Len(BaseOrder) /\ Len(BaseOrder) \in Nat /\ Len(BaseOrder) > 0
    /\ Baseline = BaseOrder[1]
    /\ DOMAIN Batches = 1..Len(Batches) /\ Len(Batches) \in Nat
    /\ \A b \in DOMAIN Batches : /\ Batches[b] # <<>>
                                 /\ DOMAIN Batches[b] = 1..Len(Batches[b])
                                 /\ \A i \in DOMAIN Batches[b] : Batches[b][i] \in Candidates
    /\ \A i \in DOMAIN BaseOrder : BaseOrder[i] \in Base
    /\ Base \subseteq Candidates /\ Baseline \in Base
<1>1. BaseOrder \in Seq(Base) /\ BaseOrder # <<>> /\ Batches \in Seq(Seq(Candidates) \ {<<>>})
  BY OrdersAreSequences
<1>2. /\ DOMAIN BaseOrder = 1..Len(BaseOrder) /\ Len(BaseOrder) \in Nat /\ Len(BaseOrder) > 0
      /\ Baseline = BaseOrder[1]
      /\ \A i \in DOMAIN BaseOrder : BaseOrder[i] \in Base
  BY <1>1 DEF Baseline
<1>3. DOMAIN Batches = 1..Len(Batches) /\ Len(Batches) \in Nat
  BY <1>1
<1>4. ASSUME NEW b \in DOMAIN Batches
      PROVE  /\ Batches[b] # <<>>
             /\ DOMAIN Batches[b] = 1..Len(Batches[b])
             /\ \A i \in DOMAIN Batches[b] : Batches[b][i] \in Candidates
  <2>1. Batches[b] \in Seq(Candidates) \ {<<>>}
    BY <1>1, <1>4
  <2> QED
    BY <2>1
<1>5. Base \subseteq Candidates
  BY DEF Candidates
<1> QED
  BY <1>2, <1>3, <1>4, <1>5

LEMMA NoneFacts ==
    /\ None \notin Children /\ None \notin Tasks /\ None \notin StateType
    /\ None \notin {"ok", "science", "infra"}
    /\ \A cs \in SUBSET Candidates : cs # None
BY NoneIsNothing

\* The states that the actions make of the one they hold.
ResumedOf(s) == [s EXCEPT !.reason = None]
ReleasedOf(s) == [s EXCEPT !.child = None]
ReconciledOf(s) == [s EXCEPT !.exposure = 1]
CompletedOf(s) == [At(s, "adaptive_iteration_completed") EXCEPT !.completed = @ + 1]
StoppedOf(s) == [At(s, "stopped_after_checkpoint") EXCEPT !.reason = "owner_stop"]
BatchedOf(s) == [At(s, "adaptive_batch_frozen") EXCEPT !.batches = @ + 1]
GeneratedOf(s, r) == [Mark(s, "generated", "generation_finished") EXCEPT !.reason = r]
AttemptedOf(s, k) == [s EXCEPT !.attempts[k] = @ + 1]
BoundOf(s, c) == At([s EXCEPT !.child = c], "candidate_child_active")
UnboundOf(s, stage) == At([s EXCEPT !.child = None], stage)
AcceptedOf(s, c) == [At(s, "candidate_train_completed") EXCEPT !.accepted = @ \cup {c}]
ShortlistedOf(s, f) == [Mark(s, "trained", "shortlist_ready") EXCEPT !.shortlist = f]
ExposedOf(s) == [At(s, "selection_exposed") EXCEPT !.exposure = 1]

\* What two states have in common.
SameRun(s, t) ==
    /\ s.accepted = t.accepted /\ s.batches = t.batches /\ s.completed = t.completed
    /\ s.shortlist = t.shortlist /\ s.exposure = t.exposure
SameTask(s, t) == s.attempts = t.attempts /\ s.child = t.child

LEMMA AtIs ==
    ASSUME NEW s \in StateType, NEW stage \in Stages
    PROVE  LET t == At(s, stage) IN
           /\ t \in StateType /\ t.stage = stage /\ t.marks = s.marks /\ t.reason = s.reason
           /\ SameRun(t, s) /\ SameTask(t, s)
BY DEF At, StateType, SameRun, SameTask

LEMMA MarkIs ==
    ASSUME NEW s \in StateType, NEW stage \in Stages, NEW mark \in Marks
    PROVE  LET t == Mark(s, mark, stage) IN
           /\ t \in StateType /\ t.stage = stage /\ t.marks = s.marks \cup {mark}
           /\ t.reason = s.reason
           /\ SameRun(t, s) /\ SameTask(t, s)
BY DEF Mark, At, StateType, SameRun, SameTask

LEMMA ResumedIs ==
    ASSUME NEW s \in StateType
    PROVE  LET t == ResumedOf(s) IN
           /\ t \in StateType /\ t.stage = s.stage /\ t.marks = s.marks /\ t.reason = None
           /\ SameRun(t, s) /\ SameTask(t, s)
BY DEF ResumedOf, StateType, Reasons, SameRun, SameTask

LEMMA ReleasedIs ==
    ASSUME NEW s \in StateType
    PROVE  LET t == ReleasedOf(s) IN
           /\ t \in StateType /\ t.stage = s.stage /\ t.marks = s.marks /\ t.reason = s.reason
           /\ SameRun(t, s) /\ t.attempts = s.attempts /\ t.child = None
BY DEF ReleasedOf, StateType, SameRun

LEMMA ReconciledIs ==
    ASSUME NEW s \in StateType
    PROVE  LET t == ReconciledOf(s) IN
           /\ t \in StateType /\ t.stage = s.stage /\ t.marks = s.marks /\ t.reason = s.reason
           /\ t.accepted = s.accepted /\ t.batches = s.batches /\ t.completed = s.completed
           /\ t.shortlist = s.shortlist /\ t.exposure = 1 /\ SameTask(t, s)
BY DEF ReconciledOf, StateType, SameTask

LEMMA ExposedIs ==
    ASSUME NEW s \in StateType
    PROVE  LET t == ExposedOf(s) IN
           /\ t \in StateType /\ t.stage = "selection_exposed" /\ t.marks = s.marks
           /\ t.accepted = s.accepted /\ t.batches = s.batches /\ t.completed = s.completed
           /\ t.shortlist = s.shortlist /\ t.exposure = 1 /\ SameTask(t, s)
<1> DEFINE a == At(s, "selection_exposed")
<1>1. "selection_exposed" \in Stages
  BY DEF Stages
<1>2. /\ a \in StateType /\ a.stage = "selection_exposed" /\ a.marks = s.marks
      /\ SameRun(a, s) /\ SameTask(a, s)
  BY <1>1, AtIs
<1>3. ExposedOf(s) = [a EXCEPT !.exposure = 1]
  BY DEF ExposedOf
<1> HIDE DEF a
<1> QED
  BY <1>2, <1>3 DEF StateType, SameRun, SameTask

LEMMA CompletedIs ==
    ASSUME NEW s \in StateType
    PROVE  LET t == CompletedOf(s) IN
           /\ t \in StateType /\ t.stage = "adaptive_iteration_completed" /\ t.marks = s.marks
           /\ t.accepted = s.accepted /\ t.batches = s.batches
           /\ t.completed = s.completed + 1
           /\ t.shortlist = s.shortlist /\ t.exposure = s.exposure /\ SameTask(t, s)
<1> DEFINE a == At(s, "adaptive_iteration_completed")
<1>1. "adaptive_iteration_completed" \in Stages
  BY DEF Stages
<1>2. /\ a \in StateType /\ a.stage = "adaptive_iteration_completed" /\ a.marks = s.marks
      /\ SameRun(a, s) /\ SameTask(a, s)
  BY <1>1, AtIs
<1>3. CompletedOf(s) = [a EXCEPT !.completed = @ + 1]
  BY DEF CompletedOf
<1> HIDE DEF a
<1> QED
  BY <1>2, <1>3 DEF StateType, SameRun, SameTask

LEMMA StoppedIs ==
    ASSUME NEW s \in StateType
    PROVE  LET t == StoppedOf(s) IN
           /\ t \in StateType /\ t.stage = "stopped_after_checkpoint" /\ t.marks = s.marks
           /\ SameRun(t, s) /\ SameTask(t, s)
BY DEF StoppedOf, At, StateType, Stages, Reasons, SameRun, SameTask

LEMMA BatchedIs ==
    ASSUME NEW s \in StateType
    PROVE  LET t == BatchedOf(s) IN
           /\ t \in StateType /\ t.stage = "adaptive_batch_frozen" /\ t.marks = s.marks
           /\ t.accepted = s.accepted /\ t.batches = s.batches + 1
           /\ t.completed = s.completed
           /\ t.shortlist = s.shortlist /\ t.exposure = s.exposure /\ SameTask(t, s)
<1> DEFINE a == At(s, "adaptive_batch_frozen")
<1>1. "adaptive_batch_frozen" \in Stages
  BY DEF Stages
<1>2. /\ a \in StateType /\ a.stage = "adaptive_batch_frozen" /\ a.marks = s.marks
      /\ SameRun(a, s) /\ SameTask(a, s)
  BY <1>1, AtIs
<1>3. BatchedOf(s) = [a EXCEPT !.batches = @ + 1]
  BY DEF BatchedOf
<1> HIDE DEF a
<1> QED
  BY <1>2, <1>3 DEF StateType, SameRun, SameTask

LEMMA GeneratedIs ==
    ASSUME NEW s \in StateType, NEW r \in Reasons
    PROVE  LET t == GeneratedOf(s, r) IN
           /\ t \in StateType /\ t.stage = "generation_finished"
           /\ t.marks = s.marks \cup {"generated"}
           /\ SameRun(t, s) /\ SameTask(t, s)
BY DEF GeneratedOf, Mark, At, StateType, Stages, Marks, SameRun, SameTask

LEMMA AttemptedIs ==
    ASSUME NEW s \in StateType, NEW k \in Tasks, s.attempts[k] # 2
    PROVE  LET t == AttemptedOf(s, k) IN
           /\ t \in StateType /\ t.stage = s.stage /\ t.marks = s.marks /\ t.reason = s.reason
           /\ SameRun(t, s) /\ t.child = s.child
           /\ t.attempts[k] = s.attempts[k] + 1 /\ t.attempts[k] \in 1..2
           /\ \A j \in Tasks : s.attempts[j] <= t.attempts[j]
<1>1. s.attempts \in [Tasks -> 0..2] /\ s.attempts[k] \in 0..1
  BY DEF StateType
<1>2. [s.attempts EXCEPT ![k] = @ + 1] \in [Tasks -> 0..2]
  BY <1>1
<1>3. /\ AttemptedOf(s, k) \in StateType
      /\ AttemptedOf(s, k).attempts = [s.attempts EXCEPT ![k] = @ + 1]
  BY <1>2 DEF AttemptedOf, StateType
<1>4. /\ AttemptedOf(s, k).stage = s.stage /\ AttemptedOf(s, k).marks = s.marks
      /\ AttemptedOf(s, k).reason = s.reason /\ AttemptedOf(s, k).child = s.child
      /\ SameRun(AttemptedOf(s, k), s)
  BY DEF AttemptedOf, StateType, SameRun
<1> QED
  BY <1>1, <1>2, <1>3, <1>4

LEMMA BoundIs ==
    ASSUME NEW s \in StateType, NEW c \in Children
    PROVE  LET t == BoundOf(s, c) IN
           /\ t \in StateType /\ t.stage = "candidate_child_active" /\ t.marks = s.marks
           /\ SameRun(t, s) /\ t.attempts = s.attempts /\ t.child = c
BY DEF BoundOf, At, StateType, Stages, SameRun

LEMMA UnboundIs ==
    ASSUME NEW s \in StateType, NEW stage \in Stages
    PROVE  LET t == UnboundOf(s, stage) IN
           /\ t \in StateType /\ t.stage = stage /\ t.marks = s.marks
           /\ SameRun(t, s) /\ t.attempts = s.attempts /\ t.child = None
BY DEF UnboundOf, At, StateType, SameRun

LEMMA AcceptedIs ==
    ASSUME NEW s \in StateType, NEW c \in Candidates
    PROVE  LET t == AcceptedOf(s, c) IN
           /\ t \in StateType /\ t.stage = "candidate_train_completed" /\ t.marks = s.marks
           /\ t.accepted = s.accepted \cup {c} /\ t.batches = s.batches
           /\ t.completed = s.completed
           /\ t.shortlist = s.shortlist /\ t.exposure = s.exposure /\ SameTask(t, s)
BY DEF AcceptedOf, At, StateType, Stages, SameTask

LEMMA ShortlistedIs ==
    ASSUME NEW s \in StateType, NEW f \in SUBSET Candidates
    PROVE  LET t == ShortlistedOf(s, f) IN
           /\ t \in StateType /\ t.stage = "shortlist_ready"
           /\ t.marks = s.marks \cup {"trained"}
           /\ t.accepted = s.accepted /\ t.batches = s.batches /\ t.completed = s.completed
           /\ t.shortlist = f /\ t.exposure = s.exposure /\ SameTask(t, s)
BY DEF ShortlistedOf, Mark, At, StateType, Stages, Marks, SameTask

LEMMA SameFields ==
    ASSUME NEW s \in StateType, NEW t \in StateType,
           s.stage = t.stage, s.marks = t.marks, s.reason = t.reason,
           SameRun(s, t), SameTask(s, t)
    PROVE  s = t
BY DEF StateType, SameRun, SameTask

\* The actions, one disjunct for each.
LEMMA NextCases ==
    ASSUME Next
    PROVE  \/ Start \/ Resume \/ Supervise
           \/ Validate \/ RecordLineage \/ RegisterBase \/ WriteCommitment \/ JournalCommitment
           \/ NextCandidate \/ CompleteIteration \/ StopAtCheckpoint \/ PassCheckpoint
           \/ AcknowledgeStop \/ ProposeBatch \/ ProposerFails \/ FreezeBatch \/ FinishGeneration
           \/ Attempt \/ BindChild \/ CannotBindChild \/ ChildFinished \/ ChildTimesOut
           \/ CollectOutput \/ InfrastructureFailure \/ ScientificFailure \/ AcceptResult
           \/ JournalResult \/ ReproduceBaseline
           \/ DeriveShortlist \/ WriteFreeze \/ JournalFreeze \/ SwapCounter \/ JournalExposure
           \/ NextFinalist \/ FinalistsDone \/ WritePackage \/ Complete
           \/ \E p \in Procs : \/ Load(p) \/ CheckChild(p) \/ QuarantineIndexes(p)
                               \/ ReconcileCounter(p) \/ Leave(p) \/ Crash(p)
           \/ \E c \in Children : \/ ChildIndexes(c) \/ ChildWrites(c)
                                  \/ \E code \in {"ok", "science", "infra"} : ChildExits(c, code)
           \/ RequestStop \/ OtherRunExposes
BY DEF Next, WorkerStep, Checks, Procs

\* What a step of p does to the memory and the place of the processes, and to
\* the journal.
Others(p) ==
    /\ \A q \in Procs \ {p} : mem'[q] = mem[q] /\ pc'[q] = pc[q]
    /\ mem' \in [Procs -> StateType \cup {None}]
    /\ pc' \in [Procs -> Locations]
Moves(p, s, l) == mem'[p] = s /\ pc'[p] = l /\ Others(p)
Appends(p, key, s, l) ==
    /\ Others(p) /\ mem'[p] = s
    /\ \/ /\ state' = s /\ pc'[p] = l
          /\ keyed' = keyed \cup {[key |-> key, state |-> s]}
          /\ \A e \in keyed : e.key # key
       \/ /\ UNCHANGED <<state, keyed>> /\ pc'[p] \in {l, "conflict"}
          /\ \E e \in keyed : e.key = key
          /\ pc'[p] = l => \E e \in keyed : e.key = key /\ e.state = s
Grows(p, key, s, l) ==
    /\ Others(p) /\ mem'[p] = s /\ pc'[p] \in {l, "conflict"} /\ state' \in {state, s}
    /\ keyed \subseteq keyed' /\ keyed' \subseteq keyed \cup {[key |-> key, state |-> s]}
    /\ \E e \in keyed' : e.key = key

LEMMA GotoIs ==
    ASSUME TypeOK, NEW p \in Procs, NEW l \in Locations, Goto(p, l), UNCHANGED mem
    PROVE  Moves(p, mem[p], l)
BY DEF TypeOK, Goto, Moves, Others

LEMMA GoesTo ==
    ASSUME TypeOK, NEW p \in Procs, NEW s \in StateType \cup {None}, NEW l \in Locations,
           Hold(p, s), Goto(p, l)
    PROVE  Moves(p, s, l)
BY DEF TypeOK, Hold, Goto, Moves, Others

LEMMA JournalIs ==
    ASSUME TypeOK, NEW p \in Procs, NEW s \in StateType, NEW l \in Locations, Journal(p, s, l)
    PROVE  state' = s /\ Moves(p, s, l)
BY GoesTo DEF Journal

LEMMA VanishIs ==
    ASSUME TypeOK, NEW p \in Procs, Vanish(p)
    PROVE  /\ Moves(p, None, "down")
           /\ p = Worker => task' = None /\ exit' = None
           /\ p # Worker => task' = task /\ exit' = exit
<1>1. "down" \in Locations
  BY DEF Locations
<1> QED
  BY <1>1, GoesTo DEF Vanish

LEMMA JournalOnceIs ==
    ASSUME TypeOK, NEW p \in Procs, NEW key \in Keys, NEW s \in StateType,
           NEW l \in Locations \ {"conflict"}, JournalOnce(p, key, s, l)
    PROVE  Appends(p, key, s, l)
<1> DEFINE before == {e \in keyed : e.key = key}
<1>1. CASE before = {}
  <2>1. Journal(p, s, l) /\ keyed' = keyed \cup {[key |-> key, state |-> s]}
    BY <1>1 DEF JournalOnce
  <2>2. \A e \in keyed : e.key # key
    BY <1>1
  <2> QED
    BY <2>1, <2>2, JournalIs DEF Moves, Appends
<1>2. CASE before # {}
  <2>1. /\ UNCHANGED <<state, keyed>>
        /\ Hold(p, s)
        /\ Goto(p, IF \E e \in before : e.state = s THEN l ELSE "conflict")
    BY <1>2 DEF JournalOnce
  <2>2. "conflict" \in Locations
    BY DEF Locations
  <2>3. \E e \in keyed : e.key = key
    BY <1>2
  <2>4. CASE \E e \in before : e.state = s
    BY <2>1, <2>3, <2>4, GoesTo DEF Moves, Appends
  <2>5. CASE ~\E e \in before : e.state = s
    BY <2>1, <2>2, <2>3, <2>5, GoesTo DEF Moves, Appends
  <2> QED
    BY <2>4, <2>5
<1> QED
  BY <1>1, <1>2

LEMMA JournalOnceAdds ==
    ASSUME TypeOK, NEW p \in Procs, NEW key \in Keys, NEW s \in StateType,
           NEW l \in Locations \ {"conflict"}, JournalOnce(p, key, s, l)
    PROVE  Grows(p, key, s, l)
<1> DEFINE new == [key |-> key, state |-> s]
<1>1. new.key = key
  OBVIOUS
<1>2. Appends(p, key, s, l)
  BY JournalOnceIs
<1> HIDE DEF new
<1>3. /\ Others(p) /\ mem'[p] = s
      /\ \/ state' = s /\ pc'[p] = l /\ keyed' = keyed \cup {new}
         \/ /\ UNCHANGED <<state, keyed>> /\ pc'[p] \in {l, "conflict"}
            /\ \E e \in keyed : e.key = key
  BY <1>2 DEF Appends, new
<1>4. /\ keyed \subseteq keyed' /\ keyed' \subseteq keyed \cup {new}
      /\ \E e \in keyed' : e.key = key
  BY <1>1, <1>3
<1> QED
  BY <1>3, <1>4 DEF Grows, new

-----------------------------------------------------------------------------
(***************************************************************************)
(* Types.                                                                  *)
(***************************************************************************)

LEMMA InitialTyped == Initial \in StateType /\ "initialized" \in Stages
BY DEF Initial, StateType, Stages, Reasons

\* The worker holds a state wherever it is at work.
LEMMA Holds ==
    ASSUME TypeInv, NEW p \in Procs, pc[p] # "down"
    PROVE  mem[p] \in StateType /\ state \in StateType
BY DEF TypeInv, TypeOK

LEMMA WorkerIs == Worker \in Procs /\ Worker \notin Verifiers /\ Procs = Verifiers \cup {Worker}
BY WorkerIsNoVerifier DEF Procs

\* The places between which a worker goes, none of which has a child.
LEMMA TypeKept ==
    ASSUME TypeInv, TypeOK', opened' \in [Procs -> Nat],
           \A v \in Verifiers : pc'[v] = pc[v] /\ mem'[v] = mem[v],
           mem'[Worker] # None, pc'[Worker] \notin {"down", "launched", "waiting"},
           state' # None,
           pc'[Worker] \in TaskLocs => task' \in Tasks,
           exit' = None
    PROVE  TypeInv'
<1> USE WorkerIs DEF TypeInv
<1>1. \A p \in Procs : /\ pc'[p] = "down" <=> mem'[p] = None
                       /\ pc'[p] # "down" => state' # None
  OBVIOUS
<1>2. \A v \in Verifiers : pc'[v] \in {"down", "ended", "conflict", "child", "index", "counter"}
  OBVIOUS
<1> QED
  BY <1>1, <1>2

LEMMA TypeInit == Init => TypeInv
<1> SUFFICES ASSUME Init
             PROVE  TypeInv
  OBVIOUS
<1>1. TypeOK
  <2>1. \A p \in Procs : opened[p] \in 0..Limit(p)
    BY BoundIsNumber DEF Init, Limit
  <2>2. batchFiles \in 0..Len(Batches)
    BY SequenceFacts DEF Init
  <2>3. pc \in [Procs -> Locations] /\ mem \in [Procs -> StateType \cup {None}]
    BY DEF Init, Locations
  <2>4. state \in StateType \cup {None} /\ keyed \subseteq [key: Keys, state: StateType]
    BY DEF Init
  <2> QED
    BY <2>1, <2>2, <2>3, <2>4 DEF Init, TypeOK
<1>2. \A p \in Procs : pc[p] = "down" /\ mem[p] = None
  BY DEF Init
<1> QED
  BY <1>1, <1>2, WorkerIs DEF Init, TypeInv, TaskLocs

\* What Load, the validation and the end of a process do to p, worker or not.
LEMMA LoadTyped ==
    ASSUME TypeInv, NEW p \in Procs, Load(p)
    PROVE  TypeInv'
<1> USE WorkerIs
<1>1. state \in StateType
  BY DEF Load, TypeInv, TypeOK
<1>2. Hold(p, state) /\ Goto(p, "child") /\ TypeOK
  BY DEF Load, TypeInv
<1>3. Moves(p, state, "child")
  <2>1. "child" \in Locations
    BY DEF Locations
  <2> QED
    BY <1>1, <1>2, <2>1, GoesTo
<1> USE DEF Moves, Others
<1>4. /\ opened' \in [Procs -> Nat]
      /\ \A q \in Procs : opened'[q] \in 0..Limit(q)
  BY BoundIsNumber DEF Load, TypeInv, TypeOK, Limit
<1>5. TypeOK'
  BY <1>1, <1>3, <1>4 DEF Load, TypeInv, TypeOK, artifacts, os
<1>6. \A q \in Procs : /\ pc'[q] = "down" <=> mem'[q] = None
                       /\ pc'[q] # "down" => state' # None
  BY <1>1, <1>3, NoneFacts DEF Load, TypeInv
<1>7. \A v \in Verifiers : pc'[v] \in {"down", "ended", "conflict", "child", "index", "counter"}
  BY <1>3 DEF TypeInv
<1>8. CASE p = Worker
  <2>1. exit = None
    BY <1>8 DEF Load, TypeInv
  <2> QED
    BY <1>3, <1>4, <1>5, <1>6, <1>7, <1>8, <2>1 DEF TypeInv, TaskLocs, Load, os
<1>9. CASE p # Worker
  <2>1. mem'[Worker] = mem[Worker] /\ pc'[Worker] = pc[Worker] /\ UNCHANGED <<task, exit, alive>>
    BY <1>3, <1>9 DEF Load, os
  <2>2. Attempts' = Attempts /\ Child' = Child
    BY <2>1 DEF Attempts, Child
  <2> QED
    BY <1>4, <1>5, <1>6, <1>7, <2>1, <2>2 DEF TypeInv
<1> QED
  BY <1>8, <1>9

\* A step of p that goes through its validation.
LEMMA CheckTyped ==
    ASSUME TypeInv, TypeOK', NEW p \in Procs, pc[p] \in {"child", "index", "counter"},
           mem'[p] # None, state' # None,
           pc'[p] \in {"child", "index", "counter", "ended", "conflict", Validated(p)},
           \A q \in Procs \ {p} : mem'[q] = mem[q] /\ pc'[q] = pc[q],
           UNCHANGED <<alive, exit, task, opened>>
    PROVE  TypeInv'
<1> USE WorkerIs
<1>1. \A q \in Procs : /\ pc'[q] = "down" <=> mem'[q] = None
                       /\ pc'[q] # "down" => state' # None
  BY DEF TypeInv, Validated
<1>2. \A v \in Verifiers : pc'[v] \in {"down", "ended", "conflict", "child", "index", "counter"}
  BY DEF TypeInv, Validated
<1>3. CASE p = Worker
  BY <1>1, <1>2, <1>3 DEF TypeInv, TaskLocs, Validated
<1>4. CASE p # Worker
  <2>1. mem'[Worker] = mem[Worker] /\ pc'[Worker] = pc[Worker]
    BY <1>4
  <2>2. Attempts' = Attempts /\ Child' = Child
    BY <2>1 DEF Attempts, Child
  <2> QED
    BY <1>1, <1>2, <2>1, <2>2 DEF TypeInv
<1> QED
  BY <1>3, <1>4

LEMMA ValidationTyped ==
    ASSUME TypeInv, NEW p \in Procs,
           CheckChild(p) \/ QuarantineIndexes(p) \/ ReconcileCounter(p)
    PROVE  TypeInv'
<1> USE WorkerIs
<1>1. /\ TypeOK /\ mem[p] \in StateType /\ state \in StateType /\ mem[p] # None
      /\ [mem[p] EXCEPT !.child = None] \in StateType
      /\ [mem[p] EXCEPT !.exposure = 1] \in StateType
      /\ Validated(p) \in {"ended", "resumed"}
  <2>1. mem[p] \in StateType /\ state \in StateType
    BY Holds DEF CheckChild, QuarantineIndexes, ReconcileCounter
  <2>2. [mem[p] EXCEPT !.child = None] \in StateType
    BY <2>1 DEF StateType
  <2>3. [mem[p] EXCEPT !.exposure = 1] \in StateType
    BY <2>1 DEF StateType
  <2> QED
    BY <2>1, <2>2, <2>3, NoneFacts DEF Validated, TypeInv
<1> USE NoneFacts
<1>2. CASE CheckChild(p)
  <2> DEFINE child == mem[p].child
             s == [mem[p] EXCEPT !.child = None]
  <2>1. CASE child \in alive \/ child = None
    <3>1. PICK l \in {"ended", "index"} : Goto(p, l) /\ UNCHANGED <<state, keyed, mem>>
      BY <1>2, <2>1 DEF CheckChild
    <3>2. Moves(p, mem[p], l)
      <4>1. l \in Locations
        BY DEF Locations
      <4> QED
        BY <1>1, <3>1, <4>1, GotoIs
    <3>3. TypeOK'
      BY <1>1, <1>2, <3>1, <3>2 DEF TypeOK, CheckChild, artifacts, os, Moves, Others
    <3> QED
      BY <1>1, <1>2, <3>1, <3>2, <3>3, CheckTyped DEF CheckChild, os, Moves, Others
  <2>2. CASE ~(child \in alive \/ child = None)
    <3> DEFINE key == <<"released", child>>
    <3>1. JournalOnce(p, key, s, "index")
      BY <1>2, <2>2 DEF CheckChild
    <3>2. key \in Keys /\ s \in StateType
      BY <1>1, <2>2 DEF StateType, Keys
    <3> HIDE DEF key, s
    <3>3. "index" \in Locations \ {"conflict"}
      BY DEF Locations
    <3>4. Grows(p, key, s, "index")
      BY <1>1, <3>1, <3>2, <3>3, JournalOnceAdds
    <3>5. TypeOK'
      BY <1>1, <1>2, <3>2, <3>4 DEF TypeOK, CheckChild, artifacts, os, Grows, Others
    <3>6. mem'[p] # None /\ state' # None
      BY <1>1, <3>2, <3>4 DEF Grows
    <3> QED
      BY <1>1, <1>2, <3>4, <3>5, <3>6, CheckTyped DEF CheckChild, os, Grows, Others
  <2> QED
    BY <2>1, <2>2
<1>3. CASE QuarantineIndexes(p)
  <2>1. Moves(p, mem[p], "counter") /\ state' \in {state, mem[p]}
    <3>1. "counter" \in Locations
      BY DEF Locations
    <3>2. CASE partial
      BY <1>1, <1>3, <3>1, <3>2, JournalIs DEF QuarantineIndexes
    <3>3. CASE ~partial
      BY <1>1, <1>3, <3>1, <3>3, GotoIs DEF QuarantineIndexes
    <3> QED
      BY <3>2, <3>3
  <2>2. TypeOK'
    BY <1>1, <1>3, <2>1 DEF TypeOK, QuarantineIndexes, artifacts, Moves, Others
  <2> QED
    BY <1>1, <1>3, <2>1, <2>2, CheckTyped DEF QuarantineIndexes, Moves, Others
<1>4. CASE ReconcileCounter(p)
  <2> DEFINE s == [mem[p] EXCEPT !.exposure = 1]
             key == <<"reconciled">>
  <2>1. \/ \E l \in {"ended", Validated(p)} : Goto(p, l) /\ UNCHANGED <<state, keyed, mem>>
        \/ JournalOnce(p, key, s, Validated(p))
    BY <1>4 DEF ReconcileCounter
  <2>2. /\ Validated(p) \in Locations \ {"conflict"} /\ "ended" \in Locations
        /\ key \in Keys /\ s \in StateType
    BY <1>1 DEF Locations, Keys
  <2> HIDE DEF key, s
  <2>3. CASE JournalOnce(p, key, s, Validated(p))
    <3>1. Grows(p, key, s, Validated(p))
      BY <1>1, <2>2, <2>3, JournalOnceAdds
    <3>2. TypeOK'
      BY <1>1, <1>4, <2>2, <3>1 DEF TypeOK, ReconcileCounter, artifacts, os, Grows, Others
    <3>3. mem'[p] # None /\ state' # None
      BY <1>1, <2>2, <3>1 DEF Grows
    <3> QED
      BY <1>1, <1>4, <3>1, <3>2, <3>3, CheckTyped DEF ReconcileCounter, os, Grows, Others
  <2>4. ASSUME NEW l \in {"ended", Validated(p)}, Goto(p, l), UNCHANGED <<state, keyed, mem>>
        PROVE  TypeInv'
    <3>1. Moves(p, mem[p], l)
      BY <1>1, <2>2, <2>4, GotoIs
    <3>2. TypeOK'
      BY <1>1, <1>4, <2>4, <3>1 DEF TypeOK, ReconcileCounter, artifacts, os, Moves, Others
    <3> QED
      BY <1>1, <1>4, <2>4, <3>1, <3>2, CheckTyped DEF ReconcileCounter, os, Moves, Others
  <2> QED
    BY <2>1, <2>3, <2>4
<1> QED
  BY <1>2, <1>3, <1>4

\* A step of the worker that changes no child.
LEMMA WorkerTyped ==
    ASSUME TypeInv, NEW s \in StateType,
           NEW l \in Locations \ {"down", "launched", "waiting"},
           Moves(Worker, s, l), state' \in StateType, exit' = None,
           l \in TaskLocs => task' \in Tasks, task' \in Tasks \cup {None},
           UNCHANGED <<keyed, opened, alive>>,
           commitment' \in BOOLEAN, results' \subseteq Tasks,
           batchFiles' \in 0..Len(Batches), freeze' \in (SUBSET Candidates) \cup {None},
           package' \in BOOLEAN, outputs' \subseteq Tasks, partial' \in BOOLEAN,
           stop' \in {"none", "pending", "acknowledged"}, counter' \in {"free", "ours", "other"}
    PROVE  TypeInv'
<1>1. /\ \A v \in Verifiers : pc'[v] = pc[v] /\ mem'[v] = mem[v]
      /\ mem'[Worker] = s /\ pc'[Worker] = l
      /\ mem' \in [Procs -> StateType \cup {None}]
      /\ pc' \in [Procs -> Locations]
  BY WorkerIs DEF Moves, Others
<1>2. TypeOK'
  BY <1>1 DEF TypeInv, TypeOK
<1>3. opened' \in [Procs -> Nat]
  BY DEF TypeInv
<1>4. s # None /\ state' # None
  BY NoneFacts
<1>5. exit' = None
  OBVIOUS
<1> QED
  BY <1>1, <1>2, <1>3, <1>4, <1>5, TypeKept

\* ... and nothing but the journal, the memory and the place of the worker.
LEMMA JournalTyped ==
    ASSUME TypeInv, pc[Worker] \notin {"launched", "waiting"}, NEW s \in StateType,
           NEW l \in Locations \ {"down", "launched", "waiting"},
           Moves(Worker, s, l), state' \in StateType,
           l \in TaskLocs => pc[Worker] \in TaskLocs,
           UNCHANGED <<keyed, artifacts, stop, counter, os, task, opened>>
    PROVE  TypeInv'
<1>1. exit' = None /\ UNCHANGED <<task, alive, outputs, partial, stop, counter, keyed, opened>>
  BY DEF TypeInv, os
<1>2. UNCHANGED <<commitment, results, batchFiles, freeze, package>>
  BY DEF artifacts
<1>3. /\ task' \in Tasks \cup {None} /\ commitment' \in BOOLEAN /\ results' \subseteq Tasks
      /\ batchFiles' \in 0..Len(Batches) /\ freeze' \in (SUBSET Candidates) \cup {None}
      /\ package' \in BOOLEAN /\ outputs' \subseteq Tasks /\ partial' \in BOOLEAN
      /\ stop' \in {"none", "pending", "acknowledged"} /\ counter' \in {"free", "ours", "other"}
  BY <1>1, <1>2 DEF TypeInv, TypeOK
<1>4. l \in TaskLocs => task' \in Tasks
  BY <1>1 DEF TypeInv
<1> QED
  BY <1>1, <1>3, <1>4, WorkerTyped

-----------------------------------------------------------------------------
(***************************************************************************)
(* What the actions of the worker journal, and where it goes.              *)
(***************************************************************************)

Journals(s, l) ==
    /\ s \in StateType /\ l \in Locations \ {"down", "launched", "waiting"}
    /\ state' = s /\ Moves(Worker, s, l)
Goes(l) ==
    /\ l \in Locations \ {"down", "launched", "waiting"}
    /\ UNCHANGED <<state, mem>> /\ Moves(Worker, mem[Worker], l)

LEMMA JournalsIs ==
    ASSUME TypeInv, NEW s \in StateType, NEW l \in Locations \ {"down", "launched", "waiting"},
           Journal(Worker, s, l)
    PROVE  Journals(s, l)
BY JournalIs, WorkerIs DEF Journals, TypeInv

LEMMA GoesIs ==
    ASSUME TypeInv, NEW l \in Locations \ {"down", "launched", "waiting"},
           Goto(Worker, l), UNCHANGED <<state, mem>>
    PROVE  Goes(l)
BY GotoIs, WorkerIs DEF Goes, TypeInv

LEMMA JournalSteps ==
    ASSUME TypeInv
    PROVE  /\ Supervise => Journals(At(mem[Worker], "supervisor_ready"), "validate")
           /\ RecordLineage => Journals(Mark(mem[Worker], "lineage", "owner_inputs_validated"), "base")
           /\ JournalCommitment => Journals(Mark(mem[Worker], "commitment", "baseline_committed"), "next")
           /\ CompleteIteration => Journals(CompletedOf(mem[Worker]), "next")
           /\ StopAtCheckpoint => Journals(StoppedOf(mem[Worker]), "acknowledge")
           /\ ProposerFails => Journals(At(state, "awaiting_proposer_recovery"), "ended")
           /\ FreezeBatch => Journals(BatchedOf(mem[Worker]), "next")
           /\ ScientificFailure => Journals(At(mem[Worker], "blocked_scientific"), "ended")
           /\ JournalExposure => Journals(ExposedOf(mem[Worker]), "select")
           /\ Complete => Journals(Mark(mem[Worker], "package", "measured_complete"), "ended")
<1> USE WorkerIs
<1>1. ASSUME Supervise
      PROVE  Journals(At(mem[Worker], "supervisor_ready"), "validate")
  <2>1. "supervisor_ready" \in Stages /\ "validate" \in Locations \ {"down", "launched", "waiting"}
    BY DEF Locations, Stages
  <2>2. mem[Worker] \in StateType /\ state \in StateType
    BY <1>1, Holds DEF Supervise
  <2>3. At(mem[Worker], "supervisor_ready") \in StateType
    BY <2>1, <2>2, AtIs
  <2> QED
    BY <1>1, <2>1, <2>3, JournalsIs DEF Supervise
<1>2. ASSUME RecordLineage
      PROVE  Journals(Mark(mem[Worker], "lineage", "owner_inputs_validated"), "base")
  <2>1. "owner_inputs_validated" \in Stages /\ "lineage" \in Marks /\ "base" \in Locations \ {"down", "launched", "waiting"}
    BY DEF Locations, Stages, Marks
  <2>2. mem[Worker] \in StateType /\ state \in StateType
    BY <1>2, Holds DEF RecordLineage
  <2>3. Mark(mem[Worker], "lineage", "owner_inputs_validated") \in StateType
    BY <2>1, <2>2, MarkIs
  <2> QED
    BY <1>2, <2>1, <2>3, JournalsIs DEF RecordLineage
<1>3. ASSUME JournalCommitment
      PROVE  Journals(Mark(mem[Worker], "commitment", "baseline_committed"), "next")
  <2>1. "baseline_committed" \in Stages /\ "commitment" \in Marks /\ "next" \in Locations \ {"down", "launched", "waiting"}
    BY DEF Locations, Stages, Marks
  <2>2. mem[Worker] \in StateType /\ state \in StateType
    BY <1>3, Holds DEF JournalCommitment
  <2>3. Mark(mem[Worker], "commitment", "baseline_committed") \in StateType
    BY <2>1, <2>2, MarkIs
  <2> QED
    BY <1>3, <2>1, <2>3, JournalsIs DEF JournalCommitment
<1>4. ASSUME CompleteIteration
      PROVE  Journals(CompletedOf(mem[Worker]), "next")
  <2>1. "next" \in Locations \ {"down", "launched", "waiting"}
    BY DEF Locations
  <2>2. mem[Worker] \in StateType /\ state \in StateType
    BY <1>4, Holds DEF CompleteIteration
  <2>3. CompletedOf(mem[Worker]) \in StateType
    BY <2>1, <2>2, CompletedIs
  <2> QED
    BY <1>4, <2>1, <2>3, JournalsIs DEF CompleteIteration, CompletedOf
<1>5. ASSUME StopAtCheckpoint
      PROVE  Journals(StoppedOf(mem[Worker]), "acknowledge")
  <2>1. "acknowledge" \in Locations \ {"down", "launched", "waiting"}
    BY DEF Locations
  <2>2. mem[Worker] \in StateType /\ state \in StateType
    BY <1>5, Holds DEF StopAtCheckpoint, LoopHead
  <2>3. StoppedOf(mem[Worker]) \in StateType
    BY <2>1, <2>2, StoppedIs
  <2> QED
    BY <1>5, <2>1, <2>3, JournalsIs DEF StopAtCheckpoint, StoppedOf
<1>6. ASSUME ProposerFails
      PROVE  Journals(At(state, "awaiting_proposer_recovery"), "ended")
  <2>1. "awaiting_proposer_recovery" \in Stages /\ "ended" \in Locations \ {"down", "launched", "waiting"}
    BY DEF Locations, Stages
  <2>2. mem[Worker] \in StateType /\ state \in StateType
    BY <1>6, Holds DEF ProposerFails, LoopHead
  <2>3. At(state, "awaiting_proposer_recovery") \in StateType
    BY <2>1, <2>2, AtIs
  <2> QED
    BY <1>6, <2>1, <2>3, JournalsIs DEF ProposerFails
<1>7. ASSUME FreezeBatch
      PROVE  Journals(BatchedOf(mem[Worker]), "next")
  <2>1. "next" \in Locations \ {"down", "launched", "waiting"}
    BY DEF Locations
  <2>2. mem[Worker] \in StateType /\ state \in StateType
    BY <1>7, Holds DEF FreezeBatch
  <2>3. BatchedOf(mem[Worker]) \in StateType
    BY <2>1, <2>2, BatchedIs
  <2> QED
    BY <1>7, <2>1, <2>3, JournalsIs DEF FreezeBatch, BatchedOf
<1>8. ASSUME ScientificFailure
      PROVE  Journals(At(mem[Worker], "blocked_scientific"), "ended")
  <2>1. "blocked_scientific" \in Stages /\ "ended" \in Locations \ {"down", "launched", "waiting"}
    BY DEF Locations, Stages, Blocked
  <2>2. mem[Worker] \in StateType /\ state \in StateType
    BY <1>8, Holds DEF ScientificFailure
  <2>3. At(mem[Worker], "blocked_scientific") \in StateType
    BY <2>1, <2>2, AtIs
  <2> QED
    BY <1>8, <2>1, <2>3, JournalsIs DEF ScientificFailure
<1>9. ASSUME JournalExposure
      PROVE  Journals(ExposedOf(mem[Worker]), "select")
  <2>1. "select" \in Locations \ {"down", "launched", "waiting"}
    BY DEF Locations
  <2>2. mem[Worker] \in StateType /\ state \in StateType
    BY <1>9, Holds DEF JournalExposure
  <2>3. ExposedOf(mem[Worker]) \in StateType
    BY <2>1, <2>2, ExposedIs
  <2> QED
    BY <1>9, <2>1, <2>3, JournalsIs DEF JournalExposure, ExposedOf
<1>10. ASSUME Complete
      PROVE  Journals(Mark(mem[Worker], "package", "measured_complete"), "ended")
  <2>1. "measured_complete" \in Stages /\ "package" \in Marks /\ "ended" \in Locations \ {"down", "launched", "waiting"}
    BY DEF Locations, Stages, Marks
  <2>2. mem[Worker] \in StateType /\ state \in StateType
    BY <1>10, Holds DEF Complete
  <2>3. Mark(mem[Worker], "package", "measured_complete") \in StateType
    BY <2>1, <2>2, MarkIs
  <2> QED
    BY <1>10, <2>1, <2>3, JournalsIs DEF Complete
<1> QED
  BY <1>1, <1>2, <1>3, <1>4, <1>5, <1>6, <1>7, <1>8, <1>9, <1>10

LEMMA GoesSteps ==
    ASSUME TypeInv
    PROVE  /\ PassCheckpoint => Goes("next")
           /\ AcknowledgeStop => Goes("ended")
           /\ ProposeBatch => Goes("freeze batch")
           /\ NextCandidate \/ NextFinalist => Goes("attempt")
           /\ CollectOutput => Goes("accept")
           /\ FinalistsDone => Goes("finalize")
           /\ WriteCommitment => \/ Goes("next") /\ "commitment" \in mem[Worker].marks
                                 \/ Goes("ended") /\ commitment /\ commitment'
                                 \/ Goes("committed") /\ ~commitment /\ commitment'
           /\ WriteFreeze => Goes("frozen")
           /\ SwapCounter => \/ Goes("exposed") /\ counter = "free" /\ counter' = "ours"
                             \/ Goes("ended") /\ counter' = counter
           /\ WritePackage => Goes("complete")
<1>1. {"next", "ended", "freeze batch", "attempt", "accept", "finalize", "committed", "frozen",
       "exposed", "complete"} \subseteq Locations \ {"down", "launched", "waiting"}
  BY DEF Locations
<1>2. commitment \in BOOLEAN
  BY DEF TypeInv, TypeOK
<1>3. PassCheckpoint => Goes("next")
  BY <1>1, GoesIs DEF PassCheckpoint
<1>4. AcknowledgeStop => Goes("ended")
  BY <1>1, GoesIs DEF AcknowledgeStop
<1>5. ProposeBatch => Goes("freeze batch")
  BY <1>1, GoesIs DEF ProposeBatch
<1>6. NextCandidate => Goes("attempt")
  BY <1>1, GoesIs DEF NextCandidate
<1>7. NextFinalist => Goes("attempt")
  BY <1>1, GoesIs DEF NextFinalist
<1>8. CollectOutput => Goes("accept")
  BY <1>1, GoesIs DEF CollectOutput
<1>9. FinalistsDone => Goes("finalize")
  BY <1>1, GoesIs DEF FinalistsDone
<1>10. ASSUME WriteCommitment
       PROVE  \/ Goes("next") /\ "commitment" \in mem[Worker].marks
              \/ Goes("ended") /\ commitment /\ commitment'
              \/ Goes("committed") /\ ~commitment /\ commitment'
  <2>1. CASE "commitment" \in mem[Worker].marks
    BY <1>1, <1>10, <2>1, GoesIs DEF WriteCommitment
  <2>2. CASE "commitment" \notin mem[Worker].marks /\ commitment
    BY <1>1, <1>10, <2>2, GoesIs DEF WriteCommitment
  <2>3. CASE "commitment" \notin mem[Worker].marks /\ ~commitment
    BY <1>1, <1>10, <2>3, GoesIs DEF WriteCommitment
  <2> QED
    BY <2>1, <2>2, <2>3
<1>11. WriteFreeze => Goes("frozen")
  BY <1>1, GoesIs DEF WriteFreeze
<1>12. ASSUME SwapCounter
       PROVE  \/ Goes("exposed") /\ counter = "free" /\ counter' = "ours"
              \/ Goes("ended") /\ counter' = counter
  <2>1. CASE counter = "free"
    BY <1>1, <1>12, <2>1, GoesIs DEF SwapCounter
  <2>2. CASE counter # "free"
    BY <1>1, <1>12, <2>2, GoesIs DEF SwapCounter
  <2> QED
    BY <2>1, <2>2
<1>13. WritePackage => Goes("complete")
  BY <1>1, GoesIs DEF WritePackage
<1> QED
  BY <1>3, <1>4, <1>5, <1>6, <1>7, <1>8, <1>9, <1>10, <1>11, <1>12, <1>13

\* The steps with a choice.
LEMMA ChoiceSteps ==
    ASSUME TypeInv
    PROVE  /\ Resume => Journals(ResumedOf(mem[Worker]), "supervise") \/ Goes("supervise")
           /\ RegisterBase => \/ Journals(Mark(mem[Worker], "base", "base_registered"), "commit")
                              \/ Goes("commit")
           /\ FinishGeneration =>
                 \E r \in Reasons : Journals(GeneratedOf(mem[Worker], r), "shortlist")
           /\ InfrastructureFailure =>
                 \/ Journals(At(mem[Worker], "blocked_infrastructure"), "ended")
                 \/ Journals(At(mem[Worker], "retry_pending"), "ended")
                 \/ Journals(At(mem[Worker], "retry_pending"), "attempt")
           /\ AcceptResult =>
                 \/ Goes("accepted") /\ results' = results \cup {task}
                 \/ /\ Journals(At(mem[Worker], "blocked_budget"), "ended")
                    /\ results' = results
           /\ ReproduceBaseline =>
                 \/ Journals(Mark(mem[Worker], "reproduction", "baseline_reproduced"),
                             "checkpoint")
                 \/ Goes("ended")
<1> USE WorkerIs
<1>1. {"supervise", "commit", "shortlist", "ended", "attempt", "accepted", "checkpoint"}
         \subseteq Locations \ {"down", "launched", "waiting"}
  BY DEF Locations
<1>2. /\ {"base_registered", "blocked_infrastructure", "retry_pending", "blocked_budget",
          "baseline_reproduced"} \subseteq Stages
      /\ {"base", "reproduction"} \subseteq Marks
  BY DEF Stages, Blocked, Marks
<1>3. ASSUME pc[Worker] # "down"
      PROVE  mem[Worker] \in StateType
  BY <1>3, Holds
<1>4. ASSUME Resume
      PROVE  Journals(ResumedOf(mem[Worker]), "supervise") \/ Goes("supervise")
  <2>1. ResumedOf(mem[Worker]) \in StateType
    BY <1>3, <1>4, ResumedIs DEF Resume
  <2>2. CASE mem[Worker].stage = "stopped_after_checkpoint"
    BY <1>1, <1>4, <2>1, <2>2, JournalsIs DEF Resume, ResumedOf
  <2>3. CASE mem[Worker].stage # "stopped_after_checkpoint"
    BY <1>1, <1>4, <2>3, GoesIs DEF Resume
  <2> QED
    BY <2>2, <2>3
<1>5. ASSUME RegisterBase
      PROVE  \/ Journals(Mark(mem[Worker], "base", "base_registered"), "commit")
             \/ Goes("commit")
  <2>1. Mark(mem[Worker], "base", "base_registered") \in StateType
    BY <1>2, <1>3, <1>5, MarkIs DEF RegisterBase
  <2>2. CASE "base" \in mem[Worker].marks
    BY <1>1, <1>5, <2>2, GoesIs DEF RegisterBase
  <2>3. CASE "base" \notin mem[Worker].marks
    BY <1>1, <1>5, <2>1, <2>3, JournalsIs DEF RegisterBase
  <2> QED
    BY <2>2, <2>3
<1>6. ASSUME FinishGeneration
      PROVE  \E r \in Reasons : Journals(GeneratedOf(mem[Worker], r), "shortlist")
  <2>1. mem[Worker] \in StateType
    BY <1>3, <1>6 DEF FinishGeneration, LoopHead
  <2>2. mem[Worker].reason \in Reasons /\ {"gate", "wall_clock"} \subseteq Reasons
    BY <2>1 DEF StateType, Reasons
  <2>3. PICK r \in Reasons : Journal(Worker, GeneratedOf(mem[Worker], r), "shortlist")
    BY <1>6, <2>2 DEF FinishGeneration, GeneratedOf
  <2>4. GeneratedOf(mem[Worker], r) \in StateType
    BY <2>1, GeneratedIs
  <2> QED
    BY <1>1, <2>3, <2>4, JournalsIs
<1>7. ASSUME InfrastructureFailure
      PROVE  \/ Journals(At(mem[Worker], "blocked_infrastructure"), "ended")
             \/ Journals(At(mem[Worker], "retry_pending"), "ended")
             \/ Journals(At(mem[Worker], "retry_pending"), "attempt")
  <2>1. /\ At(mem[Worker], "blocked_infrastructure") \in StateType
        /\ At(mem[Worker], "retry_pending") \in StateType
    BY <1>2, <1>3, <1>7, AtIs DEF InfrastructureFailure
  <2>2. \/ Journal(Worker, At(mem[Worker], "blocked_infrastructure"), "ended")
        \/ Journal(Worker, At(mem[Worker], "retry_pending"), "ended")
        \/ Journal(Worker, At(mem[Worker], "retry_pending"), "attempt")
    BY <1>7 DEF InfrastructureFailure
  <2> QED
    BY <1>1, <2>1, <2>2, JournalsIs
<1>8. ASSUME AcceptResult
      PROVE  \/ Goes("accepted") /\ results' = results \cup {task}
             \/ Journals(At(mem[Worker], "blocked_budget"), "ended") /\ results' = results
  <2>1. At(mem[Worker], "blocked_budget") \in StateType
    BY <1>2, <1>3, <1>8, AtIs DEF AcceptResult
  <2>2. CASE Goto(Worker, "accepted") /\ UNCHANGED <<state, mem>> /\ results' = results \cup {task}
    BY <1>1, <2>2, GoesIs
  <2>3. CASE Journal(Worker, At(mem[Worker], "blocked_budget"), "ended") /\ UNCHANGED results
    BY <1>1, <2>1, <2>3, JournalsIs
  <2> QED
    BY <1>8, <2>2, <2>3 DEF AcceptResult
<1>9. ASSUME ReproduceBaseline
      PROVE  \/ Journals(Mark(mem[Worker], "reproduction", "baseline_reproduced"), "checkpoint")
             \/ Goes("ended")
  <2>1. Mark(mem[Worker], "reproduction", "baseline_reproduced") \in StateType
    BY <1>2, <1>3, <1>9, MarkIs DEF ReproduceBaseline
  <2> QED
    BY <1>1, <1>9, <2>1, JournalsIs, GoesIs DEF ReproduceBaseline
<1> QED
  BY <1>4, <1>5, <1>6, <1>7, <1>8, <1>9

LEMMA ResultSteps ==
    ASSUME TypeInv
    PROVE  /\ JournalResult /\ task.role = "train" =>
                 /\ task.cand \in Candidates
                 /\ Journals(AcceptedOf(mem[Worker], task.cand),
                             IF task.cand = Baseline THEN "reproduce" ELSE "checkpoint")
           /\ JournalResult /\ task.role # "train" =>
                 Journals(At(mem[Worker], "selection_candidate_completed"), "select")
           /\ DeriveShortlist =>
                 \E f \in SUBSET Candidates :
                    f \subseteq mem[Worker].accepted
                       /\ Journals(ShortlistedOf(mem[Worker], f), "freeze")
           /\ JournalFreeze =>
                 Journals(Mark(mem[Worker], "frozen", "shortlist_frozen"),
                          IF mem[Worker].shortlist = {} THEN "finalize" ELSE "expose")
<1> USE WorkerIs
<1>1. {"reproduce", "checkpoint", "select", "freeze", "finalize", "expose"}
         \subseteq Locations \ {"down", "launched", "waiting"}
  BY DEF Locations
<1>2. /\ {"selection_candidate_completed", "shortlist_frozen"} \subseteq Stages
      /\ "frozen" \in Marks
  BY DEF Stages, Marks
<1>3. ASSUME pc[Worker] # "down"
      PROVE  mem[Worker] \in StateType
  BY <1>3, Holds
<1>4. ASSUME JournalResult, task.role = "train"
      PROVE  /\ task.cand \in Candidates
             /\ Journals(AcceptedOf(mem[Worker], task.cand),
                         IF task.cand = Baseline THEN "reproduce" ELSE "checkpoint")
  <2> DEFINE l == IF task.cand = Baseline THEN "reproduce" ELSE "checkpoint"
  <2>1. task.cand \in Candidates
    BY <1>4 DEF JournalResult, TypeInv, TaskLocs, Tasks
  <2>2. AcceptedOf(mem[Worker], task.cand) \in StateType
    BY <1>3, <1>4, <2>1, AcceptedIs DEF JournalResult
  <2>3. l \in Locations \ {"down", "launched", "waiting"}
    BY <1>1
  <2>4. Journal(Worker, AcceptedOf(mem[Worker], task.cand), l)
    BY <1>4 DEF JournalResult, AcceptedOf
  <2> HIDE DEF l
  <2>5. Journals(AcceptedOf(mem[Worker], task.cand), l)
    BY <2>2, <2>3, <2>4, JournalsIs
  <2> QED
    BY <2>1, <2>5 DEF l
<1>5. ASSUME JournalResult, task.role # "train"
      PROVE  Journals(At(mem[Worker], "selection_candidate_completed"), "select")
  <2>1. At(mem[Worker], "selection_candidate_completed") \in StateType
    BY <1>2, <1>3, <1>5, AtIs DEF JournalResult
  <2> QED
    BY <1>1, <1>5, <2>1, JournalsIs DEF JournalResult
<1>6. ASSUME DeriveShortlist
      PROVE  \E f \in SUBSET Candidates :
                f \subseteq mem[Worker].accepted
                   /\ Journals(ShortlistedOf(mem[Worker], f), "freeze")
  <2>1. mem[Worker] \in StateType
    BY <1>3, <1>6 DEF DeriveShortlist
  <2>2. mem[Worker].accepted \subseteq Candidates
    BY <2>1 DEF StateType
  <2>3. PICK f \in SUBSET (mem[Worker].accepted \ {Baseline}) :
               Journal(Worker, ShortlistedOf(mem[Worker], f), "freeze")
    BY <1>6 DEF DeriveShortlist, ShortlistedOf
  <2>4. f \in SUBSET Candidates /\ f \subseteq mem[Worker].accepted
    BY <2>2
  <2>5. ShortlistedOf(mem[Worker], f) \in StateType
    BY <2>1, <2>4, ShortlistedIs
  <2>6. Journals(ShortlistedOf(mem[Worker], f), "freeze")
    BY <1>1, <2>3, <2>5, JournalsIs
  <2> QED
    BY <2>4, <2>6
<1>7. ASSUME JournalFreeze
      PROVE  Journals(Mark(mem[Worker], "frozen", "shortlist_frozen"),
                      IF mem[Worker].shortlist = {} THEN "finalize" ELSE "expose")
  <2>1. Mark(mem[Worker], "frozen", "shortlist_frozen") \in StateType
    BY <1>2, <1>3, <1>7, MarkIs DEF JournalFreeze
  <2> QED
    BY <1>1, <1>7, <2>1, JournalsIs DEF JournalFreeze
<1> QED
  BY <1>4, <1>5, <1>6, <1>7

\* The steps that start a child or see one end.
LEMMA ChildSteps ==
    ASSUME TypeInv
    PROVE  /\ Attempt =>
                 \/ Goes("ended") /\ alive' = alive
                 \/ /\ Attempts # 2 /\ state' = state
                    /\ \/ /\ Moves(Worker, AttemptedOf(mem[Worker], task), "accept")
                          /\ alive' = alive
                       \/ /\ Moves(Worker, AttemptedOf(mem[Worker], task), "launched")
                          /\ alive' = alive \cup {[task |-> task, attempt |-> Attempts + 1]}
           /\ BindChild => /\ Child \in Children /\ state' = BoundOf(mem[Worker], Child)
                           /\ Moves(Worker, BoundOf(mem[Worker], Child), "waiting")
           /\ CannotBindChild => state' = state /\ Moves(Worker, mem[Worker], "infra")
           /\ ChildFinished =>
                 LET s == UnboundOf(mem[Worker], "candidate_child_finished")
                 IN  /\ state' = s
                     /\ \/ Moves(Worker, s, "collect")
                        \/ Moves(Worker, mem[Worker], "science")
                        \/ Moves(Worker, mem[Worker], "infra")
           /\ ChildTimesOut => /\ state' = UnboundOf(mem[Worker], "candidate_timeout")
                               /\ Moves(Worker, mem[Worker], "infra")
<1> USE WorkerIs
<1>1. {"ended", "accept", "launched", "waiting", "infra", "science", "collect"} \subseteq Locations
  BY DEF Locations
<1>2. {"candidate_child_finished", "candidate_timeout"} \subseteq Stages /\ TypeOK
  BY DEF Stages, TypeInv
<1>3. ASSUME pc[Worker] \in {"attempt", "launched", "waiting"}
      PROVE  mem[Worker] \in StateType /\ task \in Tasks
  BY <1>3, Holds DEF TypeInv, TaskLocs
<1>4. ASSUME pc[Worker] \in {"launched", "waiting"}
      PROVE  Child \in Children
  BY <1>3, <1>4 DEF TypeInv, Child, Children
<1>5. ASSUME Attempt
      PROVE  \/ Goes("ended") /\ alive' = alive
             \/ /\ Attempts # 2 /\ state' = state
                /\ \/ /\ Moves(Worker, AttemptedOf(mem[Worker], task), "accept")
                      /\ alive' = alive
                   \/ /\ Moves(Worker, AttemptedOf(mem[Worker], task), "launched")
                      /\ alive' = alive \cup {[task |-> task, attempt |-> Attempts + 1]}
  <2>1. mem[Worker] \in StateType /\ task \in Tasks
    BY <1>3, <1>5 DEF Attempt
  <2>2. CASE Attempts = 2
    BY <1>1, <1>5, <2>2, GoesIs DEF Attempt
  <2>3. CASE Attempts # 2
    <3>1. AttemptedOf(mem[Worker], task) \in StateType
      BY <2>1, <2>3, AttemptedIs DEF Attempts
    <3>2. /\ Hold(Worker, AttemptedOf(mem[Worker], task)) /\ state' = state
          /\ \/ Goto(Worker, "accept") /\ alive' = alive
             \/ /\ Goto(Worker, "launched")
                /\ alive' = alive \cup {[task |-> task, attempt |-> Attempts + 1]}
      BY <1>5, <2>3 DEF Attempt, AttemptedOf
    <3> QED
      BY <1>1, <1>2, <2>3, <3>1, <3>2, GoesTo
  <2> QED
    BY <2>2, <2>3
<1>6. ASSUME BindChild
      PROVE  /\ Child \in Children /\ state' = BoundOf(mem[Worker], Child)
             /\ Moves(Worker, BoundOf(mem[Worker], Child), "waiting")
  <2>1. Child \in Children /\ mem[Worker] \in StateType
    BY <1>3, <1>4, <1>6 DEF BindChild
  <2>2. BoundOf(mem[Worker], Child) \in StateType
    BY <2>1, BoundIs
  <2>3. Journal(Worker, BoundOf(mem[Worker], Child), "waiting")
    BY <1>6 DEF BindChild, Bound, BoundOf
  <2> QED
    BY <1>1, <1>2, <2>1, <2>2, <2>3, JournalIs
<1>7. ASSUME CannotBindChild
      PROVE  state' = state /\ Moves(Worker, mem[Worker], "infra")
  BY <1>1, <1>2, <1>7, GotoIs DEF CannotBindChild
<1>8. ASSUME ChildFinished
      PROVE  /\ state' = UnboundOf(mem[Worker], "candidate_child_finished")
             /\ \/ Moves(Worker, UnboundOf(mem[Worker], "candidate_child_finished"), "collect")
                \/ Moves(Worker, mem[Worker], "science")
                \/ Moves(Worker, mem[Worker], "infra")
  <2> DEFINE s == UnboundOf(mem[Worker], "candidate_child_finished")
  <2>1. s \in StateType
    BY <1>2, <1>3, <1>8, UnboundIs DEF ChildFinished
  <2>2. state' = s
    BY <1>8 DEF ChildFinished, Unbound, UnboundOf
  <2>3. exit \in {"ok", "science", "infra"}
    BY <1>8 DEF ChildFinished, TypeInv, TypeOK
  <2>4. \/ Hold(Worker, s) /\ Goto(Worker, "collect")
        \/ UNCHANGED mem /\ Goto(Worker, "science")
        \/ UNCHANGED mem /\ Goto(Worker, "infra")
    BY <1>8, <2>2, <2>3 DEF ChildFinished
  <2> HIDE DEF s
  <2>5. \/ Moves(Worker, s, "collect")
        \/ Moves(Worker, mem[Worker], "science")
        \/ Moves(Worker, mem[Worker], "infra")
    BY <1>1, <1>2, <2>1, <2>4, GoesTo, GotoIs
  <2> QED
    BY <2>2, <2>5 DEF s
<1>9. ASSUME ChildTimesOut
      PROVE  /\ state' = UnboundOf(mem[Worker], "candidate_timeout")
             /\ Moves(Worker, mem[Worker], "infra")
  <2>1. state' = UnboundOf(mem[Worker], "candidate_timeout")
    BY <1>9 DEF ChildTimesOut, Unbound, UnboundOf
  <2> QED
    BY <1>1, <1>2, <1>9, <2>1, GotoIs DEF ChildTimesOut
<1> QED
  BY <1>5, <1>6, <1>7, <1>8, <1>9

-----------------------------------------------------------------------------
(***************************************************************************)
(* Types are kept.                                                         *)
(***************************************************************************)

\* The steps that change the journal, the memory and the place of the worker.
LEMMA QuietTyped ==
    ASSUME TypeInv,
           \/ Supervise \/ RecordLineage \/ JournalCommitment \/ CompleteIteration
           \/ StopAtCheckpoint \/ ProposerFails \/ FreezeBatch \/ ScientificFailure
           \/ JournalExposure \/ Complete \/ Resume \/ RegisterBase \/ FinishGeneration
           \/ JournalResult \/ ReproduceBaseline \/ DeriveShortlist \/ JournalFreeze
           \/ PassCheckpoint \/ FinalistsDone
    PROVE  TypeInv'
<1>1. UNCHANGED <<keyed, artifacts, stop, counter, os, task, opened>>
  BY DEF Supervise, RecordLineage, JournalCommitment, CompleteIteration, StopAtCheckpoint,
     ProposerFails, FreezeBatch, ScientificFailure, JournalExposure, Complete, Resume,
     RegisterBase, FinishGeneration, JournalResult, ReproduceBaseline, DeriveShortlist,
     JournalFreeze, PassCheckpoint, FinalistsDone
<1>2. pc[Worker] \notin {"down", "launched", "waiting"}
  BY DEF Supervise, RecordLineage, JournalCommitment, CompleteIteration, StopAtCheckpoint,
     ProposerFails, FreezeBatch, ScientificFailure, JournalExposure, Complete, Resume,
     RegisterBase, FinishGeneration, JournalResult, ReproduceBaseline, DeriveShortlist,
     JournalFreeze, PassCheckpoint, FinalistsDone, LoopHead
<1>3. mem[Worker] \in StateType /\ state \in StateType
  BY <1>2, Holds, WorkerIs
<1>4. \E l \in Locations \ {"down", "launched", "waiting"}, s \in StateType :
         Moves(Worker, s, l) /\ state' \in StateType /\ l \notin TaskLocs
  <2>1. ASSUME NEW s, NEW l, l \notin TaskLocs, Journals(s, l)
        PROVE  <1>4!:
    BY <2>1 DEF Journals
  <2>2. ASSUME NEW l, l \notin TaskLocs, Goes(l)
        PROVE  <1>4!:
    BY <1>3, <2>2 DEF Goes
  <2>3. CASE Supervise \/ RecordLineage \/ JournalCommitment \/ CompleteIteration
             \/ StopAtCheckpoint \/ ProposerFails \/ FreezeBatch \/ ScientificFailure
             \/ JournalExposure \/ Complete
    <3>1. {"validate", "base", "next", "acknowledge", "ended", "select"} \cap TaskLocs = {}
      BY DEF TaskLocs
    <3> QED
      BY <2>1, <2>3, <3>1, JournalSteps
  <2>4. CASE Resume \/ RegisterBase \/ FinishGeneration \/ ReproduceBaseline
    <3>1. {"supervise", "commit", "shortlist", "checkpoint", "ended"} \cap TaskLocs = {}
      BY DEF TaskLocs
    <3> QED
      BY <2>1, <2>2, <2>4, <3>1, ChoiceSteps
  <2>5. CASE JournalResult \/ DeriveShortlist \/ JournalFreeze
    <3>1. {"reproduce", "checkpoint", "select", "freeze", "finalize", "expose"} \cap TaskLocs
            = {}
      BY DEF TaskLocs
    <3>2. CASE JournalResult
      BY <2>1, <3>1, <3>2, ResultSteps
    <3>3. CASE DeriveShortlist
      BY <2>1, <3>1, <3>3, ResultSteps
    <3>4. CASE JournalFreeze
      BY <2>1, <3>1, <3>4, ResultSteps
    <3> QED
      BY <2>5, <3>2, <3>3, <3>4
  <2>6. CASE PassCheckpoint \/ FinalistsDone
    <3>1. {"next", "finalize"} \cap TaskLocs = {}
      BY DEF TaskLocs
    <3> QED
      BY <2>2, <2>6, <3>1, GoesSteps
  <2> QED
    BY <2>3, <2>4, <2>5, <2>6
<1>5. PICK l \in Locations \ {"down", "launched", "waiting"}, s \in StateType :
         Moves(Worker, s, l) /\ state' \in StateType /\ l \notin TaskLocs
  BY <1>4
<1> QED
  BY <1>1, <1>2, <1>5, JournalTyped

\* What is left to measure.
LEMMA QueueIs ==
    ASSUME TypeInv, CountInv, pc[Worker] = "next"
    PROVE  /\ \A i \in Left(Queue) : Queue[i] \in Candidates /\ Queue[i] \notin mem[Worker].accepted
           /\ Left(BaseOrder) # {} => Queue = BaseOrder
           /\ Queue = <<>> => /\ Base \subseteq mem[Worker].accepted
                              /\ mem[Worker].batches = mem[Worker].completed
           /\ Queue # <<>> /\ Left(Queue) = {} =>
                 mem[Worker].batches = mem[Worker].completed + 1
<1>1. mem[Worker] \in StateType
  BY Holds, WorkerIs
<1>2. /\ mem[Worker].batches \in Nat /\ mem[Worker].completed \in Nat
      /\ mem[Worker].completed <= mem[Worker].batches
      /\ mem[Worker].batches <= mem[Worker].completed + 1
      /\ mem[Worker].batches <= Len(Batches)
  <2>1. pc[Worker] \in Late
    BY DEF Late
  <2>2. mem[Worker].batches \in Nat /\ mem[Worker].completed \in Nat
    BY <1>1 DEF StateType
  <2> QED
    BY <2>1, <2>2 DEF CountInv
<1>3. \A i \in Left(Queue) : i \in DOMAIN Queue /\ Queue[i] \notin mem[Worker].accepted
  BY DEF Left
<1>4. BaseOrder # <<>>
  BY SequenceFacts
<1>5. CASE Left(BaseOrder) # {}
  <2>1. Queue = BaseOrder
    BY <1>5 DEF Queue
  <2>2. \A i \in DOMAIN BaseOrder : BaseOrder[i] \in Candidates
    BY SequenceFacts
  <2> QED
    BY <1>3, <1>4, <1>5, <2>1, <2>2
<1>6. CASE Left(BaseOrder) = {}
  <2>1. Base \subseteq mem[Worker].accepted
    BY <1>6 DEF Left, Base
  <2>2. CASE mem[Worker].batches > mem[Worker].completed
    <3>1. Queue = Batches[mem[Worker].batches]
      BY <1>6, <2>2 DEF Queue
    <3>2. mem[Worker].batches \in 1..Len(Batches) /\ Len(Batches) \in Nat
      BY <1>2, <2>2, SequenceFacts
    <3>3. mem[Worker].batches \in DOMAIN Batches
      BY <3>2, SequenceFacts
    <3>4. Queue # <<>> /\ \A i \in DOMAIN Queue : Queue[i] \in Candidates
      BY <3>1, <3>3, SequenceFacts
    <3>5. mem[Worker].batches = mem[Worker].completed + 1
      BY <1>2, <2>2
    <3> QED
      BY <1>3, <1>6, <3>4, <3>5
  <2>3. CASE ~(mem[Worker].batches > mem[Worker].completed)
    <3>1. Queue = <<>>
      BY <1>6, <2>3 DEF Queue
    <3>2. Left(Queue) = {}
      BY <3>1 DEF Left
    <3>3. mem[Worker].batches = mem[Worker].completed
      BY <1>2, <2>3
    <3> QED
      BY <1>6, <2>1, <3>1, <3>2, <3>3
  <2> QED
    BY <2>2, <2>3
<1> QED
  BY <1>5, <1>6

\* The steps of the worker that write something else.
LEMMA ArtifactTyped ==
    ASSUME TypeInv, CountInv,
           \/ AcknowledgeStop \/ ProposeBatch \/ NextCandidate \/ NextFinalist \/ CollectOutput
           \/ WriteCommitment \/ WriteFreeze \/ SwapCounter \/ WritePackage \/ AcceptResult
           \/ InfrastructureFailure
    PROVE  TypeInv'
<1> USE DEF artifacts, os
<1>1. pc[Worker] \notin {"down", "launched", "waiting"}
  BY DEF AcknowledgeStop, ProposeBatch, NextCandidate, NextFinalist, CollectOutput,
     WriteCommitment, WriteFreeze, SwapCounter, WritePackage, AcceptResult,
     InfrastructureFailure, LoopHead
<1>2. mem[Worker] \in StateType /\ state \in StateType /\ TypeOK /\ exit = None
  BY <1>1, Holds, WorkerIs DEF TypeInv
<1>3. exit' = None /\ UNCHANGED <<keyed, opened, alive>>
  BY <1>2 DEF AcknowledgeStop, ProposeBatch, NextCandidate, NextFinalist, CollectOutput,
     WriteCommitment, WriteFreeze, SwapCounter, WritePackage, AcceptResult,
     InfrastructureFailure
<1>4. /\ task' \in Tasks \cup {None}
      /\ pc[Worker] \in TaskLocs => task' \in Tasks
      /\ NextCandidate \/ NextFinalist => task' \in Tasks
  <2>1. CASE NextCandidate
    <3>1. \E i \in Left(Queue) : task' = [role |-> "train", cand |-> Queue[i]]
      BY <2>1 DEF NextCandidate
    <3>2. \A i \in Left(Queue) : Queue[i] \in Candidates
      BY <2>1, QueueIs DEF NextCandidate
    <3> QED
      BY <3>1, <3>2 DEF Tasks, Roles
  <2>2. CASE NextFinalist
    <3>1. \E c \in mem[Worker].shortlist : task' = [role |-> "selection", cand |-> c]
      BY <2>2 DEF NextFinalist, Unmeasured
    <3>2. mem[Worker].shortlist \subseteq Candidates
      BY <1>2 DEF StateType
    <3> QED
      BY <3>1, <3>2 DEF Tasks, Roles
  <2>3. CASE ~NextCandidate /\ ~NextFinalist
    <3>1. task' = task
      BY <2>3 DEF AcknowledgeStop, ProposeBatch, CollectOutput, WriteCommitment, WriteFreeze,
         SwapCounter, WritePackage, AcceptResult, InfrastructureFailure
    <3> QED
      BY <1>2, <2>3, <3>1 DEF TypeInv, TypeOK
  <2> QED
    BY <2>1, <2>2, <2>3
<1>5. /\ commitment' \in BOOLEAN /\ package' \in BOOLEAN
      /\ partial' \in BOOLEAN /\ stop' \in {"none", "pending", "acknowledged"}
      /\ counter' \in {"free", "ours", "other"} /\ outputs' \subseteq Tasks
  BY <1>2 DEF TypeOK, AcknowledgeStop, ProposeBatch, NextCandidate, NextFinalist, CollectOutput,
     WriteCommitment, WriteFreeze, SwapCounter, WritePackage, AcceptResult,
     InfrastructureFailure
<1>6. results' \subseteq Tasks
  <2>1. AcceptResult => task \in Tasks
    BY DEF AcceptResult, TypeInv, TaskLocs
  <2> QED
    BY <1>2, <2>1 DEF TypeOK, AcknowledgeStop, ProposeBatch, NextCandidate, NextFinalist,
       CollectOutput, WriteCommitment, WriteFreeze, SwapCounter, WritePackage, AcceptResult,
       InfrastructureFailure
<1>7. batchFiles' \in 0..Len(Batches)
  <2>1. CASE ProposeBatch
    <3>1. batchFiles' = mem[Worker].completed + 1 /\ mem[Worker].completed < Len(Batches)
      BY <2>1 DEF ProposeBatch, MoreIterations
    <3>2. mem[Worker].completed \in Nat
      BY <1>2 DEF StateType
    <3> QED
      BY <3>1, <3>2, SequenceFacts
  <2>2. CASE ~ProposeBatch
    BY <1>2, <2>2 DEF TypeOK, AcknowledgeStop, NextCandidate, NextFinalist,
       CollectOutput, WriteCommitment, WriteFreeze, SwapCounter, WritePackage, AcceptResult,
       InfrastructureFailure
  <2> QED
    BY <2>1, <2>2
<1>8. freeze' \in (SUBSET Candidates) \cup {None}
  <2>1. mem[Worker].shortlist \in SUBSET Candidates
    BY <1>2 DEF StateType
  <2> QED
    BY <1>2, <2>1 DEF TypeOK, AcknowledgeStop, ProposeBatch, NextCandidate, NextFinalist,
       CollectOutput, WriteCommitment, WriteFreeze, SwapCounter, WritePackage, AcceptResult,
       InfrastructureFailure
<1>9. \E l \in Locations \ {"down", "launched", "waiting"}, s \in StateType :
         /\ Moves(Worker, s, l) /\ state' \in StateType
         /\ l \in TaskLocs => \/ pc[Worker] \in TaskLocs
                              \/ NextCandidate \/ NextFinalist
  <2>1. ASSUME NEW s, NEW l, Journals(s, l),
               l \in TaskLocs => pc[Worker] \in TaskLocs \/ NextCandidate \/ NextFinalist
        PROVE  <1>9!:
    BY <2>1 DEF Journals
  <2>2. ASSUME NEW l, Goes(l),
               l \in TaskLocs => pc[Worker] \in TaskLocs \/ NextCandidate \/ NextFinalist
        PROVE  <1>9!:
    BY <1>2, <2>2 DEF Goes
  <2>3. {"ended", "freeze batch", "next", "committed", "frozen", "exposed", "complete"}
           \cap TaskLocs = {}
    BY DEF TaskLocs
  <2>4. CASE AcknowledgeStop \/ ProposeBatch \/ NextCandidate \/ NextFinalist
             \/ WriteCommitment \/ WriteFreeze \/ SwapCounter \/ WritePackage
    BY <2>2, <2>3, <2>4, GoesSteps
  <2>5. CASE CollectOutput
    <3>1. pc[Worker] \in TaskLocs
      BY <2>5 DEF CollectOutput, TaskLocs
    <3> QED
      BY <2>2, <2>5, <3>1, GoesSteps
  <2>6. CASE AcceptResult \/ InfrastructureFailure
    <3>1. pc[Worker] \in TaskLocs
      BY <2>6 DEF AcceptResult, InfrastructureFailure, TaskLocs
    <3> QED
      BY <2>1, <2>2, <2>6, <3>1, ChoiceSteps
  <2> QED
    BY <2>4, <2>5, <2>6
<1>10. PICK l \in Locations \ {"down", "launched", "waiting"}, s \in StateType :
          /\ Moves(Worker, s, l) /\ state' \in StateType
          /\ l \in TaskLocs => \/ pc[Worker] \in TaskLocs
                               \/ NextCandidate \/ NextFinalist
  BY <1>9
<1> QED
  BY <1>3, <1>4, <1>5, <1>6, <1>7, <1>8, <1>10, WorkerTyped

LEMMA StartTyped ==
    ASSUME TypeInv, Start
    PROVE  TypeInv' /\ state' = Initial /\ Moves(Worker, Initial, "supervise")
<1> USE WorkerIs, NoneFacts
<1>1. /\ TypeOK /\ Journal(Worker, Initial, "supervise") /\ "supervise" \in Locations
      /\ UNCHANGED <<keyed, artifacts, stop, counter, os, task>>
  BY DEF Start, TypeInv, Locations
<1>2. state' = Initial /\ Moves(Worker, Initial, "supervise")
  BY <1>1, JournalIs, InitialTyped
<1>3. /\ opened' \in [Procs -> Nat]
      /\ \A q \in Procs : opened'[q] \in 0..Limit(q)
  BY BoundIsNumber DEF Start, TypeInv, TypeOK, Limit
<1>4. TypeOK'
  BY <1>1, <1>2, <1>3, InitialTyped DEF TypeOK, artifacts, os, Moves, Others
<1>5. exit' = None
  BY <1>1 DEF Start, TypeInv, os
<1>6. \A v \in Verifiers : pc'[v] = pc[v] /\ mem'[v] = mem[v]
  BY <1>2 DEF Moves, Others
<1>7. mem'[Worker] = Initial /\ pc'[Worker] = "supervise" /\ state' # None /\ Initial # None
  BY <1>2, InitialTyped DEF Moves
<1>8. pc'[Worker] \notin TaskLocs \cup {"down", "launched", "waiting"}
  BY <1>7 DEF TaskLocs
<1> QED
  BY <1>2, <1>3, <1>4, <1>5, <1>6, <1>7, <1>8, TypeKept

LEMMA ValidateTyped ==
    ASSUME TypeInv, Validate
    PROVE  /\ TypeInv' /\ At(mem[Worker], "validating_owner_inputs") \in StateType
           /\ Appends(Worker, <<"validating">>, At(mem[Worker], "validating_owner_inputs"),
                      "lineage")
<1> DEFINE key == <<"validating">>
           s == At(mem[Worker], "validating_owner_inputs")
<1> USE WorkerIs, NoneFacts
<1>1. /\ TypeOK /\ "lineage" \in Locations \ {"conflict"}
      /\ UNCHANGED <<artifacts, stop, counter, os, task, opened>> /\ pc[Worker] = "validate"
  BY DEF Validate, TypeInv, Locations
<1>2. s \in StateType
  <2>1. "validating_owner_inputs" \in Stages /\ mem[Worker] \in StateType
    BY <1>1, Holds DEF Stages
  <2> QED
    BY <2>1, AtIs
<1>3. key \in Keys /\ JournalOnce(Worker, key, s, "lineage")
  BY DEF Keys, Validate
<1> HIDE DEF key, s
<1>4. Appends(Worker, key, s, "lineage") /\ Grows(Worker, key, s, "lineage")
  BY <1>1, <1>2, <1>3, JournalOnceIs, JournalOnceAdds
<1>5. state \in StateType
  BY <1>1, Holds
<1>6. TypeOK'
  BY <1>1, <1>2, <1>3, <1>4, <1>5 DEF TypeOK, artifacts, os, Grows, Others
<1>7. exit' = None /\ opened' \in [Procs -> Nat]
  BY <1>1 DEF TypeInv, os
<1>8. /\ \A v \in Verifiers : pc'[v] = pc[v] /\ mem'[v] = mem[v]
      /\ mem'[Worker] = s /\ pc'[Worker] \in {"lineage", "conflict"} /\ state' \in {state, s}
  BY <1>4 DEF Grows, Others
<1>9. pc'[Worker] \notin TaskLocs \cup {"down", "launched", "waiting"}
  BY <1>8 DEF TaskLocs
<1>10. mem'[Worker] # None /\ state' # None
  BY <1>2, <1>5, <1>8
<1>11. TypeInv'
  BY <1>6, <1>7, <1>8, <1>9, <1>10, TypeKept
<1> QED
  BY <1>2, <1>4, <1>11 DEF key, s

\* The child of the worker and its exit code.
LEMMA LaunchTyped ==
    ASSUME TypeInv, ChildInv,
           Attempt \/ BindChild \/ CannotBindChild \/ ChildFinished \/ ChildTimesOut
    PROVE  TypeInv'
<1> USE WorkerIs, NoneFacts DEF artifacts
<1>1. /\ pc[Worker] \in {"attempt", "launched", "waiting"} /\ task \in Tasks /\ TypeOK
      /\ mem[Worker] \in StateType /\ state \in StateType
  <2>1. pc[Worker] \in {"attempt", "launched", "waiting"}
    BY DEF Attempt, BindChild, CannotBindChild, ChildFinished, ChildTimesOut
  <2> QED
    BY <2>1, Holds DEF TypeInv, TaskLocs
<1>2. UNCHANGED <<keyed, artifacts, stop, counter, outputs, partial, task, opened>>
  BY DEF Attempt, BindChild, CannotBindChild, ChildFinished, ChildTimesOut, os
<1>3. UNCHANGED <<keyed, stop, counter, outputs, partial, task, opened, commitment, results,
                  batchFiles, freeze, package>>
  BY <1>2 DEF artifacts
<1>4. opened' \in [Procs -> Nat] /\ task' \in Tasks
  BY <1>1, <1>3 DEF TypeInv
<1>5. ASSUME NEW s \in StateType, NEW l, Moves(Worker, s, l), state' \in StateType,
             alive' \subseteq Children, exit' \in {"ok", "science", "infra", None}
      PROVE  /\ TypeOK' /\ \A v \in Verifiers : pc'[v] = pc[v] /\ mem'[v] = mem[v]
             /\ mem'[Worker] = s /\ pc'[Worker] = l
             /\ mem'[Worker] # None /\ state' # None
  BY <1>1, <1>3, <1>5 DEF TypeOK, Moves, Others
<1>6. ASSUME NEW s \in StateType, NEW l, l \notin {"down", "launched", "waiting"},
             Moves(Worker, s, l), state' \in StateType, alive' \subseteq Children, exit' = None
      PROVE  TypeInv'
  BY <1>4, <1>5, <1>6, TypeKept
<1>7. ASSUME NEW s \in StateType, NEW l \in {"launched", "waiting"},
             Moves(Worker, s, l), state' \in StateType, alive' \subseteq Children,
             exit' \in {"ok", "science", "infra", None},
             s.attempts[task] \in 1..2,
             exit' # None <=> Child' \notin alive'
      PROVE  TypeInv'
  <2>1. Attempts' = s.attempts[task]
    BY <1>3, <1>5, <1>7 DEF Attempts
  <2>2. \A p \in Procs : /\ pc'[p] = "down" <=> mem'[p] = None
                         /\ pc'[p] # "down" => state' # None
    BY <1>5, <1>7 DEF TypeInv
  <2>3. \A v \in Verifiers :
           pc'[v] \in {"down", "ended", "conflict", "child", "index", "counter"}
    BY <1>5, <1>7 DEF TypeInv
  <2>4. TypeOK' /\ pc'[Worker] \in {"launched", "waiting"}
    BY <1>5, <1>7
  <2> QED
    BY <1>4, <1>7, <2>1, <2>2, <2>3, <2>4 DEF TypeInv
<1>8. CASE Attempt
  <2>1. exit' = None /\ alive = {} /\ pc[Worker] = "attempt"
    <3>1. pc[Worker] \in Late \ {"launched", "waiting"}
      BY <1>8 DEF Attempt, Late, TaskLocs
    <3> QED
      BY <1>8, <3>1 DEF Attempt, TypeInv, ChildInv
  <2>2. CASE Goes("ended") /\ alive' = alive
    <3>1. Moves(Worker, mem[Worker], "ended") /\ state' \in StateType /\ alive' \subseteq Children
      BY <1>1, <2>1, <2>2 DEF Goes
    <3> QED
      BY <1>1, <1>6, <2>1, <3>1
  <2>3. ASSUME Attempts # 2
        PROVE  /\ AttemptedOf(mem[Worker], task) \in StateType
               /\ AttemptedOf(mem[Worker], task).attempts[task] = Attempts + 1
               /\ AttemptedOf(mem[Worker], task).attempts[task] \in 1..2
    BY <1>1, <2>3, AttemptedIs DEF Attempts
  <2>4. CASE /\ Attempts # 2 /\ state' = state /\ alive' = alive
             /\ Moves(Worker, AttemptedOf(mem[Worker], task), "accept")
    <3>1. state' \in StateType /\ alive' \subseteq Children
      BY <1>1, <2>1, <2>4
    <3> QED
      BY <1>6, <2>1, <2>3, <2>4, <3>1
  <2>5. CASE /\ Attempts # 2 /\ state' = state
             /\ Moves(Worker, AttemptedOf(mem[Worker], task), "launched")
             /\ alive' = alive \cup {[task |-> task, attempt |-> Attempts + 1]}
    <3>1. state' \in StateType /\ alive' \subseteq Children
      BY <1>1, <2>1, <2>3, <2>5 DEF Children
    <3>2. Child' = [task |-> task, attempt |-> Attempts + 1]
      <4>1. mem'[Worker] = AttemptedOf(mem[Worker], task)
        BY <2>5 DEF Moves
      <4> QED
        BY <1>3, <2>3, <2>5, <4>1 DEF Child, Attempts
    <3>3. Child' \in alive'
      BY <2>5, <3>2
    <3> QED
      BY <1>7, <2>1, <2>3, <2>5, <3>1, <3>3
  <2> QED
    BY <1>8, <2>2, <2>4, <2>5, ChildSteps
<1>9. CASE BindChild
  <2> DEFINE s == BoundOf(mem[Worker], Child)
  <2>1. s \in StateType /\ s.attempts = mem[Worker].attempts /\ state' = s
    BY <1>1, <1>9, ChildSteps, BoundIs
  <2>2. Moves(Worker, s, "waiting")
    BY <1>9, ChildSteps
  <2>3. pc[Worker] = "launched" /\ UNCHANGED <<alive, exit>>
    BY <1>9 DEF BindChild, os
  <2> HIDE DEF s
  <2>4. Child' = Child
    BY <1>3, <2>1, <2>2 DEF Child, Attempts, Moves
  <2>5. /\ s.attempts[task] \in 1..2
        /\ exit' # None <=> Child' \notin alive'
        /\ exit' \in {"ok", "science", "infra", None} /\ alive' \subseteq Children
    BY <1>1, <2>1, <2>3, <2>4 DEF TypeInv, Attempts, TypeOK
  <2> QED
    BY <1>7, <2>1, <2>2, <2>5
<1>10. CASE CannotBindChild
  <2>1. /\ state' = state /\ Moves(Worker, mem[Worker], "infra")
        /\ exit' = None /\ alive' \subseteq Children
    BY <1>1, <1>10, ChildSteps DEF CannotBindChild, TypeOK
  <2> QED
    BY <1>1, <1>6, <2>1
<1>11. CASE ChildFinished
  <2> DEFINE s == UnboundOf(mem[Worker], "candidate_child_finished")
  <2>1. s \in StateType
    <3>1. "candidate_child_finished" \in Stages
      BY DEF Stages
    <3> QED
      BY <1>1, <3>1, UnboundIs
  <2>2. /\ state' = s
        /\ \/ Moves(Worker, s, "collect")
           \/ Moves(Worker, mem[Worker], "science")
           \/ Moves(Worker, mem[Worker], "infra")
    BY <1>11, ChildSteps
  <2>3. exit' = None /\ alive' \subseteq Children
    BY <1>1, <1>11 DEF ChildFinished, TypeOK
  <2> HIDE DEF s
  <2> QED
    BY <1>1, <1>6, <2>1, <2>2, <2>3
<1>12. CASE ChildTimesOut
  <2>1. UnboundOf(mem[Worker], "candidate_timeout") \in StateType
    <3>1. "candidate_timeout" \in Stages
      BY DEF Stages
    <3> QED
      BY <1>1, <3>1, UnboundIs
  <2>2. exit' = None /\ alive' \subseteq Children
    BY <1>1, <1>12 DEF ChildTimesOut, TypeInv, TypeOK
  <2> QED
    BY <1>1, <1>6, <1>12, <2>1, <2>2, ChildSteps
<1> QED
  BY <1>8, <1>9, <1>10, <1>11, <1>12

\* The end of a process.
LEMMA VanishTyped ==
    ASSUME TypeInv, NEW p \in Procs, Leave(p) \/ Crash(p)
    PROVE  TypeInv' /\ Moves(p, None, "down")
<1> USE WorkerIs
<1>1. /\ TypeOK /\ Vanish(p)
      /\ UNCHANGED <<state, keyed, artifacts, stop, counter, outputs, partial, alive, opened>>
  BY DEF TypeInv, Leave, Crash
<1>2. /\ Moves(p, None, "down")
      /\ p = Worker => task' = None /\ exit' = None
      /\ p # Worker => task' = task /\ exit' = exit
  BY <1>1, VanishIs
<1>3. TypeOK' /\ opened' \in [Procs -> Nat]
  BY <1>1, <1>2 DEF TypeInv, TypeOK, artifacts, Moves, Others
<1>4. \A q \in Procs : /\ pc'[q] = "down" <=> mem'[q] = None
                       /\ pc'[q] # "down" => state' # None
  BY <1>1, <1>2 DEF TypeInv, Moves, Others
<1>5. \A v \in Verifiers : pc'[v] \in {"down", "ended", "conflict", "child", "index", "counter"}
  BY <1>2 DEF TypeInv, Moves, Others
<1>6. CASE p = Worker
  <2>1. pc'[Worker] = "down" /\ exit' = None
    BY <1>2, <1>6 DEF Moves
  <2>2. pc'[Worker] \notin TaskLocs
    BY <2>1 DEF TaskLocs
  <2> QED
    BY <1>2, <1>3, <1>4, <1>5, <2>1, <2>2 DEF TypeInv
<1>7. CASE p # Worker
  <2>1. /\ mem'[Worker] = mem[Worker] /\ pc'[Worker] = pc[Worker]
        /\ UNCHANGED <<task, exit, alive>>
    BY <1>1, <1>2, <1>7 DEF Moves, Others
  <2>2. Attempts' = Attempts /\ Child' = Child
    BY <2>1 DEF Attempts, Child
  <2> QED
    BY <1>2, <1>3, <1>4, <1>5, <2>1, <2>2 DEF TypeInv
<1> QED
  BY <1>6, <1>7

\* The steps of the children, the Owner and other runs.
Outside ==
    \/ \E c \in Children : \/ ChildIndexes(c) \/ ChildWrites(c)
                           \/ \E code \in {"ok", "science", "infra"} : ChildExits(c, code)
    \/ RequestStop \/ OtherRunExposes

LEMMA OutsideIs ==
    ASSUME TypeInv, Outside
    PROVE  /\ UNCHANGED <<state, keyed, artifacts, pc, mem, task, opened>>
           /\ alive' \subseteq alive
           /\ counter' = counter \/ (counter = "free" /\ counter' = "other")
<1> USE DEF os
<1>1. ASSUME NEW c \in Children, ChildIndexes(c) \/ ChildWrites(c)
      PROVE  UNCHANGED <<state, keyed, artifacts, pc, mem, task, opened, alive, counter>>
  BY <1>1 DEF ChildIndexes, ChildWrites
<1>2. ASSUME NEW c \in Children, NEW code, ChildExits(c, code)
      PROVE  /\ UNCHANGED <<state, keyed, artifacts, pc, mem, task, opened, counter>>
             /\ alive' \subseteq alive
  BY <1>2 DEF ChildExits
<1>3. CASE RequestStop
  BY <1>3 DEF RequestStop
<1>4. CASE OtherRunExposes
  BY <1>4 DEF OtherRunExposes
<1> QED
  BY <1>1, <1>2, <1>3, <1>4 DEF Outside

LEMMA OutsideTyped ==
    ASSUME TypeInv, Outside
    PROVE  TypeInv'
<1>1. /\ UNCHANGED <<state, keyed, artifacts, pc, mem, task, opened>>
      /\ alive' \subseteq alive /\ TypeOK
      /\ counter' \in {"free", "ours", "other"} /\ alive' \subseteq Children
  BY OutsideIs DEF TypeInv, TypeOK
<1>2. Attempts' = Attempts /\ Child' = Child
  BY <1>1 DEF Attempts, Child
<1>3. /\ outputs' \subseteq Tasks /\ partial' \in BOOLEAN
      /\ stop' \in {"none", "pending", "acknowledged"}
      /\ exit' # None <=> pc[Worker] \in {"launched", "waiting"} /\ Child \notin alive'
      /\ exit' \in {"ok", "science", "infra", None}
  <2> USE DEF os, TypeOK
  <2>1. ASSUME NEW c \in Children, ChildIndexes(c) \/ ChildWrites(c)
        PROVE  <1>3!:
    <3>1. c.task \in Tasks
      BY DEF Children
    <3> QED
      BY <1>1, <2>1, <3>1 DEF ChildIndexes, ChildWrites, TypeInv
  <2>2. ASSUME NEW c \in Children, NEW code \in {"ok", "science", "infra"}, ChildExits(c, code)
        PROVE  <1>3!:
    <3>1. /\ UNCHANGED <<outputs, partial, stop>> /\ alive' = alive \ {c} /\ c \in alive
          /\ exit' = IF pc[Worker] \in {"launched", "waiting"} /\ c = Child THEN code ELSE exit
      BY <2>2 DEF ChildExits
    <3>2. code # None
      BY NoneFacts
    <3>3. exit # None <=> pc[Worker] \in {"launched", "waiting"} /\ Child \notin alive
      BY DEF TypeInv
    <3>4. outputs \subseteq Tasks /\ partial \in BOOLEAN
          /\ stop \in {"none", "pending", "acknowledged"} /\ exit \in {"ok", "science", "infra", None}
      BY <1>1
    <3>5. CASE pc[Worker] \in {"launched", "waiting"} /\ c = Child
      BY <3>1, <3>2, <3>4, <3>5
    <3>6. CASE ~(pc[Worker] \in {"launched", "waiting"} /\ c = Child)
      <4>1. Child \in alive <=> Child \in alive' \/ c = Child
        BY <3>1
      <4> HIDE DEF TypeOK
      <4> QED
        BY <3>1, <3>3, <3>4, <3>6, <4>1
    <3> QED
      BY <3>5, <3>6
  <2>3. CASE RequestStop \/ OtherRunExposes
    BY <1>1, <2>3 DEF RequestStop, OtherRunExposes, TypeInv
  <2> QED
    BY <2>1, <2>2, <2>3 DEF Outside
<1>4. TypeOK'
  BY <1>1, <1>3 DEF TypeOK, artifacts
<1> QED
  BY <1>1, <1>2, <1>3, <1>4 DEF TypeInv

LEMMA TypeStutters ==
    ASSUME TypeInv, UNCHANGED vars
    PROVE  TypeInv'
<1>1. Attempts' = Attempts /\ Child' = Child
  BY DEF vars, Attempts, Child
<1>2. TypeOK'
  BY DEF TypeInv, TypeOK, vars, artifacts, os
<1> QED
  BY <1>1, <1>2 DEF TypeInv, vars, artifacts, os

LEMMA TypeNext ==
    ASSUME TypeInv, CountInv, ChildInv, [Next]_vars
    PROVE  TypeInv'
<1>1. CASE UNCHANGED vars
  BY <1>1, TypeStutters
<1>2. CASE Next
  <2>1. CASE Start
    BY <2>1, StartTyped
  <2>2. CASE Validate
    BY <2>2, ValidateTyped
  <2>3. ASSUME NEW p \in Procs, \/ Load(p) \/ CheckChild(p) \/ QuarantineIndexes(p)
                                \/ ReconcileCounter(p) \/ Leave(p) \/ Crash(p)
        PROVE  TypeInv'
    BY <2>3, LoadTyped, ValidationTyped, VanishTyped
  <2>4. CASE Outside
    BY <2>4, OutsideTyped
  <2> QED
    BY <1>2, <2>1, <2>2, <2>3, <2>4, NextCases, QuietTyped, ArtifactTyped, LaunchTyped
       DEF Outside
<1> QED
  BY <1>1, <1>2

-----------------------------------------------------------------------------
(***************************************************************************)
(* What a step leaves of the invariants that it does not touch.            *)
(***************************************************************************)

LEMMA KnownIs ==
    ASSUME TypeInv
    PROVE  /\ Known \subseteq StateType
           /\ state # None => state \in Known
           /\ \A p \in Procs : pc[p] # "down" => mem[p] \in Known
           /\ \A e \in keyed : e.state \in Known /\ e.state \in StateType
<1>1. \A e \in keyed : e.state \in StateType
  BY DEF TypeInv, TypeOK
<1>2. \A e \in keyed : e.state # None
  BY <1>1, NoneFacts
<1> QED
  BY <1>1, <1>2 DEF TypeInv, TypeOK, Known

LEMMA KnownGrows ==
    ASSUME NEW p \in Procs, NEW s, Others(p), mem'[p] \in {mem[p], s, None},
           state' \in {state, s}, \A e \in keyed' : e \in keyed \/ e.state = s
    PROVE  Known' \subseteq Known \cup {s}
BY DEF Known, Others

\* What is durable stays.
Durable ==
    /\ results \subseteq results'
    /\ freeze # None => freeze' = freeze
    /\ counter = "ours" => counter' = "ours"

LEMMA DurableNext ==
    ASSUME TrainInv, [Next]_vars
    PROVE  Durable
<1> USE DEF Durable, artifacts
<1>1. CASE UNCHANGED vars
  BY <1>1 DEF vars
<1>2. CASE Outside
  <2> USE DEF os
  <2>1. CASE \E c \in Children : ChildIndexes(c) \/ ChildWrites(c)
    BY <2>1 DEF ChildIndexes, ChildWrites
  <2>2. CASE \E c \in Children, code \in {"ok", "science", "infra"} : ChildExits(c, code)
    BY <2>2 DEF ChildExits
  <2>3. CASE RequestStop \/ OtherRunExposes
    BY <2>3 DEF RequestStop, OtherRunExposes
  <2> QED
    BY <1>2, <2>1, <2>2, <2>3 DEF Outside
<1>3. CASE WriteFreeze
  BY <1>3 DEF WriteFreeze, TrainInv
<1>4. CASE SwapCounter \/ AcceptResult \/ WriteCommitment \/ ProposeBatch \/ WritePackage
  BY <1>4 DEF SwapCounter, AcceptResult, WriteCommitment, ProposeBatch, WritePackage
<1>5. ASSUME NEW p \in Procs, \/ Load(p) \/ CheckChild(p) \/ QuarantineIndexes(p)
                              \/ ReconcileCounter(p) \/ Leave(p) \/ Crash(p)
      PROVE  Durable
  BY <1>5 DEF Load, CheckChild, QuarantineIndexes, ReconcileCounter, Leave, Crash
<1>6. CASE \/ Start \/ Resume \/ Supervise \/ Validate \/ RecordLineage \/ RegisterBase
           \/ JournalCommitment \/ NextCandidate \/ CompleteIteration \/ StopAtCheckpoint
           \/ PassCheckpoint \/ AcknowledgeStop \/ ProposerFails \/ FreezeBatch
           \/ FinishGeneration
  BY <1>6 DEF Start, Resume, Supervise, Validate, RecordLineage, RegisterBase,
     JournalCommitment, NextCandidate, CompleteIteration, StopAtCheckpoint, PassCheckpoint,
     AcknowledgeStop, ProposerFails, FreezeBatch, FinishGeneration
<1>7. CASE \/ Attempt \/ BindChild \/ CannotBindChild \/ ChildFinished \/ ChildTimesOut
           \/ CollectOutput \/ InfrastructureFailure \/ ScientificFailure \/ JournalResult
           \/ ReproduceBaseline \/ DeriveShortlist \/ JournalFreeze \/ JournalExposure
           \/ NextFinalist \/ FinalistsDone \/ Complete
  BY <1>7 DEF Attempt, BindChild, CannotBindChild, ChildFinished, ChildTimesOut,
     CollectOutput, InfrastructureFailure, ScientificFailure, JournalResult, ReproduceBaseline,
     DeriveShortlist, JournalFreeze, JournalExposure, NextFinalist, FinalistsDone, Complete
<1> QED
  BY <1>1, <1>2, <1>3, <1>4, <1>5, <1>6, <1>7, NextCases DEF Outside

LEMMA BackedKept ==
    ASSUME TypeInv, BackedInv, Durable, NEW s, s # None => Backed(s)',
           Known' \subseteq Known \cup {s}
    PROVE  BackedInv'
<1>1. ASSUME NEW r \in Known, Backed(r)
      PROVE  Backed(r)'
  <2>1. r \in StateType
    BY KnownIs
  <2>2. r.shortlist # None
    BY <2>1, NoneFacts DEF StateType
  <2>3. freeze = r.shortlist => freeze' = r.shortlist
    BY <2>2 DEF Durable
  <2> QED
    BY <1>1, <2>3 DEF Backed, Durable
<1>2. \A r \in Known' : r # None
  BY DEF Known
<1> QED
  BY <1>1, <1>2 DEF BackedInv

\* The worker stays where it is, or is not at work.
LEMMA ControlKept ==
    ASSUME CountInv, TrainInv, SelectInv, TypeInv, results \subseteq results',
           \/ pc'[Worker] \notin Late
           \/ /\ pc'[Worker] = pc[Worker] /\ mem'[Worker] = mem[Worker]
              /\ UNCHANGED <<task, freeze>>
              /\ counter' = counter \/ (counter = "free" /\ counter' = "other")
    PROVE  CountInv' /\ TrainInv' /\ SelectInv'
<1>1. CASE pc'[Worker] \notin Late
  BY <1>1 DEF CountInv, TrainInv, SelectInv, Late, TaskLocs
<1>2. CASE /\ pc'[Worker] = pc[Worker] /\ mem'[Worker] = mem[Worker]
           /\ UNCHANGED <<task, freeze>>
           /\ counter' = counter \/ (counter = "free" /\ counter' = "other")
  <2>1. CountInv'
    BY <1>2 DEF CountInv
  <2>2. TrainInv'
    BY <1>2 DEF TrainInv
  <2>3. SelectInv'
    BY <1>2 DEF SelectInv
  <2> QED
    BY <2>1, <2>2, <2>3
<1> QED
  BY <1>1, <1>2

LEMMA StartKept ==
    ASSUME StartInv, NEW s, Known' \subseteq Known \cup {s}, keyed \subseteq keyed',
           \A e \in keyed' \ keyed : e.key = <<"validating">> => "lineage" \notin e.state.marks,
           \/ s = None
           \/ "lineage" \notin s.marks /\ s = At(Initial, s.stage)
           \/ "lineage" \in s.marks /\ \E e \in keyed' : e.key = <<"validating">>,
           pc'[Worker] \in Setup \cup Late =>
              \/ pc'[Worker] = pc[Worker] /\ mem'[Worker] = mem[Worker]
              \/ /\ \E e \in keyed' : e.key = <<"validating">>
                 /\ pc'[Worker] # "lineage" => "lineage" \in mem'[Worker].marks
                 /\ pc'[Worker] \in Setup =>
                       LET m == mem'[Worker]
                       IN  /\ m.marks \subseteq {"lineage", "base"}
                           /\ m = [At(Initial, m.stage) EXCEPT !.marks = m.marks]
    PROVE  StartInv'
<1>1. \A r \in Known' : r # None
  BY DEF Known
<1>2. \A r \in Known' : "lineage" \notin r.marks => r = At(Initial, r.stage)
  BY <1>1 DEF StartInv
<1>3. \A e \in keyed' : e.key = <<"validating">> => "lineage" \notin e.state.marks
  BY DEF StartInv
<1>4. (\E r \in Known' : "lineage" \in r.marks) \/ pc'[Worker] \in Setup \cup Late =>
          \E e \in keyed' : e.key = <<"validating">>
  BY <1>1 DEF StartInv
<1>5. "lineage" \notin Late
  BY DEF Late, TaskLocs
<1> QED
  BY <1>2, <1>3, <1>4, <1>5 DEF StartInv

\* s is what a load, a validation or an early step of the worker makes of t.
Derived(s, t) ==
    /\ s \in StateType
    /\ s.accepted = t.accepted /\ s.shortlist = t.shortlist /\ s.child \in {None, t.child}
    /\ \A mark \in {"reproduction", "frozen"} : mark \in s.marks <=> mark \in t.marks
    /\ s.exposure = 1 => t.exposure = 1 \/ counter = "ours"

LEMMA DerivedKept ==
    ASSUME RunInv, NEW p \in Procs, NEW t \in Known, NEW s, Derived(s, t),
           Others(p), mem'[p] = s, state' \in {state, s}, state # None,
           \A e \in keyed' : e \in keyed \/ e.state = s,
           \A c \in Children : Released(c)' => Released(c) \/ (c = t.child /\ c \notin alive),
           UNCHANGED <<artifacts, counter, alive, task>>,
           p = Worker => pc'[Worker] \notin Late \cup {"committed"},
           p = Worker => state.stage \notin Blocked, s.stage \notin Blocked,
           p = Worker /\ pc'[Worker] \in {"resumed", "supervise", "validate"} /\ counter = "ours"
              => s.exposure = 1
    PROVE  /\ Known' \subseteq Known \cup {s}
           /\ CountInv' /\ CommitInv' /\ BackedInv' /\ ChildInv' /\ TrainInv' /\ SelectInv'
           /\ BlockInv' /\ ExposureBound' /\ PackageIsWhole'
<1> USE WorkerIs
<1>1. Known' \subseteq Known \cup {s}
  BY KnownGrows
<1>2. /\ UNCHANGED <<commitment, results, freeze, package, counter, alive, task>>
      /\ s \in StateType /\ s # None /\ TypeInv /\ state' # None
  BY NoneFacts DEF artifacts, RunInv, Derived
<1>3. p # Worker => pc'[Worker] = pc[Worker] /\ mem'[Worker] = mem[Worker]
  BY DEF Others
<1>4. CountInv' /\ TrainInv' /\ SelectInv'
  <2>1. CountInv /\ TrainInv /\ SelectInv
    BY DEF RunInv
  <2> QED
    BY <1>2, <1>3, <2>1, ControlKept
<1>5. CommitInv'
  <2>1. ASSUME Untouched
        PROVE  Untouched'
    <3>1. s.child = None /\ s.accepted = {} /\ t.child = None
      BY <2>1 DEF Untouched, Derived
    <3>2. \A c \in Children : ~Released(c)'
      BY <2>1, <3>1, NoneFacts DEF Untouched
    <3> QED
      BY <1>1, <1>2, <2>1, <3>1, <3>2 DEF Untouched
  <2> QED
    BY <1>2, <1>3, <2>1 DEF CommitInv, RunInv
<1>6. Backed(s)'
  <2>1. Backed(t)
    BY DEF RunInv, BackedInv
  <2> QED
    BY <1>2, <2>1 DEF Backed, Derived
<1>7. BackedInv'
  <2>1. BackedInv /\ Durable
    BY <1>2 DEF RunInv, Durable
  <2> QED
    BY <1>1, <1>2, <1>6, <2>1, BackedKept
<1>8. ChildInv'
  <2> USE DEF RunInv, ChildInv
  <2>1. \A c \in alive' : ~Released(c)'
    BY <1>2 DEF TypeInv, TypeOK
  <2>2. ASSUME pc'[Worker] \in Late
        PROVE  /\ \A r \in Known' : r.child # None => Launched(r.child)'
               /\ \A c \in Children : Released(c)' => Launched(c)'
    <3>1. pc[Worker] \in Late /\ mem'[Worker] = mem[Worker]
      BY <1>3, <2>2
    <3>2. /\ \A r \in Known : r.child # None => Launched(r.child)
          /\ \A c \in Children : Released(c) => Launched(c)
      BY <3>1
    <3>3. \A c : Launched(c)' <=> Launched(c)
      BY <3>1 DEF Launched
    <3>4. s.child # None => s.child = t.child
      BY DEF Derived
    <3> HIDE DEF RunInv, ChildInv
    <3> QED
      BY <1>1, <3>2, <3>3, <3>4, NoneFacts
  <2>3. CASE p # Worker
    <3>1. pc'[Worker] = pc[Worker] /\ Child' = Child /\ alive' = alive
      BY <1>2, <1>3, <2>3 DEF Child, Attempts
    <3> QED
      BY <2>1, <2>2, <3>1
  <2>4. CASE p = Worker
    <3>1. pc'[Worker] \notin Late /\ pc'[Worker] \notin {"launched", "waiting"}
      BY <2>4 DEF Late, TaskLocs
    <3> QED
      BY <1>2, <2>1, <3>1
  <2> QED
    BY <2>3, <2>4
<1>9. BlockInv'
  <2>1. BlockInv
    BY DEF RunInv
  <2> QED
    BY <1>3, <2>1 DEF BlockInv, Others
<1>10. ExposureBound'
  <2>1. /\ ExposureBound /\ state \in Known
    BY KnownIs DEF RunInv
  <2>2. state'.exposure = 1 => counter' = "ours"
    <3>1. Backed(state)
      BY <2>1 DEF RunInv, BackedInv
    <3> QED
      BY <1>2, <1>6, <3>1 DEF Backed
  <2> QED
    BY <1>2, <1>3, <2>1, <2>2 DEF ExposureBound
<1>11. PackageIsWhole'
  BY <1>2 DEF RunInv, PackageIsWhole
<1> QED
  BY <1>1, <1>4, <1>5, <1>7, <1>8, <1>9, <1>10, <1>11

\* The first state, in whatever stage.
LEMMA InitialIs ==
    ASSUME NEW t \in StateType, t = At(Initial, t.stage)
    PROVE  /\ t.marks = {} /\ t.reason = None /\ t.child = None /\ t.accepted = {}
           /\ t.batches = 0 /\ t.completed = 0 /\ t.exposure = 0
<1>1. /\ Initial.marks = {} /\ Initial.reason = None /\ Initial.child = None
      /\ Initial.accepted = {} /\ Initial.batches = 0 /\ Initial.completed = 0
      /\ Initial.exposure = 0
  BY DEF Initial
<1>2. t.stage \in Stages
  BY DEF StateType
<1>3. LET r == At(Initial, t.stage) IN
      /\ r.marks = Initial.marks /\ r.reason = Initial.reason
      /\ SameRun(r, Initial) /\ SameTask(r, Initial)
  BY <1>2, InitialTyped, AtIs
<1> QED
  BY <1>1, <1>3 DEF SameRun, SameTask

LEMMA StaysInitial ==
    ASSUME NEW t \in StateType, NEW s \in StateType, t = At(Initial, t.stage),
           s.marks = t.marks, s.reason = None, SameRun(s, t), SameTask(s, t)
    PROVE  s = At(Initial, s.stage)
<1>1. t.reason = None
  BY InitialIs
<1>2. s.stage \in Stages /\ t.stage \in Stages
  BY DEF StateType
<1>3. /\ At(Initial, s.stage) \in StateType
      /\ At(Initial, s.stage).stage = s.stage
      /\ At(Initial, s.stage).marks = Initial.marks
      /\ At(Initial, s.stage).reason = Initial.reason
      /\ SameRun(At(Initial, s.stage), Initial) /\ SameTask(At(Initial, s.stage), Initial)
  BY <1>2, InitialTyped, AtIs
<1>4. /\ At(Initial, t.stage).marks = Initial.marks
      /\ At(Initial, t.stage).reason = Initial.reason
      /\ SameRun(At(Initial, t.stage), Initial) /\ SameTask(At(Initial, t.stage), Initial)
  BY <1>2, InitialTyped, AtIs
<1> DEFINE r == At(Initial, s.stage)
           q == At(Initial, t.stage)
<1>5. /\ t = q /\ r \in StateType /\ r.stage = s.stage /\ r.marks = Initial.marks
      /\ r.reason = Initial.reason /\ SameRun(r, Initial) /\ SameTask(r, Initial)
      /\ q.marks = Initial.marks /\ q.reason = Initial.reason
      /\ SameRun(q, Initial) /\ SameTask(q, Initial)
  BY <1>3, <1>4
<1> HIDE DEF r, q
<1>6. s.stage = r.stage /\ s.marks = r.marks /\ s.reason = r.reason
  BY <1>1, <1>5
<1>7. SameRun(s, r) /\ SameTask(s, r)
  BY <1>5 DEF SameRun, SameTask
<1>8. s = r
  BY <1>5, <1>6, <1>7, SameFields
<1> QED
  BY <1>8 DEF r

LEMMA DerivedStarts ==
    ASSUME TypeInv, StartInv, NEW p \in Procs, NEW t \in Known, NEW s,
           Known' \subseteq Known \cup {s}, keyed \subseteq keyed',
           \A e \in keyed' \ keyed : e.key # <<"validating">>,
           s.marks = t.marks, t = At(Initial, t.stage) => s = At(Initial, s.stage),
           Others(p), p = Worker => pc'[Worker] \notin Setup \cup Late
    PROVE  StartInv'
<1>1. pc'[Worker] \in Setup \cup Late => pc'[Worker] = pc[Worker] /\ mem'[Worker] = mem[Worker]
  BY WorkerIs DEF Others
<1>2. \/ "lineage" \notin s.marks /\ s = At(Initial, s.stage)
      \/ "lineage" \in s.marks /\ \E e \in keyed' : e.key = <<"validating">>
  BY DEF StartInv
<1>3. \A e \in keyed' \ keyed : e.key = <<"validating">> => "lineage" \notin e.state.marks
  OBVIOUS
<1> QED
  BY <1>1, <1>2, <1>3, StartKept

\* The new key of a release is that of a child that ended.
LEMMA ReleasedGrows ==
    ASSUME NEW key, NEW s, keyed' \subseteq keyed \cup {[key |-> key, state |-> s]}
    PROVE  /\ \A e \in keyed' : e \in keyed \/ (e.key = key /\ e.state = s)
           /\ \A c \in Children : Released(c)' => Released(c) \/ key = <<"released", c>>
BY DEF Released

LEMMA LoadKept ==
    ASSUME RunInv, NEW p \in Procs, Load(p)
    PROVE  RunInv'
<1>1. /\ TypeInv /\ state # None /\ state.stage \notin Blocked
      /\ UNCHANGED <<state, keyed, artifacts, stop, counter, os, task>>
  BY DEF RunInv, Load
<1>2. state \in Known /\ state \in StateType
  BY <1>1, KnownIs
<1>3. Moves(p, state, "child")
  <2>1. "child" \in Locations /\ Hold(p, state) /\ Goto(p, "child") /\ TypeOK
    BY DEF Locations, Load, RunInv, TypeInv
  <2> QED
    BY <1>2, <2>1, GoesTo
<1>4. Others(p) /\ mem'[p] = state /\ pc'[p] = "child"
  BY <1>3 DEF Moves
<1>5. pc'[p] \notin Setup \cup Late \cup {"committed", "resumed", "supervise", "validate"}
  BY <1>4 DEF Setup, Late, TaskLocs
<1>6. Derived(state, state)
  BY <1>2 DEF Derived
<1>7. UNCHANGED <<artifacts, counter, alive, task, keyed>> /\ state' = state
  BY <1>1 DEF os
<1>8. \A c \in Children : Released(c)' => Released(c)
  BY <1>7 DEF Released
<1>9. /\ Known' \subseteq Known \cup {state}
      /\ CountInv' /\ CommitInv' /\ BackedInv' /\ ChildInv' /\ TrainInv' /\ SelectInv'
      /\ BlockInv' /\ ExposureBound' /\ PackageIsWhole'
  BY <1>1, <1>2, <1>4, <1>5, <1>6, <1>7, <1>8, DerivedKept
<1>10. StartInv'
  BY <1>1, <1>2, <1>4, <1>5, <1>7, <1>9, DerivedStarts DEF RunInv
<1>11. TypeInv'
  BY <1>1, LoadTyped
<1> QED
  BY <1>9, <1>10, <1>11 DEF RunInv

\* A step of a validation: s is what it makes of the state it loaded.
LEMMA CheckKept ==
    ASSUME RunInv, NEW p \in Procs, pc[p] \in {"child", "index", "counter"}, NEW s,
           Derived(s, mem[p]), s.marks = mem[p].marks, s.stage = mem[p].stage,
           mem[p] = At(Initial, mem[p].stage) => s = At(Initial, s.stage),
           Others(p), mem'[p] = s, state' \in {state, s},
           pc'[p] \in {"ended", "conflict", "index", "counter", Validated(p)},
           keyed \subseteq keyed', \A e \in keyed' : e \in keyed \/ e.state = s,
           \A e \in keyed' \ keyed : e.key # <<"validating">>,
           \A c \in Children : Released(c)' => Released(c) \/ (c = mem[p].child /\ c \notin alive),
           UNCHANGED <<artifacts, counter, alive, task>>,
           pc'[p] = "resumed" /\ counter = "ours" => s.exposure = 1
    PROVE  /\ StartInv' /\ CountInv' /\ CommitInv' /\ BackedInv' /\ ChildInv' /\ TrainInv'
           /\ SelectInv' /\ BlockInv' /\ ExposureBound' /\ PackageIsWhole'
<1>1. mem[p] \in Known /\ state # None /\ TypeInv /\ StartInv
  BY KnownIs DEF RunInv, TypeInv
<1>2. s.stage \notin Blocked /\ (p = Worker => state.stage \notin Blocked)
  BY <1>1 DEF RunInv, BlockInv
<1>3. pc'[p] \in {"ended", "conflict", "index", "counter", "resumed"}
  BY DEF Validated
<1>4. pc'[p] \notin Setup \cup Late \cup {"committed", "supervise", "validate"}
  BY <1>3 DEF Setup, Late, TaskLocs
<1>5. /\ Known' \subseteq Known \cup {s}
      /\ CountInv' /\ CommitInv' /\ BackedInv' /\ ChildInv' /\ TrainInv' /\ SelectInv'
      /\ BlockInv' /\ ExposureBound' /\ PackageIsWhole'
  BY <1>1, <1>2, <1>4, DerivedKept
<1>6. StartInv'
  BY <1>1, <1>4, <1>5, DerivedStarts
<1> QED
  BY <1>5, <1>6

LEMMA CheckChildKept ==
    ASSUME RunInv, NEW p \in Procs, CheckChild(p)
    PROVE  RunInv'
<1> USE WorkerIs
<1>1. /\ TypeInv /\ TypeOK /\ mem[p] \in StateType /\ state \in StateType /\ pc[p] = "child"
      /\ UNCHANGED <<artifacts, counter, alive, task>>
  BY Holds DEF RunInv, TypeInv, CheckChild, os
<1>2. TypeInv'
  BY <1>1, ValidationTyped
<1> DEFINE child == mem[p].child
<1>3. CASE child \in alive \/ child = None
  <2>1. PICK l \in {"ended", "index"} : Goto(p, l) /\ UNCHANGED <<state, keyed, mem>>
    BY <1>3 DEF CheckChild
  <2>2. l \in Locations /\ l # "resumed"
    BY DEF Locations
  <2>3. Moves(p, mem[p], l)
    BY <1>1, <2>1, <2>2, GotoIs
  <2>4. Derived(mem[p], mem[p])
    BY <1>1 DEF Derived
  <2>5. \A c \in Children : Released(c)' => Released(c)
    BY <2>1 DEF Released
  <2>6. Others(p) /\ mem'[p] = mem[p] /\ pc'[p] = l
    BY <2>3 DEF Moves
  <2> QED
    BY <1>1, <1>2, <2>1, <2>2, <2>4, <2>5, <2>6, CheckKept DEF RunInv
<1>4. CASE ~(child \in alive \/ child = None)
  <2> DEFINE s == ReleasedOf(mem[p])
             key == <<"released", child>>
  <2>1. JournalOnce(p, key, s, "index")
    BY <1>4 DEF CheckChild, ReleasedOf
  <2>2. /\ key \in Keys /\ key # <<"validating">>
        /\ \A c \in Children : key = <<"released", c>> => c = child
    BY <1>1, <1>4 DEF StateType, Keys
  <2>3. /\ s \in StateType /\ s.stage = mem[p].stage /\ s.marks = mem[p].marks
        /\ s.reason = mem[p].reason /\ SameRun(s, mem[p])
        /\ s.attempts = mem[p].attempts /\ s.child = None
    BY <1>1, ReleasedIs
  <2> HIDE DEF key, s
  <2>4. "index" \in Locations \ {"conflict"}
    BY DEF Locations
  <2>5. Grows(p, key, s, "index")
    BY <1>1, <2>1, <2>2, <2>3, <2>4, JournalOnceAdds
  <2>6. /\ Others(p) /\ mem'[p] = s /\ pc'[p] \in {"index", "conflict"} /\ state' \in {state, s}
        /\ keyed \subseteq keyed' /\ keyed' \subseteq keyed \cup {[key |-> key, state |-> s]}
    BY <2>5 DEF Grows
  <2>7. /\ \A e \in keyed' : e \in keyed \/ (e.key = key /\ e.state = s)
        /\ \A c \in Children : Released(c)' => Released(c) \/ key = <<"released", c>>
    BY <2>6, ReleasedGrows
  <2>8. Derived(s, mem[p])
    BY <2>3 DEF Derived, SameRun
  <2>9. ASSUME mem[p] = At(Initial, mem[p].stage)
        PROVE  s = At(Initial, s.stage)
    <3>1. mem[p].child = None
      BY <1>1, <2>9, InitialIs
    <3> QED
      BY <1>4, <3>1
  <2>10. \A c \in Children :
            Released(c)' => Released(c) \/ (c = mem[p].child /\ c \notin alive)
    BY <1>4, <2>2, <2>7
  <2>11. \A e \in keyed' \ keyed : e.key # <<"validating">>
    BY <2>2, <2>7
  <2> QED
    BY <1>1, <1>2, <2>3, <2>6, <2>7, <2>8, <2>9, <2>10, <2>11, CheckKept DEF RunInv
<1> QED
  BY <1>3, <1>4

LEMMA QuarantineKept ==
    ASSUME RunInv, NEW p \in Procs, QuarantineIndexes(p)
    PROVE  RunInv'
<1> USE WorkerIs
<1>1. /\ TypeInv /\ TypeOK /\ mem[p] \in StateType /\ state \in StateType /\ pc[p] = "index"
      /\ UNCHANGED <<artifacts, counter, alive, task, keyed>>
  BY Holds DEF RunInv, TypeInv, QuarantineIndexes
<1>2. TypeInv'
  BY <1>1, ValidationTyped
<1>3. Moves(p, mem[p], "counter") /\ state' \in {state, mem[p]}
  <2>1. "counter" \in Locations
    BY DEF Locations
  <2>2. CASE partial
    BY <1>1, <2>1, <2>2, JournalIs DEF QuarantineIndexes
  <2>3. CASE ~partial
    BY <1>1, <2>1, <2>3, GotoIs DEF QuarantineIndexes
  <2> QED
    BY <2>2, <2>3
<1>4. Derived(mem[p], mem[p])
  BY <1>1 DEF Derived
<1>5. \A c \in Children : Released(c)' => Released(c)
  BY <1>1 DEF Released
<1>6. Others(p) /\ mem'[p] = mem[p] /\ pc'[p] = "counter"
  BY <1>3 DEF Moves
<1> QED
  BY <1>1, <1>2, <1>3, <1>4, <1>5, <1>6, CheckKept DEF RunInv

LEMMA ReconcileKept ==
    ASSUME RunInv, NEW p \in Procs, ReconcileCounter(p)
    PROVE  RunInv'
<1> USE WorkerIs
<1>1. /\ TypeInv /\ TypeOK /\ mem[p] \in StateType /\ state \in StateType /\ pc[p] = "counter"
      /\ UNCHANGED <<artifacts, counter, alive, task>>
      /\ Validated(p) \in Locations \ {"conflict"} /\ "ended" \in Locations
  BY Holds DEF RunInv, TypeInv, ReconcileCounter, os, Validated, Locations
<1>2. TypeInv'
  BY <1>1, ValidationTyped
<1> DEFINE s == ReconciledOf(mem[p])
           key == <<"reconciled">>
<1>3. \/ \E l \in {"ended", Validated(p)} :
            /\ Goto(p, l) /\ UNCHANGED <<state, keyed, mem>>
            /\ l = Validated(p) => mem[p].exposure = 1 \/ counter # "ours" \/ l = "ended"
      \/ /\ JournalOnce(p, key, s, Validated(p))
         /\ counter = "ours" /\ "frozen" \in mem[p].marks
  BY DEF ReconcileCounter, ReconciledOf
<1>4. ASSUME NEW l \in {"ended", Validated(p)}, Goto(p, l), UNCHANGED <<state, keyed, mem>>,
             l = Validated(p) => mem[p].exposure = 1 \/ counter # "ours" \/ l = "ended"
      PROVE  RunInv'
  <2>1. Moves(p, mem[p], l)
    BY <1>1, <1>4, GotoIs
  <2>2. Derived(mem[p], mem[p])
    BY <1>1 DEF Derived
  <2>3. \A c \in Children : Released(c)' => Released(c)
    BY <1>4 DEF Released
  <2>4. Others(p) /\ mem'[p] = mem[p] /\ pc'[p] = l
    BY <2>1 DEF Moves
  <2>5. pc'[p] = "resumed" /\ counter = "ours" => mem[p].exposure = 1
    BY <1>4, <2>4 DEF Validated
  <2> QED
    BY <1>1, <1>2, <1>4, <2>2, <2>3, <2>4, <2>5, CheckKept DEF RunInv
<1>5. CASE /\ JournalOnce(p, key, s, Validated(p))
           /\ counter = "ours" /\ "frozen" \in mem[p].marks
  <2>1. /\ key \in Keys /\ key # <<"validating">>
        /\ \A c \in Children : key # <<"released", c>>
    BY DEF Keys
  <2>2. /\ s \in StateType /\ s.stage = mem[p].stage /\ s.marks = mem[p].marks
        /\ s.accepted = mem[p].accepted /\ s.shortlist = mem[p].shortlist
        /\ s.exposure = 1 /\ s.child = mem[p].child
    BY <1>1, ReconciledIs DEF SameTask
  <2> HIDE DEF key, s
  <2>3. Grows(p, key, s, Validated(p))
    BY <1>1, <1>5, <2>1, <2>2, JournalOnceAdds
  <2>4. /\ Others(p) /\ mem'[p] = s /\ pc'[p] \in {Validated(p), "conflict"}
        /\ state' \in {state, s}
        /\ keyed \subseteq keyed' /\ keyed' \subseteq keyed \cup {[key |-> key, state |-> s]}
    BY <2>3 DEF Grows
  <2>5. /\ \A e \in keyed' : e \in keyed \/ (e.key = key /\ e.state = s)
        /\ \A c \in Children : Released(c)' => Released(c) \/ key = <<"released", c>>
    BY <2>4, ReleasedGrows
  <2>6. Derived(s, mem[p])
    BY <1>5, <2>2 DEF Derived
  <2>7. mem[p] # At(Initial, mem[p].stage)
    BY <1>1, <1>5, InitialIs
  <2>8. \A e \in keyed' \ keyed : e.key # <<"validating">>
    BY <2>1, <2>5
  <2> QED
    BY <1>1, <1>2, <2>1, <2>2, <2>4, <2>5, <2>6, <2>7, <2>8, CheckKept DEF RunInv
<1> QED
  BY <1>3, <1>4, <1>5

\* A process ends, or none moves.
LEMMA NothingNew ==
    ASSUME RunInv, UNCHANGED <<state, keyed, artifacts>>, alive' \subseteq alive,
           counter' = counter \/ (counter = "free" /\ counter' = "other"),
           \A q \in Procs : \/ pc'[q] = "down" /\ mem'[q] = None
                            \/ pc'[q] = pc[q] /\ mem'[q] = mem[q],
           pc'[Worker] = "down" \/ task' = task
    PROVE  /\ StartInv' /\ CountInv' /\ CommitInv' /\ BackedInv' /\ ChildInv' /\ TrainInv'
           /\ SelectInv' /\ BlockInv' /\ ExposureBound' /\ PackageIsWhole'
<1> USE WorkerIs
<1>1. /\ UNCHANGED <<commitment, results, freeze, package>> /\ TypeInv
      /\ counter' = "ours" <=> counter = "ours"
  BY DEF artifacts, RunInv
<1>2. Known' \subseteq Known
  BY DEF Known
<1>3. pc'[Worker] = "down" \/ (/\ pc'[Worker] = pc[Worker] /\ mem'[Worker] = mem[Worker]
                               /\ task' = task)
  OBVIOUS
<1>4. "down" \notin Late \cup Setup \cup {"committed"} \cup TaskLocs
  BY DEF Late, Setup, TaskLocs
<1>5. CountInv' /\ TrainInv' /\ SelectInv'
  <2>1. CountInv /\ TrainInv /\ SelectInv
    BY DEF RunInv
  <2> QED
    BY <1>1, <1>3, <1>4, <2>1, ControlKept
<1>6. StartInv'
  <2>1. \A e \in keyed' \ keyed : e.key = <<"validating">> => "lineage" \notin e.state.marks
    OBVIOUS
  <2>2. StartInv /\ Known' \subseteq Known \cup {None}
    BY <1>2 DEF RunInv
  <2> QED
    BY <1>3, <1>4, <2>1, <2>2, StartKept
<1>7. CommitInv'
  <2>1. Untouched => Untouched'
    BY <1>1, <1>2 DEF Untouched, Released, TypeInv, TypeOK
  <2> QED
    BY <1>1, <1>3, <1>4, <2>1 DEF RunInv, CommitInv
<1>8. BackedInv'
  <2>1. BackedInv /\ Durable
    BY <1>1 DEF RunInv, Durable
  <2> QED
    BY <1>1, <1>2, <2>1, BackedKept
<1>9. ChildInv'
  <2>1. CASE pc'[Worker] = "down"
    BY <1>4, <2>1 DEF RunInv, ChildInv, Released
  <2>2. CASE pc'[Worker] = pc[Worker] /\ mem'[Worker] = mem[Worker] /\ task' = task
    <3>1. Child' = Child
      BY <2>2 DEF Child, Attempts
    <3>2. \A c : (Launched(c)' <=> Launched(c)) /\ (Released(c)' <=> Released(c))
      BY <2>2 DEF Launched, Released
    <3> QED
      BY <1>2, <2>2, <3>1, <3>2 DEF RunInv, ChildInv
  <2> QED
    BY <1>3, <2>1, <2>2
<1>10. BlockInv'
  BY DEF RunInv, BlockInv
<1>11. ExposureBound'
  BY <1>1, <1>3 DEF RunInv, ExposureBound
<1>12. PackageIsWhole'
  BY <1>1 DEF RunInv, PackageIsWhole
<1> QED
  BY <1>5, <1>6, <1>7, <1>8, <1>9, <1>10, <1>11, <1>12

LEMMA VanishKept ==
    ASSUME RunInv, NEW p \in Procs, Leave(p) \/ Crash(p)
    PROVE  RunInv'
<1> USE WorkerIs
<1>1. TypeInv' /\ Moves(p, None, "down")
  BY VanishTyped DEF RunInv
<1>2. /\ Vanish(p) /\ TypeOK
      /\ UNCHANGED <<state, keyed, artifacts, stop, counter, outputs, partial, alive, opened>>
  BY DEF RunInv, TypeInv, Leave, Crash
<1>3. p # Worker => task' = task
  BY <1>2, VanishIs
<1>4. /\ \A q \in Procs : \/ pc'[q] = "down" /\ mem'[q] = None
                          \/ pc'[q] = pc[q] /\ mem'[q] = mem[q]
      /\ pc'[Worker] = "down" \/ task' = task
  BY <1>1, <1>3 DEF Moves, Others
<1> QED
  BY <1>1, <1>2, <1>4, NothingNew DEF RunInv

LEMMA OutsideKept ==
    ASSUME RunInv, Outside
    PROVE  RunInv'
<1>1. TypeInv
  BY DEF RunInv
<1>2. TypeInv'
  BY <1>1, OutsideTyped
<1>3. /\ UNCHANGED <<state, keyed, artifacts, pc, mem, task, opened>>
      /\ alive' \subseteq alive
      /\ counter' = counter \/ (counter = "free" /\ counter' = "other")
  BY <1>1, OutsideIs
<1> QED
  BY <1>2, <1>3, NothingNew DEF RunInv

LEMMA StutterKept ==
    ASSUME RunInv, UNCHANGED vars
    PROVE  RunInv'
<1>1. TypeInv'
  BY TypeStutters DEF RunInv
<1>2. UNCHANGED <<state, keyed, artifacts, alive, counter, pc, mem, task>>
  BY DEF vars, os
<1> QED
  BY <1>1, <1>2, NothingNew DEF RunInv

LEMMA StartsRun ==
    ASSUME RunInv, Start
    PROVE  RunInv'
<1> USE WorkerIs
<1>1. /\ TypeInv /\ state = None /\ pc[Worker] = "down"
      /\ UNCHANGED <<keyed, commitment, results, freeze, package, counter, alive, task>>
  BY DEF RunInv, Start, artifacts, os
<1>2. TypeInv' /\ state' = Initial /\ Moves(Worker, Initial, "supervise")
  BY <1>1, StartTyped
<1>3. Others(Worker) /\ mem'[Worker] = Initial /\ pc'[Worker] = "supervise"
  BY <1>2 DEF Moves
<1>4. ~commitment /\ Untouched
  BY <1>1 DEF RunInv, CommitInv
<1>5. Known' \subseteq Known \cup {Initial}
  BY <1>1, <1>2, <1>3, KnownGrows
<1>6. /\ Initial.marks = {} /\ Initial.child = None /\ Initial.accepted = {}
      /\ Initial.exposure = 0 /\ Initial.shortlist = {} /\ Initial.stage = "initialized"
      /\ Initial = At(Initial, Initial.stage) /\ Initial \in StateType /\ Initial # None
  BY InitialTyped, NoneFacts DEF Initial, At
<1>7. pc'[Worker] \notin Late \cup Setup \cup TaskLocs \cup {"committed"}
  BY <1>3 DEF Late, Setup, TaskLocs
<1>8. CountInv' /\ TrainInv' /\ SelectInv'
  <2>1. CountInv /\ TrainInv /\ SelectInv
    BY DEF RunInv
  <2> QED
    BY <1>1, <1>7, <2>1, ControlKept
<1>9. StartInv'
  <2>1. StartInv
    BY DEF RunInv
  <2> QED
    BY <1>1, <1>5, <1>6, <1>7, <2>1, StartKept
<1>10. CommitInv'
  <2>1. \A c \in Children : ~Released(c)'
    BY <1>1, <1>4 DEF Untouched, Released
  <2>2. Untouched'
    BY <1>1, <1>4, <1>5, <1>6, <2>1 DEF Untouched
  <2> QED
    BY <1>1, <1>4, <1>7, <2>2 DEF CommitInv
<1>11. BackedInv'
  <2>1. BackedInv /\ Durable
    BY <1>1 DEF RunInv, Durable
  <2>2. Backed(Initial)'
    BY <1>6 DEF Backed
  <2> QED
    BY <1>1, <1>5, <2>1, <2>2, BackedKept
<1>12. ChildInv'
  <2>1. alive' = {}
    BY <1>1, <1>4 DEF Untouched
  <2> QED
    BY <1>7, <2>1 DEF ChildInv, Late
<1>13. BlockInv'
  <2>1. "initialized" \notin Blocked
    BY DEF Blocked
  <2> QED
    BY <1>2, <1>3, <1>6, <2>1 DEF RunInv, BlockInv, Others
<1>14. ExposureBound' /\ PackageIsWhole'
  BY <1>1, <1>2, <1>4, <1>6 DEF Untouched, ExposureBound, PackageIsWhole
<1> QED
  BY <1>2, <1>8, <1>9, <1>10, <1>11, <1>12, <1>13, <1>14 DEF RunInv

\* A step of the worker that journals s, or goes on with it, before a candidate
\* is measured.
LEMMA EarlyKept ==
    ASSUME RunInv, pc[Worker] \in {"resumed", "supervise", "validate", "lineage", "base"},
           NEW s, Derived(s, mem[Worker]), s.stage \notin Blocked,
           Others(Worker), mem'[Worker] = s, state' \in {state, s},
           \A e \in keyed' : e \in keyed \/ e.state = s,
           \A c \in Children : Released(c)' => Released(c),
           UNCHANGED <<artifacts, counter, alive, task>>,
           pc'[Worker] \in {"supervise", "validate", "lineage", "base", "commit", "conflict"},
           pc'[Worker] \in {"supervise", "validate"} => /\ pc[Worker] \in {"resumed", "supervise"}
                                                        /\ s.exposure = mem[Worker].exposure
    PROVE  /\ Known' \subseteq Known \cup {s}
           /\ CountInv' /\ CommitInv' /\ BackedInv' /\ ChildInv' /\ TrainInv' /\ SelectInv'
           /\ BlockInv' /\ ExposureBound' /\ PackageIsWhole'
<1> USE WorkerIs
<1>1. mem[Worker] \in Known /\ state # None
  BY KnownIs DEF RunInv, TypeInv
<1>2. state.stage \notin Blocked
  BY <1>1 DEF RunInv, BlockInv
<1>3. pc'[Worker] \notin Late \cup {"committed"}
  BY DEF Late, TaskLocs
<1>4. pc'[Worker] \in {"resumed", "supervise", "validate"} /\ counter = "ours" => s.exposure = 1
  BY DEF RunInv, ExposureBound
<1> QED
  BY <1>1, <1>2, <1>3, <1>4, DerivedKept

LEMMA ResumeKept ==
    ASSUME RunInv, Resume \/ Supervise
    PROVE  RunInv'
<1> USE WorkerIs
<1>1. /\ TypeInv /\ pc[Worker] \in {"resumed", "supervise"} /\ mem[Worker] \in StateType
      /\ UNCHANGED <<artifacts, counter, alive, task, keyed>> /\ mem[Worker] \in Known
  BY Holds, KnownIs DEF RunInv, Resume, Supervise, os
<1>2. TypeInv'
  BY <1>1, QuietTyped
<1>3. \E s, l : /\ Moves(Worker, s, l) /\ l \in {"supervise", "validate"}
                /\ s \in StateType /\ s.stage \notin Blocked /\ state' \in {state, s}
                /\ s.marks = mem[Worker].marks /\ SameRun(s, mem[Worker])
                /\ SameTask(s, mem[Worker]) /\ s.reason \in {mem[Worker].reason, None}
  <2>1. CASE Resume
    <3>1. mem[Worker].stage \notin Blocked
      BY <2>1 DEF Resume, RunInv, BlockInv
    <3>2. CASE Journals(ResumedOf(mem[Worker]), "supervise")
      <4> DEFINE s == ResumedOf(mem[Worker])
      <4>1. /\ s \in StateType /\ s.stage = mem[Worker].stage /\ s.marks = mem[Worker].marks
            /\ SameRun(s, mem[Worker]) /\ SameTask(s, mem[Worker]) /\ s.reason = None
        BY <1>1, ResumedIs
      <4>2. Moves(Worker, s, "supervise") /\ state' = s
        BY <3>2 DEF Journals
      <4> HIDE DEF s
      <4> QED
        BY <3>1, <4>1, <4>2
    <3>3. CASE Goes("supervise")
      BY <1>1, <3>1, <3>3 DEF Goes, SameRun, SameTask
    <3> QED
      BY <1>1, <2>1, <3>2, <3>3, ChoiceSteps
  <2>2. CASE Supervise
    <3> DEFINE s == At(mem[Worker], "supervisor_ready")
    <3>1. "supervisor_ready" \in Stages /\ "supervisor_ready" \notin Blocked
      BY DEF Stages, Blocked
    <3>2. /\ s \in StateType /\ s.stage = "supervisor_ready" /\ s.marks = mem[Worker].marks
          /\ SameRun(s, mem[Worker]) /\ SameTask(s, mem[Worker])
          /\ s.reason = mem[Worker].reason
      BY <1>1, <3>1, AtIs
    <3>3. Moves(Worker, s, "validate") /\ state' = s
      BY <1>1, <2>2, JournalSteps DEF Journals
    <3> HIDE DEF s
    <3> QED
      BY <3>1, <3>2, <3>3
  <2> QED
    BY <2>1, <2>2
<1>4. PICK s, l : /\ Moves(Worker, s, l) /\ l \in {"supervise", "validate"}
                  /\ s \in StateType /\ s.stage \notin Blocked /\ state' \in {state, s}
                  /\ s.marks = mem[Worker].marks /\ SameRun(s, mem[Worker])
                  /\ SameTask(s, mem[Worker]) /\ s.reason \in {mem[Worker].reason, None}
  BY <1>3
<1>5. Derived(s, mem[Worker]) /\ s.exposure = mem[Worker].exposure
  BY <1>4 DEF Derived, SameRun, SameTask
<1>6. Others(Worker) /\ mem'[Worker] = s /\ pc'[Worker] \in {"supervise", "validate"}
  BY <1>4 DEF Moves
<1>7. \A c \in Children : Released(c)' => Released(c)
  BY <1>1 DEF Released
<1>8. /\ Known' \subseteq Known \cup {s}
      /\ CountInv' /\ CommitInv' /\ BackedInv' /\ ChildInv' /\ TrainInv' /\ SelectInv'
      /\ BlockInv' /\ ExposureBound' /\ PackageIsWhole'
  BY <1>1, <1>4, <1>5, <1>6, <1>7, EarlyKept
<1>9. mem[Worker] = At(Initial, mem[Worker].stage) => s = At(Initial, s.stage)
  BY <1>1, <1>4, InitialIs, StaysInitial
<1>10. pc'[Worker] \notin Setup \cup Late
  BY <1>6 DEF Setup, Late, TaskLocs
<1>11. StartInv'
  BY <1>1, <1>4, <1>6, <1>8, <1>9, <1>10, DerivedStarts DEF RunInv
<1> QED
  BY <1>2, <1>8, <1>11 DEF RunInv

\* A state of the setup: the first state but for its stage and its marks.
LEMMA SetupIs ==
    ASSUME NEW m \in StateType, m = [At(Initial, m.stage) EXCEPT !.marks = m.marks]
    PROVE  /\ m.reason = None /\ m.child = None /\ m.accepted = {} /\ m.batches = 0
           /\ m.completed = 0 /\ m.exposure = 0
<1> DEFINE r == At(Initial, m.stage)
<1>1. m.stage \in Stages
  BY DEF StateType
<1>2. /\ r \in StateType /\ r.stage = m.stage /\ r.reason = Initial.reason
      /\ SameRun(r, Initial) /\ SameTask(r, Initial)
  BY <1>1, InitialTyped, AtIs
<1>3. m = [r EXCEPT !.marks = m.marks]
  OBVIOUS
<1> HIDE DEF r
<1>4. /\ m.reason = r.reason /\ m.child = r.child /\ m.accepted = r.accepted
      /\ m.batches = r.batches /\ m.completed = r.completed /\ m.exposure = r.exposure
  BY <1>2, <1>3 DEF StateType
<1>5. /\ Initial.reason = None /\ Initial.child = None /\ Initial.accepted = {}
      /\ Initial.batches = 0 /\ Initial.completed = 0 /\ Initial.exposure = 0
  BY DEF Initial
<1> QED
  BY <1>2, <1>4, <1>5 DEF SameRun, SameTask

LEMMA SetupMarks ==
    ASSUME NEW m \in StateType, m = [At(Initial, m.stage) EXCEPT !.marks = m.marks],
           NEW mark \in Marks, NEW stage \in Stages
    PROVE  Mark(m, mark, stage)
              = [At(Initial, Mark(m, mark, stage).stage) EXCEPT !.marks = Mark(m, mark, stage).marks]
<1> DEFINE s == Mark(m, mark, stage)
           r == At(Initial, stage)
           q == At(Initial, m.stage)
<1>1. m.stage \in Stages
  BY DEF StateType
<1>2. /\ r \in StateType /\ r.stage = stage /\ r.reason = Initial.reason
      /\ SameRun(r, Initial) /\ SameTask(r, Initial)
  BY InitialTyped, AtIs
<1>3. /\ q \in StateType /\ q.reason = Initial.reason
      /\ SameRun(q, Initial) /\ SameTask(q, Initial)
  BY <1>1, InitialTyped, AtIs
<1>4. /\ s \in StateType /\ s.stage = stage /\ s.marks = m.marks \cup {mark}
      /\ s.reason = m.reason /\ SameRun(s, m) /\ SameTask(s, m)
  BY MarkIs
<1>5. m = [q EXCEPT !.marks = m.marks] /\ m.marks \subseteq Marks
  BY DEF StateType
<1> HIDE DEF s, r, q
<1>6. m.reason = q.reason /\ SameRun(m, q) /\ SameTask(m, q)
  BY <1>3, <1>5 DEF StateType, SameRun, SameTask
<1>7. s.reason = r.reason /\ SameRun(s, r) /\ SameTask(s, r)
  BY <1>2, <1>3, <1>4, <1>6 DEF SameRun, SameTask
<1> DEFINE u == [r EXCEPT !.marks = s.marks]
<1>8. /\ u \in StateType /\ u.stage = r.stage /\ u.marks = s.marks /\ u.reason = r.reason
      /\ SameRun(u, r) /\ SameTask(u, r)
  BY <1>2, <1>4, <1>5 DEF StateType, SameRun, SameTask
<1> HIDE DEF u
<1>9. SameRun(s, u) /\ SameTask(s, u)
  BY <1>7, <1>8 DEF SameRun, SameTask
<1>10. s = u
  BY <1>2, <1>4, <1>7, <1>8, <1>9, SameFields
<1> QED
  BY <1>4, <1>10 DEF u, r, s

LEMMA ValidateKept ==
    ASSUME RunInv, Validate
    PROVE  RunInv'
<1> USE WorkerIs
<1> DEFINE m == mem[Worker]
           s == At(m, "validating_owner_inputs")
           key == <<"validating">>
<1>1. /\ TypeInv /\ StartInv /\ pc[Worker] = "validate" /\ m \in StateType /\ m \in Known
      /\ UNCHANGED <<artifacts, counter, alive, task>>
  BY Holds, KnownIs DEF RunInv, Validate, os
<1>2. TypeInv' /\ s \in StateType /\ Appends(Worker, key, s, "lineage")
  BY <1>1, ValidateTyped
<1>3. /\ s.stage = "validating_owner_inputs" /\ s.marks = m.marks /\ s.reason = m.reason
      /\ SameRun(s, m) /\ SameTask(s, m) /\ s.stage \notin Blocked
  <2>1. "validating_owner_inputs" \in Stages /\ "validating_owner_inputs" \notin Blocked
    BY DEF Stages, Blocked
  <2> QED
    BY <1>1, <2>1, AtIs
<1>4. \A c \in Children : key # <<"released", c>>
  OBVIOUS
<1> HIDE DEF s, key, m
<1>5. /\ Others(Worker) /\ mem'[Worker] = s /\ pc'[Worker] \in {"lineage", "conflict"}
      /\ state' \in {state, s}
      /\ keyed \subseteq keyed' /\ keyed' \subseteq keyed \cup {[key |-> key, state |-> s]}
  BY <1>2 DEF Appends
<1>6. /\ \A e \in keyed' : e \in keyed \/ (e.key = key /\ e.state = s)
      /\ \A c \in Children : Released(c)' => Released(c)
  BY <1>4, <1>5, ReleasedGrows
<1>7. \E e \in keyed' : e.key = key
  <2> DEFINE new == [key |-> key, state |-> s]
  <2>1. new.key = key
    OBVIOUS
  <2>2. (new \in keyed') \/ \E e \in keyed : e.key = key
    BY <1>2 DEF Appends
  <2> HIDE DEF new
  <2> QED
    BY <1>5, <2>1, <2>2
<1>8. Derived(s, m)
  BY <1>2, <1>3 DEF Derived, SameRun, SameTask
<1>9. /\ Known' \subseteq Known \cup {s}
      /\ CountInv' /\ CommitInv' /\ BackedInv' /\ ChildInv' /\ TrainInv' /\ SelectInv'
      /\ BlockInv' /\ ExposureBound' /\ PackageIsWhole'
  <2>1. \A e \in keyed' : e \in keyed \/ e.state = s
    BY <1>6
  <2> QED
    BY <1>1, <1>3, <1>5, <1>6, <1>8, <2>1, EarlyKept DEF m
<1>10. "lineage" \notin s.marks => s = At(Initial, s.stage)
  <2>1. ASSUME "lineage" \notin s.marks
        PROVE  m = At(Initial, m.stage)
    BY <1>1, <1>3, <2>1 DEF StartInv
  <2>2. ASSUME m = At(Initial, m.stage)
        PROVE  s.reason = None
    BY <1>1, <1>3, <2>2, InitialIs
  <2> QED
    BY <1>1, <1>2, <1>3, <2>1, <2>2, StaysInitial
<1>11. (\A e \in keyed : e.key # key) => "lineage" \notin s.marks
  BY <1>1, <1>3 DEF StartInv, key
<1>12. pc'[Worker] = "lineage" => "lineage" \notin s.marks
  <2>1. \A e \in keyed : e.key = key => "lineage" \notin e.state.marks
    BY <1>1 DEF StartInv, key
  <2>2. ASSUME pc'[Worker] = "lineage"
        PROVE  (\A e \in keyed : e.key # key) \/ \E e \in keyed : e.key = key /\ e.state = s
    BY <1>2, <2>2 DEF Appends
  <2> QED
    BY <1>11, <2>1, <2>2
<1>13. \A e \in keyed' \ keyed : e.key = <<"validating">> => "lineage" \notin e.state.marks
  <2>1. CASE \A e \in keyed : e.key # key
    BY <1>6, <1>11, <2>1
  <2>2. CASE ~\A e \in keyed : e.key # key
    <3>1. keyed' = keyed
      BY <1>2, <2>2 DEF Appends
    <3> QED
      BY <3>1
  <2> QED
    BY <2>1, <2>2
<1>14. ASSUME pc'[Worker] \in Setup \cup Late
       PROVE  /\ pc'[Worker] = "lineage" /\ s.marks \subseteq {"lineage", "base"}
              /\ s = [At(Initial, s.stage) EXCEPT !.marks = s.marks]
  <2>1. pc'[Worker] = "lineage"
    BY <1>5, <1>14 DEF Setup, Late, TaskLocs
  <2>2. s = At(Initial, s.stage)
    BY <1>10, <1>12, <2>1
  <2>3. s.marks = {}
    BY <1>2, <2>2, InitialIs
  <2>4. s = [s EXCEPT !.marks = s.marks]
    BY <1>2 DEF StateType
  <2> QED
    BY <2>1, <2>2, <2>3, <2>4
<1>15. StartInv'
  <2>1. \/ "lineage" \notin s.marks /\ s = At(Initial, s.stage)
        \/ "lineage" \in s.marks /\ \E e \in keyed' : e.key = <<"validating">>
    BY <1>7, <1>10 DEF key
  <2>2. \E e \in keyed' : e.key = <<"validating">>
    BY <1>7 DEF key
  <2> QED
    BY <1>1, <1>5, <1>9, <1>13, <1>14, <2>1, <2>2, StartKept
<1> QED
  BY <1>2, <1>9, <1>15 DEF RunInv

\* The setup: a mark may be added to a state that has no child and no result.
LEMMA SetupStep ==
    ASSUME RunInv, TypeInv', pc[Worker] \in {"lineage", "base"}, NEW s \in StateType,
           NEW l \in {"base", "commit"}, Moves(Worker, s, l), state' \in {state, s},
           UNCHANGED <<artifacts, counter, alive, task, keyed>>,
           \/ s = mem[Worker]
           \/ \E mark \in {"lineage", "base"}, stage \in Stages \ Blocked :
                 s = Mark(mem[Worker], mark, stage),
           "lineage" \in s.marks
    PROVE  RunInv'
<1> USE WorkerIs
<1> DEFINE m == mem[Worker]
<1>1. TypeInv /\ StartInv /\ m \in StateType /\ {"lineage", "base"} \subseteq Marks
  BY Holds DEF RunInv, Marks
<1>2. /\ m.marks \subseteq {"lineage", "base"}
      /\ m = [At(Initial, m.stage) EXCEPT !.marks = m.marks]
      /\ \E e \in keyed : e.key = <<"validating">>
      /\ m.stage \notin Blocked
  BY <1>1 DEF RunInv, BlockInv, StartInv, Setup
<1>3. Others(Worker) /\ mem'[Worker] = s /\ pc'[Worker] = l
  BY DEF Moves
<1> HIDE DEF m
<1>4. /\ SameRun(s, m) /\ SameTask(s, m) /\ s.stage \notin Blocked
      /\ s.marks \subseteq {"lineage", "base"}
      /\ s = [At(Initial, s.stage) EXCEPT !.marks = s.marks]
  <2>1. CASE s = m
    BY <1>2, <2>1 DEF SameRun, SameTask
  <2>2. ASSUME NEW mark \in {"lineage", "base"}, NEW stage \in Stages \ Blocked,
               s = Mark(m, mark, stage)
        PROVE  <1>4!:
    <3>1. /\ s.stage = stage /\ s.marks = m.marks \cup {mark}
          /\ SameRun(s, m) /\ SameTask(s, m)
      BY <1>1, <2>2, MarkIs
    <3>2. s = [At(Initial, s.stage) EXCEPT !.marks = s.marks]
      BY <1>1, <1>2, <2>2, SetupMarks
    <3> QED
      BY <1>2, <3>1, <3>2
  <2> QED
    BY <2>1, <2>2 DEF m
<1>5. Derived(s, m)
  <2>1. s.marks \cap {"reproduction", "frozen"} = {} /\ m.marks \cap {"reproduction", "frozen"} = {}
    BY <1>2, <1>4
  <2> QED
    BY <1>4, <2>1 DEF Derived, SameRun, SameTask
<1>6. \A c \in Children : Released(c)' => Released(c)
  BY DEF Released
<1>7. /\ Known' \subseteq Known \cup {s}
      /\ CountInv' /\ CommitInv' /\ BackedInv' /\ ChildInv' /\ TrainInv' /\ SelectInv'
      /\ BlockInv' /\ ExposureBound' /\ PackageIsWhole'
  BY <1>3, <1>4, <1>5, <1>6, EarlyKept DEF m
<1>8. StartInv'
  BY <1>1, <1>2, <1>3, <1>4, <1>7, StartKept
<1> QED
  BY <1>7, <1>8 DEF RunInv

LEMMA SetupKept ==
    ASSUME RunInv, RecordLineage \/ RegisterBase
    PROVE  RunInv'
<1> USE WorkerIs
<1> DEFINE m == mem[Worker]
<1>1. /\ TypeInv /\ pc[Worker] \in {"lineage", "base"} /\ m \in StateType
      /\ UNCHANGED <<artifacts, counter, alive, task, keyed>>
      /\ pc[Worker] = "base" => "lineage" \in m.marks
  BY Holds DEF RunInv, StartInv, Setup, RecordLineage, RegisterBase, os
<1>2. TypeInv'
  BY <1>1, QuietTyped
<1>3. /\ "owner_inputs_validated" \in Stages \ Blocked /\ "base_registered" \in Stages \ Blocked
      /\ {"lineage", "base"} \subseteq Marks
  BY DEF Stages, Blocked, Marks
<1>4. ASSUME NEW mark \in {"lineage", "base"}, NEW stage \in Stages \ Blocked,
             NEW l \in {"base", "commit"}, Journals(Mark(m, mark, stage), l),
             mark = "lineage" \/ "lineage" \in m.marks
      PROVE  RunInv'
  <2> DEFINE s == Mark(m, mark, stage)
  <2>1. s \in StateType /\ s.marks = m.marks \cup {mark}
    <3>1. mark \in Marks /\ stage \in Stages /\ m \in StateType
      BY <1>1, <1>3
    <3> HIDE DEF m
    <3> QED
      BY <3>1, MarkIs
  <2>2. Moves(Worker, s, l) /\ state' \in {state, s}
    BY <1>4 DEF Journals
  <2>3. s = Mark(m, mark, stage) /\ "lineage" \in s.marks
    BY <1>4, <2>1
  <2> HIDE DEF s
  <2> QED
    BY <1>1, <1>2, <2>1, <2>2, <2>3, SetupStep
<1>5. CASE RecordLineage
  BY <1>1, <1>3, <1>4, <1>5, JournalSteps
<1>6. CASE RegisterBase
  <2>1. "lineage" \in m.marks
    BY <1>1, <1>6 DEF RegisterBase
  <2>2. CASE Goes("commit")
    BY <1>1, <1>2, <2>1, <2>2, SetupStep DEF Goes
  <2>3. CASE Journals(Mark(m, "base", "base_registered"), "commit")
    BY <1>3, <1>4, <2>1, <2>3
  <2> QED
    BY <1>1, <1>6, <2>2, <2>3, ChoiceSteps
<1> QED
  BY <1>5, <1>6

\* The one worker that writes the commitment.
LEMMA WriteCommitmentKept ==
    ASSUME RunInv, WriteCommitment
    PROVE  RunInv'
<1> USE WorkerIs
<1>1. /\ TypeInv /\ CountInv /\ StartInv /\ pc[Worker] = "commit" /\ mem[Worker] \in StateType
      /\ UNCHANGED <<state, keyed, results, freeze, package, counter, alive, task>>
      /\ state \in StateType
  BY Holds DEF RunInv, WriteCommitment, os
<1>2. TypeInv'
  BY <1>1, ArtifactTyped
<1>3. "commitment" \notin mem[Worker].marks
  BY <1>1 DEF StartInv, Setup
<1>4. \/ Goes("ended") /\ commitment /\ commitment'
      \/ Goes("committed") /\ ~commitment /\ commitment'
  BY <1>1, <1>3, GoesSteps
<1>5. PICK l \in {"ended", "committed"} :
         Moves(Worker, mem[Worker], l) /\ (l = "committed" => ~commitment)
  BY <1>4 DEF Goes
<1>6. Others(Worker) /\ mem'[Worker] = mem[Worker] /\ pc'[Worker] = l /\ mem' = mem
  BY <1>4, <1>5 DEF Moves, Goes
<1>7. Known' \subseteq Known
  BY <1>1, <1>6 DEF Known
<1>8. l \notin Late /\ l \notin {"launched", "waiting", "resumed", "supervise", "validate",
                                 "child", "index", "counter", "lineage", "base"}
  BY DEF Late, TaskLocs
<1>9. CountInv' /\ TrainInv' /\ SelectInv'
  <2>1. TrainInv /\ SelectInv /\ results \subseteq results'
    BY <1>1 DEF RunInv
  <2> QED
    BY <1>1, <1>6, <1>8, <2>1, ControlKept
<1>10. StartInv'
  <2>1. Known' \subseteq Known \cup {None} /\ \E e \in keyed' : e.key = <<"validating">>
    BY <1>1, <1>7 DEF StartInv, Setup
  <2>2. /\ "lineage" \in mem'[Worker].marks /\ mem'[Worker].marks \subseteq {"lineage", "base"}
        /\ mem'[Worker] = [At(Initial, mem'[Worker].stage) EXCEPT !.marks = mem'[Worker].marks]
    BY <1>1, <1>6 DEF StartInv, Setup
  <2> QED
    BY <1>1, <2>1, <2>2, StartKept
<1>11. CommitInv'
  <2>1. Untouched => Untouched'
    BY <1>1, <1>7 DEF Untouched, Released
  <2>2. state' # None /\ commitment'
    BY <1>1, <1>4, NoneFacts
  <2> QED
    BY <1>5, <1>6, <2>1, <2>2 DEF RunInv, CommitInv
<1>12. BackedInv'
  <2>1. BackedInv /\ Durable /\ Known' \subseteq Known \cup {None}
    BY <1>1, <1>7 DEF RunInv, Durable
  <2> QED
    BY <1>1, <2>1, BackedKept
<1>13. ChildInv'
  BY <1>1, <1>6, <1>8 DEF RunInv, ChildInv, Released
<1>14. BlockInv'
  <2>1. state.stage \notin Blocked
    BY <1>1, NoneFacts DEF RunInv, BlockInv
  <2> QED
    BY <1>1, <1>6, <1>8, <2>1 DEF RunInv, BlockInv, Others
<1>15. ExposureBound' /\ PackageIsWhole'
  BY <1>1, <1>6, <1>8 DEF RunInv, ExposureBound, PackageIsWhole
<1> QED
  BY <1>2, <1>9, <1>10, <1>11, <1>12, <1>13, <1>14, <1>15 DEF RunInv

-----------------------------------------------------------------------------
(***************************************************************************)
(* The worker that holds the commitment.  Known grows by the state s that  *)
(* it journals, or takes into memory.                                      *)
(***************************************************************************)

LEMMA LateKept ==
    ASSUME RunInv, pc[Worker] \in Late, NEW s \in StateType, Others(Worker),
           mem'[Worker] \in {mem[Worker], s}, state' \in {state, s},
           UNCHANGED <<keyed, commitment>>, pc'[Worker] \in Late \cup {"ended"},
           "lineage" \in s.marks \/ s = At(Initial, s.stage),
           pc'[Worker] \in Late =>
              /\ "lineage" \in mem'[Worker].marks
              /\ \A k \in Tasks : mem[Worker].attempts[k] <= mem'[Worker].attempts[k]
              /\ s.child # None => Launched(s.child)',
           pc'[Worker] \in {"launched", "waiting"} => alive' \subseteq {Child'},
           pc'[Worker] \in Late \ {"launched", "waiting"} => alive' = {},
           \A c \in alive' : c \in alive \/ ~Released(c),
           \A c, d \in alive' : c = d,
           state' = state \/ s.stage \notin Blocked \/ pc'[Worker] = "ended"
    PROVE  Known' \subseteq Known \cup {s} /\ StartInv' /\ CommitInv' /\ ChildInv' /\ BlockInv'
<1> USE WorkerIs
<1>1. /\ TypeInv /\ StartInv /\ state # None /\ state' # None /\ mem[Worker] \in StateType
      /\ pc[Worker] \notin {"down", "ended"}
  <2>1. pc[Worker] \notin {"down", "ended"}
    BY DEF Late, TaskLocs
  <2> QED
    BY <2>1, NoneFacts, Holds DEF RunInv, TypeInv
<1>2. Known' \subseteq Known \cup {s}
  BY KnownGrows
<1>3. StartInv'
  <2>1. \E e \in keyed' : e.key = <<"validating">>
    BY <1>1 DEF StartInv
  <2>2. pc'[Worker] \in Setup \cup Late => pc'[Worker] \in Late /\ pc'[Worker] \notin Setup
    BY DEF Setup, Late, TaskLocs
  <2>3. \/ "lineage" \notin s.marks /\ s = At(Initial, s.stage)
        \/ "lineage" \in s.marks /\ \E e \in keyed' : e.key = <<"validating">>
    BY <2>1
  <2>4. pc'[Worker] \in Setup \cup Late => "lineage" \in mem'[Worker].marks
    BY <2>2
  <2> QED
    BY <1>1, <1>2, <2>1, <2>2, <2>3, <2>4, StartKept
<1>4. CommitInv'
  <2>1. commitment
    BY DEF RunInv, CommitInv
  <2>2. pc'[Worker] # "committed"
    BY DEF Late, TaskLocs
  <2> QED
    BY <1>1, <2>1, <2>2 DEF CommitInv
<1>5. ChildInv'
  <2>1. ASSUME pc'[Worker] \in Late
        PROVE  /\ \A r \in Known' : r.child # None => Launched(r.child)'
               /\ \A c \in Children : Released(c)' => Launched(c)'
    <3>1. mem'[Worker] \in StateType
      BY <1>1
    <3>2. ASSUME NEW c \in Children, Launched(c)
          PROVE  Launched(c)'
      <4>1. c.task \in Tasks /\ c.attempt \in Nat
        BY DEF Children
      <4>2. /\ mem[Worker].attempts[c.task] \in Nat /\ mem'[Worker].attempts[c.task] \in Nat
            /\ mem[Worker].attempts[c.task] <= mem'[Worker].attempts[c.task]
        BY <1>1, <2>1, <3>1, <4>1 DEF StateType
      <4> QED
        BY <3>2, <4>1, <4>2 DEF Launched
    <3>3. \A r \in Known : r.child # None => r.child \in Children /\ Launched(r.child)
      BY <1>1, KnownIs DEF RunInv, ChildInv, StateType
    <3>4. \A c \in Children : Released(c)' => Released(c)
      BY DEF Released
    <3>5. \A c \in Children : Released(c) => Launched(c)
      BY DEF RunInv, ChildInv
    <3> QED
      BY <1>2, <2>1, <3>2, <3>3, <3>4, <3>5
  <2>2. \A c \in alive' : ~Released(c)'
    BY DEF RunInv, ChildInv, Released
  <2> QED
    BY <2>1, <2>2 DEF ChildInv
<1>6. BlockInv'
  <2>1. state.stage \notin Blocked
    BY <1>1 DEF RunInv, BlockInv
  <2>2. pc'[Worker] \notin {"child", "index", "counter", "resumed", "supervise", "validate",
                            "lineage", "base"}
    BY DEF Late, TaskLocs
  <2> QED
    BY <2>1, <2>2 DEF RunInv, BlockInv, Others
<1> QED
  BY <1>2, <1>3, <1>4, <1>5, <1>6

LEMMA ArtifactsKept ==
    ASSUME RunInv, state'.exposure = 1 => counter' = "ours", results \subseteq results',
           UNCHANGED <<freeze, package, counter>>,
           pc'[Worker] \notin {"resumed", "supervise", "validate"}
    PROVE  ExposureBound' /\ PackageIsWhole'
BY DEF RunInv, ExposureBound, PackageIsWhole

LEMMA CountKept ==
    ASSUME CountInv, pc[Worker] \in Late, pc'[Worker] # "freeze batch",
           mem'[Worker].batches = mem[Worker].batches,
           mem'[Worker].completed = mem[Worker].completed
    PROVE  CountInv'
BY DEF CountInv

\* The worker at rest between two children.
LEMMA RestIs ==
    ASSUME RunInv, pc[Worker] \in Late
    PROVE  /\ TypeInv /\ mem[Worker] \in StateType /\ mem[Worker] \in Known /\ Backed(mem[Worker])
           /\ state \in StateType /\ state \in Known /\ Backed(state)
           /\ state # None /\ mem[Worker] # None
           /\ "lineage" \in mem[Worker].marks
           /\ pc[Worker] \notin {"launched", "waiting"} => alive = {}
           /\ mem[Worker].child # None => Launched(mem[Worker].child)
<1>1. pc[Worker] # "down" /\ Worker \in Procs /\ TypeInv
  BY WorkerIs DEF Late, TaskLocs, RunInv
<1>2. mem[Worker] \in StateType /\ state \in StateType
  BY <1>1, Holds
<1>3. mem[Worker] \in Known /\ state \in Known
  BY <1>1, <1>2, KnownIs, NoneFacts
<1> QED
  BY <1>1, <1>2, <1>3, NoneFacts DEF RunInv, BackedInv, StartInv, ChildInv

\* The worker journals s, and nothing else changes.
LEMMA LateJournals ==
    ASSUME RunInv, TypeInv', pc[Worker] \in Late \ {"launched", "waiting"}, NEW s, NEW l,
           Journals(s, l), l \in Late \cup {"ended"},
           UNCHANGED <<keyed, artifacts, counter, alive, task>>,
           mem[Worker].marks \subseteq s.marks, SameTask(s, mem[Worker]), Backed(s),
           s.stage \in Blocked => l = "ended"
    PROVE  /\ StartInv' /\ CommitInv' /\ BackedInv' /\ ChildInv' /\ BlockInv'
           /\ ExposureBound' /\ PackageIsWhole'
<1> USE WorkerIs
<1>1. /\ TypeInv /\ mem[Worker] \in StateType /\ alive = {} /\ "lineage" \in s.marks
      /\ mem[Worker].child # None => Launched(mem[Worker].child)
  BY RestIs
<1>2. /\ Others(Worker) /\ mem'[Worker] = s /\ state' = s /\ pc'[Worker] = l
      /\ s \in StateType /\ s # None /\ l \notin {"launched", "waiting"}
  BY NoneFacts DEF Journals, Moves
<1>3. UNCHANGED <<commitment, results, freeze, package>>
  BY DEF artifacts
<1>4. \A k \in Tasks : mem[Worker].attempts[k] <= s.attempts[k]
  BY <1>1 DEF SameTask, StateType
<1>5. s.child # None => Launched(s.child)'
  BY <1>1, <1>2 DEF Launched, SameTask
<1>6. Known' \subseteq Known \cup {s} /\ StartInv' /\ CommitInv' /\ ChildInv' /\ BlockInv'
  BY <1>1, <1>2, <1>3, <1>4, <1>5, LateKept
<1>7. Backed(s)'
  BY <1>3 DEF Backed
<1>8. BackedInv'
  <2>1. BackedInv /\ Durable
    BY <1>3 DEF RunInv, Durable
  <2> QED
    BY <1>1, <1>6, <1>7, <2>1, BackedKept
<1>9. ExposureBound' /\ PackageIsWhole'
  <2>1. l \notin {"resumed", "supervise", "validate"}
    BY DEF Late, TaskLocs
  <2>2. state'.exposure = 1 => counter' = "ours"
    BY <1>2, <1>7 DEF Backed
  <2> QED
    BY <1>2, <1>3, <2>1, <2>2, ArtifactsKept
<1> QED
  BY <1>6, <1>8, <1>9

\* The worker goes on with the state that it has.
LEMMA LateGoes ==
    ASSUME RunInv, TypeInv', Durable, pc[Worker] \in Late \ {"launched", "waiting"}, NEW l,
           Goes(l), l \in Late \cup {"ended"}, UNCHANGED <<keyed, commitment, alive>>
    PROVE  /\ StartInv' /\ CommitInv' /\ BackedInv' /\ ChildInv' /\ BlockInv'
           /\ mem'[Worker] = mem[Worker] /\ state' = state /\ state # None /\ pc'[Worker] = l
           /\ state'.exposure = 1 => counter' = "ours"
<1> USE WorkerIs
<1>1. /\ TypeInv /\ mem[Worker] \in StateType /\ alive = {} /\ "lineage" \in mem[Worker].marks
      /\ mem[Worker].child # None => Launched(mem[Worker].child)
      /\ state \in Known /\ state # None
  BY RestIs
<1>2. /\ Others(Worker) /\ mem'[Worker] = mem[Worker] /\ state' = state /\ pc'[Worker] = l
      /\ l \notin {"launched", "waiting"}
  BY DEF Goes, Moves
<1>3. \A k \in Tasks : mem[Worker].attempts[k] <= mem[Worker].attempts[k]
  BY <1>1 DEF StateType
<1>4. mem[Worker].child # None => Launched(mem[Worker].child)'
  BY <1>1, <1>2 DEF Launched
<1>5. Known' \subseteq Known
  BY <1>2 DEF Known, Others
<1>6. StartInv' /\ CommitInv' /\ ChildInv' /\ BlockInv'
  BY <1>1, <1>2, <1>3, <1>4, LateKept
<1>7. BackedInv'
  <2>1. BackedInv /\ Known' \subseteq Known \cup {None}
    BY <1>5 DEF RunInv
  <2> QED
    BY <1>1, <2>1, BackedKept
<1>8. state'.exposure = 1 => counter' = "ours"
  <2>1. Backed(state)
    BY RestIs
  <2> QED
    BY <1>2, <2>1 DEF Backed, Durable
<1> QED
  BY <1>1, <1>2, <1>6, <1>7, <1>8

\* ... and s is the state it had, but for its stage and other marks.
LEMMA LateSame ==
    ASSUME RunInv, TypeInv', pc[Worker] \in Late \ {"launched", "waiting"}, NEW s, NEW l,
           Journals(s, l), l \in Late \cup {"ended"}, l # "freeze batch",
           UNCHANGED <<keyed, artifacts, counter, alive, task>>,
           mem[Worker].marks \subseteq s.marks, SameRun(s, mem[Worker]), SameTask(s, mem[Worker]),
           \A mark \in {"reproduction", "frozen"} : mark \in s.marks => mark \in mem[Worker].marks,
           s.stage \in Blocked => l = "ended"
    PROVE  /\ CountInv' /\ StartInv' /\ CommitInv' /\ BackedInv' /\ ChildInv' /\ BlockInv'
           /\ ExposureBound' /\ PackageIsWhole'
           /\ mem'[Worker] = s /\ pc'[Worker] = l /\ UNCHANGED <<freeze, results>>
           /\ l = "ended" => TrainInv' /\ SelectInv'
<1>1. Backed(s)
  <2>1. Backed(mem[Worker])
    BY RestIs
  <2> QED
    BY <2>1 DEF Backed, SameRun
<1>2. /\ StartInv' /\ CommitInv' /\ BackedInv' /\ ChildInv' /\ BlockInv'
      /\ ExposureBound' /\ PackageIsWhole'
  BY <1>1, LateJournals
<1>3. mem'[Worker] = s /\ pc'[Worker] = l /\ UNCHANGED <<freeze, results>>
  BY DEF Journals, Moves, artifacts
<1>4. CountInv /\ TrainInv /\ SelectInv /\ TypeInv
  BY DEF RunInv
<1>5. CountInv'
  BY <1>3, <1>4, CountKept DEF SameRun
<1>6. l = "ended" => TrainInv' /\ SelectInv'
  <2>1. "ended" \notin Late
    BY DEF Late, TaskLocs
  <2> QED
    BY <1>3, <1>4, <2>1, ControlKept
<1> QED
  BY <1>2, <1>3, <1>5, <1>6

\* The steps after which the worker ends.
LEMMA EndsKept ==
    ASSUME RunInv, ScientificFailure \/ Complete
    PROVE  RunInv'
<1> DEFINE m == mem[Worker]
<1>1. /\ pc[Worker] \in Late \ {"launched", "waiting"}
      /\ UNCHANGED <<keyed, artifacts, counter, alive, task>>
  BY DEF ScientificFailure, Complete, Late, TaskLocs, os
<1>2. TypeInv /\ m \in StateType /\ TypeInv'
  BY <1>1, RestIs, QuietTyped
<1>3. /\ "blocked_scientific" \in Stages /\ "measured_complete" \in Stages \ Blocked
      /\ "package" \in Marks
  BY DEF Stages, Blocked, Marks
<1> HIDE DEF m
<1>4. CASE ScientificFailure
  <2> DEFINE s == At(m, "blocked_scientific")
  <2>1. s \in StateType /\ s.marks = m.marks /\ SameRun(s, m) /\ SameTask(s, m)
    BY <1>2, <1>3, AtIs
  <2>2. Journals(s, "ended")
    BY <1>2, <1>4, JournalSteps DEF m
  <2> HIDE DEF s
  <2> QED
    BY <1>1, <1>2, <2>1, <2>2, LateSame DEF RunInv, m
<1>5. CASE Complete
  <2> DEFINE s == Mark(m, "package", "measured_complete")
  <2>1. s \in StateType /\ s.marks = m.marks \cup {"package"} /\ SameRun(s, m) /\ SameTask(s, m)
    BY <1>2, <1>3, MarkIs
  <2>2. Journals(s, "ended")
    BY <1>2, <1>5, JournalSteps DEF m
  <2> HIDE DEF s
  <2> QED
    BY <1>1, <1>2, <2>1, <2>2, LateSame DEF RunInv, m
<1> QED
  BY <1>4, <1>5

LEMMA RetryKept ==
    ASSUME RunInv, InfrastructureFailure
    PROVE  RunInv'
<1> DEFINE m == mem[Worker]
<1>1. /\ pc[Worker] \in Late \ {"launched", "waiting"} /\ pc[Worker] = "infra"
      /\ UNCHANGED <<keyed, artifacts, counter, alive, task>>
  BY DEF InfrastructureFailure, Late, TaskLocs
<1>2. TypeInv /\ m \in StateType /\ TypeInv' /\ TrainInv /\ SelectInv
  BY <1>1, RestIs, ArtifactTyped DEF RunInv
<1>3. {"blocked_infrastructure", "retry_pending"} \subseteq Stages /\ "retry_pending" \notin Blocked
  BY DEF Stages, Blocked
<1>4. "attempt" \in Late /\ "attempt" \notin {"ended", "freeze batch"}
  BY DEF Late, TaskLocs
<1> HIDE DEF m
<1>5. ASSUME NEW stage \in {"blocked_infrastructure", "retry_pending"},
             NEW l \in {"ended", "attempt"}, Journals(At(m, stage), l),
             stage = "blocked_infrastructure" => l = "ended"
      PROVE  RunInv'
  <2> DEFINE s == At(m, stage)
  <2>1. /\ s \in StateType /\ s.marks = m.marks /\ SameRun(s, m) /\ SameTask(s, m)
        /\ s.stage = stage
    BY <1>2, <1>3, AtIs
  <2> HIDE DEF s
  <2>2. /\ CountInv' /\ StartInv' /\ CommitInv' /\ BackedInv' /\ ChildInv' /\ BlockInv'
        /\ ExposureBound' /\ PackageIsWhole'
        /\ mem'[Worker] = s /\ pc'[Worker] = l /\ UNCHANGED <<freeze, results>>
        /\ l = "ended" => TrainInv' /\ SelectInv'
    BY <1>1, <1>2, <1>3, <1>4, <1>5, <2>1, LateSame DEF m, s
  <2>3. ASSUME l = "attempt"
        PROVE  TrainInv' /\ SelectInv'
    <3>1. pc[Worker] \in TaskLocs /\ "attempt" \in TaskLocs
      BY <1>1 DEF TaskLocs
    <3>2. mem'[Worker].accepted = mem[Worker].accepted /\ mem'[Worker].marks = mem[Worker].marks
          /\ mem'[Worker].shortlist = mem[Worker].shortlist /\ pc'[Worker] = "attempt"
      BY <2>1, <2>2, <2>3 DEF SameRun, m
    <3>3. TrainInv'
      BY <1>1, <1>2, <2>2, <3>1, <3>2 DEF TrainInv
    <3>4. SelectInv'
      BY <1>1, <1>2, <2>2, <3>1, <3>2 DEF SelectInv
    <3> QED
      BY <3>3, <3>4
  <2> QED
    BY <1>2, <2>2, <2>3 DEF RunInv
<1>6. \/ Journals(At(m, "blocked_infrastructure"), "ended")
      \/ Journals(At(m, "retry_pending"), "ended")
      \/ Journals(At(m, "retry_pending"), "attempt")
  BY <1>2, ChoiceSteps DEF m
<1> QED
  BY <1>5, <1>6

\* The loops over candidates and iterations.
LEMMA IterationKept ==
    ASSUME RunInv, CompleteIteration \/ FreezeBatch
    PROVE  RunInv'
<1> DEFINE m == mem[Worker]
<1>1. /\ pc[Worker] \in {"next", "freeze batch"} /\ pc[Worker] \in Late \ {"launched", "waiting"}
      /\ UNCHANGED <<keyed, artifacts, counter, alive, task>>
  BY DEF CompleteIteration, FreezeBatch, Late, TaskLocs, os
<1>2. /\ TypeInv /\ m \in StateType /\ TypeInv' /\ TrainInv /\ CountInv /\ Backed(m)
      /\ m.batches \in Nat /\ m.completed \in Nat
  <2>1. m \in StateType /\ TypeInv /\ Backed(m) /\ TrainInv /\ CountInv
    BY <1>1, RestIs DEF RunInv
  <2> QED
    BY <2>1, QuietTyped DEF StateType
<1>3. \E s : /\ Journals(s, "next") /\ s.marks = m.marks /\ s.accepted = m.accepted
             /\ s.shortlist = m.shortlist /\ s.exposure = m.exposure /\ SameTask(s, m)
             /\ s.stage \notin Blocked
             /\ s.completed <= s.batches /\ s.batches <= s.completed + 1
             /\ s.batches <= Len(Batches)
  <2>1. CASE CompleteIteration
    <3> DEFINE s == CompletedOf(m)
    <3>1. /\ s.stage = "adaptive_iteration_completed" /\ s.marks = m.marks
          /\ s.accepted = m.accepted /\ s.batches = m.batches /\ s.completed = m.completed + 1
          /\ s.shortlist = m.shortlist /\ s.exposure = m.exposure /\ SameTask(s, m)
      BY <1>2, CompletedIs
    <3>2. Journals(s, "next")
      BY <1>2, <2>1, JournalSteps
    <3>3. m.batches = m.completed + 1 /\ m.batches <= Len(Batches)
      BY <1>1, <1>2, <2>1, QueueIs DEF CompleteIteration, CountInv
    <3>4. "adaptive_iteration_completed" \notin Blocked
      BY DEF Blocked
    <3> HIDE DEF s, m
    <3> QED
      BY <1>2, <3>1, <3>2, <3>3, <3>4
  <2>2. CASE FreezeBatch
    <3> DEFINE s == BatchedOf(m)
    <3>1. /\ s.stage = "adaptive_batch_frozen" /\ s.marks = m.marks
          /\ s.accepted = m.accepted /\ s.batches = m.batches + 1 /\ s.completed = m.completed
          /\ s.shortlist = m.shortlist /\ s.exposure = m.exposure /\ SameTask(s, m)
      BY <1>2, BatchedIs
    <3>2. Journals(s, "next")
      BY <1>2, <2>2, JournalSteps
    <3>3. m.batches = m.completed /\ m.batches < Len(Batches)
      BY <1>1, <1>2, <2>2 DEF FreezeBatch, CountInv
    <3>4. "adaptive_batch_frozen" \notin Blocked
      BY DEF Blocked
    <3> HIDE DEF s, m
    <3> QED
      BY <1>2, <3>1, <3>2, <3>3, <3>4, SequenceFacts
  <2> QED
    BY <2>1, <2>2
<1>4. PICK s : /\ Journals(s, "next") /\ s.marks = m.marks /\ s.accepted = m.accepted
               /\ s.shortlist = m.shortlist /\ s.exposure = m.exposure /\ SameTask(s, m)
               /\ s.stage \notin Blocked
               /\ s.completed <= s.batches /\ s.batches <= s.completed + 1
               /\ s.batches <= Len(Batches)
  BY <1>3
<1>5. "next" \in Late
  BY DEF Late
<1>6. Backed(s)
  BY <1>2, <1>4 DEF Backed
<1>7. /\ StartInv' /\ CommitInv' /\ BackedInv' /\ ChildInv' /\ BlockInv'
      /\ ExposureBound' /\ PackageIsWhole'
  BY <1>1, <1>2, <1>4, <1>5, <1>6, LateJournals
<1>8. mem'[Worker] = s /\ pc'[Worker] = "next" /\ UNCHANGED <<freeze, results, task>>
  BY <1>1, <1>4 DEF Journals, Moves, artifacts
<1>9. CountInv'
  BY <1>4, <1>8 DEF CountInv
<1>10. TrainInv'
  BY <1>1, <1>2, <1>4, <1>8 DEF TrainInv, TaskLocs
<1>11. SelectInv'
  BY <1>8 DEF SelectInv, TaskLocs
<1> QED
  BY <1>2, <1>7, <1>9, <1>10, <1>11 DEF RunInv

LEMMA StopKept ==
    ASSUME RunInv, StopAtCheckpoint
    PROVE  RunInv'
<1> DEFINE m == mem[Worker]
           s == StoppedOf(m)
<1>1. /\ pc[Worker] \in Late \ {"launched", "waiting"} /\ "acknowledge" \in Late
      /\ UNCHANGED <<keyed, artifacts, counter, alive, task>>
  BY DEF StopAtCheckpoint, LoopHead, Late, TaskLocs, os
<1>2. TypeInv /\ m \in StateType /\ TypeInv'
  BY <1>1, RestIs, QuietTyped
<1>3. /\ s.stage = "stopped_after_checkpoint" /\ s.marks = m.marks
      /\ SameRun(s, m) /\ SameTask(s, m)
  BY <1>2, StoppedIs
<1>4. Journals(s, "acknowledge") /\ "stopped_after_checkpoint" \notin Blocked
  BY <1>2, JournalSteps DEF Blocked
<1> HIDE DEF s, m
<1>5. /\ CountInv' /\ StartInv' /\ CommitInv' /\ BackedInv' /\ ChildInv' /\ BlockInv'
      /\ ExposureBound' /\ PackageIsWhole' /\ pc'[Worker] = "acknowledge"
  BY <1>1, <1>2, <1>3, <1>4, LateSame DEF m
<1>6. TrainInv' /\ SelectInv'
  BY <1>5 DEF TrainInv, SelectInv, TaskLocs
<1> QED
  BY <1>2, <1>5, <1>6 DEF RunInv

LEMMA FinishKept ==
    ASSUME RunInv, FinishGeneration
    PROVE  RunInv'
<1> DEFINE m == mem[Worker]
<1>1. /\ pc[Worker] \in Late \ {"launched", "waiting"} /\ "shortlist" \in Late
      /\ pc[Worker] = "next" /\ Queue = <<>>
      /\ UNCHANGED <<keyed, artifacts, counter, alive, task>>
  BY DEF FinishGeneration, LoopHead, Late, TaskLocs, os
<1>2. TypeInv /\ m \in StateType /\ TypeInv' /\ TrainInv /\ CountInv
  BY <1>1, RestIs, QuietTyped DEF RunInv
<1>3. PICK r \in Reasons : Journals(GeneratedOf(m, r), "shortlist")
  BY <1>2, ChoiceSteps
<1> DEFINE s == GeneratedOf(m, r)
<1>4. /\ s.stage = "generation_finished" /\ s.marks = m.marks \cup {"generated"}
      /\ SameRun(s, m) /\ SameTask(s, m) /\ "generation_finished" \notin Blocked
  BY <1>2, GeneratedIs DEF Blocked
<1>5. Base \subseteq m.accepted
  BY <1>1, <1>2, QueueIs
<1> HIDE DEF s, m
<1>6. /\ CountInv' /\ StartInv' /\ CommitInv' /\ BackedInv' /\ ChildInv' /\ BlockInv'
      /\ ExposureBound' /\ PackageIsWhole' /\ pc'[Worker] = "shortlist" /\ mem'[Worker] = s
      /\ UNCHANGED <<freeze, results>>
  BY <1>1, <1>2, <1>3, <1>4, LateSame DEF m, s
<1>7. TrainInv' /\ SelectInv'
  BY <1>1, <1>2, <1>4, <1>5, <1>6 DEF TrainInv, SelectInv, TaskLocs, SameRun
<1> QED
  BY <1>2, <1>6, <1>7 DEF RunInv

\* The proposer journals the head of the journal, and not the copy in memory.
LEMMA ProposerKept ==
    ASSUME RunInv, ProposerFails
    PROVE  RunInv'
<1> USE WorkerIs
<1>0. PICK s : s = At(state, "awaiting_proposer_recovery")
  OBVIOUS
<1>1. /\ pc[Worker] \in Late \ {"launched", "waiting"}
      /\ UNCHANGED <<keyed, artifacts, counter, alive, task>>
  BY DEF ProposerFails, LoopHead, Late, TaskLocs, os
<1>2. /\ TypeInv /\ state \in StateType /\ TypeInv' /\ alive = {} /\ state \in Known
      /\ Backed(state)
  BY <1>1, RestIs, QuietTyped
<1>3. "awaiting_proposer_recovery" \in Stages \ Blocked
  BY DEF Stages, Blocked
<1>4. /\ s \in StateType /\ s.stage = "awaiting_proposer_recovery" /\ s.marks = state.marks
      /\ s.reason = state.reason /\ SameRun(s, state) /\ SameTask(s, state)
  BY <1>0, <1>2, <1>3, AtIs
<1>5. Journals(s, "ended")
  BY <1>0, <1>2, JournalSteps
<1>6. /\ Others(Worker) /\ mem'[Worker] = s /\ state' = s /\ pc'[Worker] = "ended"
      /\ UNCHANGED <<commitment, results, freeze, package>> /\ "ended" \notin Late
  BY <1>1, <1>5 DEF Journals, Moves, artifacts, Late, TaskLocs
<1>7. "lineage" \in s.marks \/ s = At(Initial, s.stage)
  <2>1. "lineage" \in state.marks \/ state = At(Initial, state.stage)
    BY <1>2 DEF RunInv, StartInv
  <2>2. state = At(Initial, state.stage) => state.reason = None
    BY <1>2, InitialIs
  <2> QED
    BY <1>2, <1>4, <2>1, <2>2, StaysInitial
<1>8. Known' \subseteq Known \cup {s} /\ StartInv' /\ CommitInv' /\ ChildInv' /\ BlockInv'
  BY <1>1, <1>2, <1>4, <1>6, <1>7, LateKept
<1>9. Backed(s)'
  BY <1>1, <1>2, <1>4, <1>6 DEF Backed, SameRun
<1>10. BackedInv'
  <2>1. BackedInv /\ Durable
    BY <1>1, <1>6 DEF RunInv, Durable
  <2> QED
    BY <1>2, <1>8, <1>9, <2>1, BackedKept
<1>11. ExposureBound' /\ PackageIsWhole'
  <2>1. state'.exposure = 1 => counter' = "ours"
    BY <1>6, <1>9 DEF Backed
  <2> QED
    BY <1>1, <1>6, <2>1, ArtifactsKept
<1>12. CountInv' /\ TrainInv' /\ SelectInv'
  <2>1. CountInv /\ TrainInv /\ SelectInv
    BY DEF RunInv
  <2> QED
    BY <1>2, <1>6, <2>1, ControlKept
<1> QED
  BY <1>2, <1>8, <1>10, <1>11, <1>12 DEF RunInv

\* The steps that journal nothing, and leave the freeze and the counter alone.
LEMMA LoopKept ==
    ASSUME RunInv,
           PassCheckpoint \/ AcknowledgeStop \/ ProposeBatch \/ NextCandidate \/ CollectOutput
    PROVE  RunInv'
<1> DEFINE m == mem[Worker]
<1>1. /\ pc[Worker] \in Late \ {"launched", "waiting"}
      /\ UNCHANGED <<keyed, commitment, alive, freeze, results, package, counter>>
      /\ NextCandidate \/ task' = task
  BY DEF PassCheckpoint, AcknowledgeStop, ProposeBatch, NextCandidate, CollectOutput, LoopHead,
     Late, TaskLocs, os, artifacts
<1>2. /\ TypeInv /\ m \in StateType /\ CountInv /\ TrainInv /\ SelectInv /\ Backed(m) /\ Durable
      /\ m.batches \in Nat /\ m.completed \in Nat
  <2>1. m \in StateType
    BY <1>1, RestIs
  <2> QED
    BY <1>1, <2>1, RestIs DEF RunInv, Durable, StateType
<1>3. TypeInv'
  BY <1>2, QuietTyped, ArtifactTyped
<1> HIDE DEF m
<1>4. ASSUME NEW l, Goes(l), l \in Late \cup {"ended"}
      PROVE  /\ StartInv' /\ CommitInv' /\ BackedInv' /\ ChildInv' /\ BlockInv'
             /\ ExposureBound' /\ PackageIsWhole'
             /\ mem'[Worker] = m /\ pc'[Worker] = l
  <2>1. /\ StartInv' /\ CommitInv' /\ BackedInv' /\ ChildInv' /\ BlockInv'
        /\ mem'[Worker] = m /\ pc'[Worker] = l
        /\ state'.exposure = 1 => counter' = "ours"
    BY <1>1, <1>2, <1>3, <1>4, LateGoes DEF m
  <2>2. l \notin {"resumed", "supervise", "validate"}
    BY <1>4 DEF Late, TaskLocs
  <2> QED
    BY <1>1, <2>1, <2>2, ArtifactsKept
<1>5. CASE PassCheckpoint
  <2>1. Goes("next") /\ "next" \in Late /\ pc[Worker] = "checkpoint"
    BY <1>2, <1>5, GoesSteps DEF Late, PassCheckpoint
  <2>2. mem'[Worker] = m /\ pc'[Worker] = "next"
    BY <1>4, <2>1
  <2>3. CountInv'
    BY <1>1, <1>2, <2>2, CountKept DEF m
  <2>4. TrainInv' /\ SelectInv'
    BY <1>1, <1>2, <2>1, <2>2 DEF TrainInv, SelectInv, TaskLocs, m
  <2> QED
    BY <1>3, <1>4, <2>1, <2>3, <2>4 DEF RunInv
<1>6. CASE AcknowledgeStop
  <2>1. Goes("ended") /\ "ended" \notin Late
    BY <1>2, <1>6, GoesSteps DEF Late, TaskLocs
  <2>2. pc'[Worker] = "ended"
    BY <1>4, <2>1
  <2>3. CountInv' /\ TrainInv' /\ SelectInv'
    BY <1>1, <1>2, <2>1, <2>2, ControlKept
  <2> QED
    BY <1>3, <1>4, <2>1, <2>3 DEF RunInv
<1>7. CASE ProposeBatch
  <2>1. Goes("freeze batch") /\ "freeze batch" \in Late
    BY <1>2, <1>7, GoesSteps DEF Late
  <2>2. mem'[Worker] = m /\ pc'[Worker] = "freeze batch"
    BY <1>4, <2>1
  <2>3. pc[Worker] = "next" /\ Queue = <<>> /\ m.completed < Len(Batches)
    BY <1>7 DEF ProposeBatch, LoopHead, MoreIterations, m
  <2>4. Base \subseteq m.accepted /\ m.batches = m.completed
    BY <1>2, <2>3, QueueIs DEF m
  <2>5. CountInv'
    <3>1. /\ m.completed <= m.batches /\ m.batches <= m.completed + 1
          /\ m.batches <= Len(Batches) /\ m.batches < Len(Batches)
      BY <1>2, <2>3, <2>4, SequenceFacts
    <3> QED
      BY <2>2, <2>4, <3>1 DEF CountInv
  <2>6. TrainInv' /\ SelectInv'
    BY <1>1, <1>2, <2>2, <2>3, <2>4 DEF TrainInv, SelectInv, TaskLocs, m
  <2> QED
    BY <1>3, <1>4, <2>1, <2>5, <2>6 DEF RunInv
<1>8. CASE NextCandidate
  <2>1. Goes("attempt") /\ "attempt" \in Late /\ "attempt" \in TaskLocs
    BY <1>2, <1>8, GoesSteps DEF Late, TaskLocs
  <2>2. mem'[Worker] = m /\ pc'[Worker] = "attempt" /\ pc[Worker] = "next"
    BY <1>4, <1>8, <2>1 DEF NextCandidate
  <2>3. CountInv'
    BY <1>1, <1>2, <2>2, CountKept DEF m
  <2>4. PICK i \in Left(Queue) : /\ \A j \in Left(Queue) : i <= j
                                 /\ task' = [role |-> "train", cand |-> Queue[i]]
    BY <1>8 DEF NextCandidate
  <2>5. task'.role = "train" /\ task'.cand = Queue[i] /\ Queue[i] \notin m.accepted
    BY <1>2, <2>2, <2>4, QueueIs DEF m
  <2>6. \/ task'.cand = Baseline /\ m.accepted = {}
        \/ task'.cand # Baseline /\ "reproduction" \in m.marks
    <3>1. CASE "reproduction" \in m.marks
      BY <1>2, <2>5, <3>1 DEF Backed
    <3>2. CASE "reproduction" \notin m.marks
      <4>1. m.accepted = {}
        BY <1>2, <2>2, <3>2 DEF TrainInv, m
      <4>2. Left(BaseOrder) = DOMAIN BaseOrder
        BY <4>1 DEF Left, m
      <4>3. 1 \in Left(BaseOrder) /\ \A j \in Left(BaseOrder) : j \in Nat /\ j >= 1
        BY <4>2, SequenceFacts
      <4>4. Queue = BaseOrder
        BY <1>2, <2>2, <4>3, QueueIs
      <4>5. i = 1
        BY <2>4, <4>3, <4>4
      <4> QED
        BY <2>5, <4>1, <4>4, <4>5, SequenceFacts
    <3> QED
      BY <3>1, <3>2
  <2>7. TrainInv' /\ SelectInv'
    BY <1>1, <1>2, <2>2, <2>5, <2>6 DEF TrainInv, SelectInv, TaskLocs, m
  <2> QED
    BY <1>3, <1>4, <2>1, <2>3, <2>7 DEF RunInv
<1>9. CASE CollectOutput
  <2>1. /\ Goes("accept") /\ "accept" \in Late /\ "accept" \in TaskLocs
        /\ pc[Worker] \in TaskLocs /\ pc[Worker] = "collect" /\ task' = task
    BY <1>2, <1>9, GoesSteps DEF Late, TaskLocs, CollectOutput
  <2>2. mem'[Worker] = m /\ pc'[Worker] = "accept"
    BY <1>4, <2>1
  <2>3. CountInv'
    BY <1>1, <1>2, <2>2, CountKept DEF m
  <2>4. TrainInv' /\ SelectInv'
    BY <1>1, <1>2, <2>1, <2>2 DEF TrainInv, SelectInv, m
  <2> QED
    BY <1>3, <1>4, <2>1, <2>3, <2>4 DEF RunInv
<1> QED
  BY <1>5, <1>6, <1>7, <1>8, <1>9

LEMMA AcceptKept ==
    ASSUME RunInv, AcceptResult
    PROVE  RunInv'
<1> DEFINE m == mem[Worker]
<1>1. /\ pc[Worker] \in Late \ {"launched", "waiting"}
      /\ pc[Worker] = "accept" /\ pc[Worker] \in TaskLocs
      /\ UNCHANGED <<keyed, commitment, alive, freeze, package, counter, task>>
  BY DEF AcceptResult, Late, TaskLocs, os
<1>2. /\ TypeInv /\ m \in StateType /\ CountInv /\ TrainInv /\ SelectInv
  BY <1>1, RestIs DEF RunInv
<1>3. TypeInv'
  BY <1>2, ArtifactTyped
<1>4. CASE Goes("accepted") /\ results' = results \cup {task}
  <2>1. Durable /\ "accepted" \in Late /\ "accepted" \in TaskLocs
    BY <1>1, <1>4 DEF Durable, Late, TaskLocs
  <2>2. /\ StartInv' /\ CommitInv' /\ BackedInv' /\ ChildInv' /\ BlockInv'
        /\ mem'[Worker] = m /\ pc'[Worker] = "accepted"
        /\ state'.exposure = 1 => counter' = "ours"
    BY <1>1, <1>3, <1>4, <2>1, LateGoes
  <2>3. ExposureBound' /\ PackageIsWhole'
    BY <1>1, <1>4, <2>2, ArtifactsKept
  <2>4. CountInv'
    BY <1>1, <1>2, <2>2, CountKept
  <2> HIDE DEF m
  <2>5. TrainInv' /\ SelectInv'
    BY <1>1, <1>2, <1>4, <2>1, <2>2 DEF TrainInv, SelectInv, m
  <2> QED
    BY <1>3, <2>2, <2>3, <2>4, <2>5 DEF RunInv
<1>5. CASE Journals(At(m, "blocked_budget"), "ended") /\ results' = results
  <2>1. PICK s : s = At(m, "blocked_budget")
    OBVIOUS
  <2>2. "blocked_budget" \in Stages /\ UNCHANGED artifacts
    BY <1>1, <1>5 DEF Stages, Blocked, artifacts, AcceptResult
  <2>3. s.marks = m.marks /\ SameRun(s, m) /\ SameTask(s, m)
    BY <1>2, <2>1, <2>2, AtIs
  <2> HIDE DEF m
  <2> QED
    BY <1>1, <1>2, <1>3, <1>5, <2>1, <2>2, <2>3, LateSame DEF RunInv, m
<1> QED
  BY <1>2, <1>4, <1>5, ChoiceSteps

LEMMA ReproduceKept ==
    ASSUME RunInv, ReproduceBaseline
    PROVE  RunInv'
<1> DEFINE m == mem[Worker]
<1>1. /\ pc[Worker] \in Late \ {"launched", "waiting"} /\ pc[Worker] = "reproduce"
      /\ UNCHANGED <<keyed, artifacts, counter, alive, task>>
      /\ UNCHANGED <<commitment, freeze, results, package>>
  BY DEF ReproduceBaseline, Late, os, artifacts
<1>2. TypeInv /\ m \in StateType /\ TypeInv' /\ CountInv /\ TrainInv /\ SelectInv /\ Backed(m)
  BY <1>1, RestIs, QuietTyped DEF RunInv
<1>3. CASE Goes("ended")
  <2>1. Durable /\ "ended" \notin Late
    BY <1>1 DEF Durable, Late, TaskLocs
  <2>2. /\ StartInv' /\ CommitInv' /\ BackedInv' /\ ChildInv' /\ BlockInv'
        /\ pc'[Worker] = "ended"
        /\ state'.exposure = 1 => counter' = "ours"
    BY <1>1, <1>2, <1>3, <2>1, LateGoes
  <2>3. ExposureBound' /\ PackageIsWhole'
    BY <1>1, <2>2, ArtifactsKept
  <2>4. CountInv' /\ TrainInv' /\ SelectInv'
    BY <1>1, <1>2, <2>1, <2>2, ControlKept
  <2> QED
    BY <1>2, <2>2, <2>3, <2>4 DEF RunInv
<1>4. CASE Journals(Mark(m, "reproduction", "baseline_reproduced"), "checkpoint")
  <2>1. PICK s : s = Mark(m, "reproduction", "baseline_reproduced")
    OBVIOUS
  <2>2. /\ "baseline_reproduced" \in Stages \ Blocked /\ "reproduction" \in Marks
        /\ "checkpoint" \in Late
    BY DEF Stages, Blocked, Marks, Late
  <2>3. /\ s.marks = m.marks \cup {"reproduction"} /\ SameRun(s, m) /\ SameTask(s, m)
        /\ s.stage = "baseline_reproduced"
    BY <1>2, <2>1, <2>2, MarkIs
  <2> HIDE DEF m
  <2>4. m.accepted = {Baseline}
    BY <1>1, <1>2 DEF TrainInv, m
  <2>5. Backed(s)
    BY <1>2, <2>3, <2>4 DEF Backed, SameRun
  <2>6. /\ StartInv' /\ CommitInv' /\ BackedInv' /\ ChildInv' /\ BlockInv'
        /\ ExposureBound' /\ PackageIsWhole'
    BY <1>1, <1>2, <1>4, <2>1, <2>2, <2>3, <2>5, LateJournals DEF m
  <2>7. mem'[Worker] = s /\ pc'[Worker] = "checkpoint"
    BY <1>4, <2>1 DEF Journals, Moves
  <2>8. CountInv'
    BY <1>1, <1>2, <2>3, <2>7, CountKept DEF SameRun, m
  <2>9. TrainInv' /\ SelectInv'
    BY <1>1, <1>2, <2>3, <2>7 DEF TrainInv, SelectInv, TaskLocs
  <2> QED
    BY <1>2, <2>6, <2>8, <2>9 DEF RunInv
<1> QED
  BY <1>2, <1>3, <1>4, ChoiceSteps

LEMMA CommittedKept ==
    ASSUME RunInv, JournalCommitment
    PROVE  RunInv'
<1> USE WorkerIs
<1> DEFINE m == mem[Worker]
<1>1. /\ pc[Worker] = "committed" /\ pc[Worker] # "down" /\ TypeInv /\ m \in StateType
      /\ UNCHANGED <<keyed, artifacts, counter, alive, task>>
      /\ UNCHANGED <<commitment, results, freeze, package>>
  BY Holds DEF JournalCommitment, RunInv, os, artifacts
<1>2. TypeInv' /\ "baseline_committed" \in Stages \ Blocked /\ "commitment" \in Marks
  BY <1>1, QuietTyped DEF Stages, Blocked, Marks
<1>3. /\ Untouched /\ commitment /\ m \in Known
      /\ "lineage" \in m.marks /\ m.marks \subseteq {"lineage", "base"}
      /\ m = [At(Initial, m.stage) EXCEPT !.marks = m.marks]
      /\ \E e \in keyed : e.key = <<"validating">>
  BY <1>1, KnownIs DEF RunInv, CommitInv, StartInv, Setup
<1>4. m.accepted = {} /\ m.child = None /\ m.batches = 0 /\ m.completed = 0 /\ m.exposure = 0
  <2> HIDE DEF m
  <2> QED
    BY <1>1, <1>3, SetupIs
<1>5. PICK s : s = Mark(m, "commitment", "baseline_committed")
  OBVIOUS
<1>6. Journals(s, "next")
  BY <1>1, <1>5, JournalSteps
<1>7. s.marks = m.marks \cup {"commitment"} /\ SameRun(s, m) /\ SameTask(s, m)
  BY <1>1, <1>2, <1>5, MarkIs
<1>8. /\ Others(Worker) /\ mem'[Worker] = s /\ pc'[Worker] = "next" /\ state' = s
      /\ s \in StateType /\ s # None /\ s.stage \notin Blocked
  BY <1>1, <1>2, <1>5, <1>6, MarkIs, NoneFacts DEF Journals, Moves
<1>9. BackedInv /\ Backed(m) /\ PackageIsWhole /\ BlockInv /\ ExposureBound
  BY <1>3 DEF RunInv, BackedInv
<1> HIDE DEF m
<1>10. Known' \subseteq Known \cup {s}
  BY <1>1, <1>8, KnownGrows
<1>11. StartInv'
  <2>1. "next" \notin Setup /\ "lineage" \in s.marks /\ StartInv
    BY <1>3, <1>7 DEF Setup, RunInv
  <2> QED
    BY <1>1, <1>3, <1>8, <1>10, <2>1, StartKept
<1>12. CommitInv'
  BY <1>1, <1>3, <1>8 DEF CommitInv
<1>13. BackedInv'
  <2>1. Backed(s)'
    BY <1>1, <1>3, <1>4, <1>7, <1>9 DEF Backed, SameRun
  <2>2. Durable
    BY <1>1 DEF Durable
  <2> QED
    BY <1>1, <1>8, <1>9, <1>10, <2>1, <2>2, BackedKept
<1>14. ChildInv'
  <2>1. alive' = {} /\ \A c \in Children : ~Released(c)'
    BY <1>1, <1>3 DEF Untouched, Released
  <2>2. \A r \in Known' : r.child = None
    BY <1>3, <1>4, <1>7, <1>10 DEF Untouched, SameTask
  <2> QED
    BY <1>8, <2>1, <2>2 DEF ChildInv
<1>15. CountInv'
  BY <1>4, <1>7, <1>8, SequenceFacts DEF CountInv, SameRun
<1>16. TrainInv' /\ SelectInv'
  BY <1>1, <1>3, <1>4, <1>7, <1>8 DEF TrainInv, SelectInv, TaskLocs, Untouched, SameRun
<1>17. BlockInv'
  BY <1>8, <1>9 DEF BlockInv, Others
<1>18. ExposureBound' /\ PackageIsWhole'
  BY <1>1, <1>3, <1>4, <1>7, <1>8 DEF ExposureBound, PackageIsWhole, Untouched, SameRun
<1> QED
  BY <1>2, <1>11, <1>12, <1>13, <1>14, <1>15, <1>16, <1>17, <1>18 DEF RunInv

\* A result becomes part of the state.
LEMMA ResultKept ==
    ASSUME RunInv, JournalResult
    PROVE  RunInv'
<1> USE WorkerIs
<1> DEFINE m == mem[Worker]
<1>1. /\ pc[Worker] \in Late \ {"launched", "waiting"} /\ pc[Worker] = "accepted"
      /\ pc[Worker] \in TaskLocs
      /\ UNCHANGED <<keyed, artifacts, counter, alive, task>>
      /\ UNCHANGED <<commitment, freeze, results, package>>
  BY DEF JournalResult, Late, TaskLocs, os, artifacts
<1>2. /\ TypeInv /\ m \in StateType /\ TypeInv' /\ CountInv /\ TrainInv /\ SelectInv /\ Backed(m)
      /\ task \in Tasks
  BY <1>1, RestIs, QuietTyped DEF RunInv, TypeInv
<1>3. CASE task.role = "train"
  <2>1. PICK s, l : /\ s = AcceptedOf(m, task.cand)
                    /\ l = IF task.cand = Baseline THEN "reproduce" ELSE "checkpoint"
    OBVIOUS
  <2>2. Journals(s, l) /\ task.cand \in Candidates
    BY <1>2, <1>3, <2>1, ResultSteps
  <2>3. /\ s.stage = "candidate_train_completed" /\ s.marks = m.marks
        /\ s.accepted = m.accepted \cup {task.cand} /\ s.batches = m.batches
        /\ s.completed = m.completed /\ s.shortlist = m.shortlist /\ s.exposure = m.exposure
        /\ SameTask(s, m)
    BY <1>2, <2>1, <2>2, AcceptedIs
  <2>4. /\ "candidate_train_completed" \notin Blocked
        /\ l \in {"reproduce", "checkpoint"} /\ l \in Late /\ l # "freeze batch"
    BY <2>1 DEF Blocked, Late
  <2> HIDE DEF m
  <2>5. /\ freeze = None /\ task \in results
        /\ \/ task.cand = Baseline /\ m.accepted = {}
           \/ task.cand # Baseline /\ "reproduction" \in m.marks
    BY <1>1, <1>2, <1>3 DEF TrainInv, m
  <2>6. Trained(task.cand) = task
    BY <1>2, <1>3 DEF Trained, Tasks
  <2>7. "frozen" \notin m.marks
    BY <1>2, <2>5, NoneFacts DEF Backed, StateType
  <2>8. Backed(s)
    BY <1>2, <2>3, <2>5, <2>6, <2>7 DEF Backed
  <2>9. /\ StartInv' /\ CommitInv' /\ BackedInv' /\ ChildInv' /\ BlockInv'
        /\ ExposureBound' /\ PackageIsWhole'
    BY <1>1, <1>2, <2>2, <2>3, <2>4, <2>8, LateJournals DEF m
  <2>10. mem'[Worker] = s /\ pc'[Worker] = l
    BY <2>2 DEF Journals, Moves
  <2>11. CountInv'
    BY <1>1, <1>2, <2>3, <2>4, <2>10, CountKept DEF m
  <2>12. TrainInv'
    <3>1. l = "reproduce" => s.accepted = {Baseline}
      BY <2>1, <2>3, <2>5
    <3>2. l = "checkpoint" => "reproduction" \in s.marks
      BY <2>1, <2>3, <2>5
    <3> QED
      BY <1>1, <2>4, <2>5, <2>10, <3>1, <3>2 DEF TrainInv, TaskLocs
  <2>13. SelectInv'
    BY <2>4, <2>10 DEF SelectInv, TaskLocs
  <2> QED
    BY <1>2, <2>9, <2>11, <2>12, <2>13 DEF RunInv
<1>4. CASE task.role # "train"
  <2>1. PICK s : s = At(m, "selection_candidate_completed")
    OBVIOUS
  <2>2. /\ "selection_candidate_completed" \in Stages \ Blocked /\ "select" \in Late
        /\ task.role = "selection"
    BY <1>2, <1>4 DEF Stages, Blocked, Late, Tasks, Roles
  <2>3. s.marks = m.marks /\ SameRun(s, m) /\ SameTask(s, m) /\ s.stage \notin Blocked
    BY <1>2, <2>1, <2>2, AtIs
  <2>4. Journals(s, "select")
    BY <1>2, <1>4, <2>1, ResultSteps
  <2> HIDE DEF m
  <2>5. /\ CountInv' /\ StartInv' /\ CommitInv' /\ BackedInv' /\ ChildInv' /\ BlockInv'
        /\ ExposureBound' /\ PackageIsWhole' /\ mem'[Worker] = s /\ pc'[Worker] = "select"
    BY <1>1, <1>2, <2>2, <2>3, <2>4, LateSame DEF m
  <2>6. TrainInv' /\ SelectInv'
    BY <1>1, <1>2, <2>2, <2>3, <2>5 DEF TrainInv, SelectInv, TaskLocs, SameRun, m
  <2> QED
    BY <1>2, <2>5, <2>6 DEF RunInv
<1> QED
  BY <1>3, <1>4

LEMMA ShortlistKept ==
    ASSUME RunInv, DeriveShortlist
    PROVE  RunInv'
<1> DEFINE m == mem[Worker]
<1>1. /\ pc[Worker] \in Late \ {"launched", "waiting"} /\ pc[Worker] = "shortlist"
      /\ UNCHANGED <<keyed, artifacts, counter, alive, task>>
      /\ UNCHANGED <<commitment, freeze, results, package>>
  BY DEF DeriveShortlist, Late, TaskLocs, os, artifacts
<1>2. TypeInv /\ m \in StateType /\ TypeInv' /\ CountInv /\ TrainInv /\ SelectInv /\ Backed(m)
  BY <1>1, RestIs, QuietTyped DEF RunInv
<1>3. PICK f \in SUBSET Candidates :
         f \subseteq m.accepted /\ Journals(ShortlistedOf(m, f), "freeze")
  BY <1>2, <1>1, ResultSteps DEF DeriveShortlist
<1>4. PICK s : s = ShortlistedOf(m, f)
  OBVIOUS
<1>5. /\ s.stage = "shortlist_ready" /\ s.marks = m.marks \cup {"trained"}
      /\ s.accepted = m.accepted /\ s.batches = m.batches /\ s.completed = m.completed
      /\ s.shortlist = f /\ s.exposure = m.exposure /\ SameTask(s, m)
  BY <1>2, <1>4, ShortlistedIs
<1> HIDE DEF m
<1>6. freeze = None /\ "frozen" \notin m.marks /\ Base \subseteq m.accepted
  BY <1>1, <1>2, NoneFacts DEF TrainInv, Backed, StateType, m
<1>7. Backed(s)
  BY <1>2, <1>3, <1>5, <1>6 DEF Backed
<1>8. "shortlist_ready" \notin Blocked /\ "freeze" \in Late
  BY DEF Blocked, Late
<1>9. /\ StartInv' /\ CommitInv' /\ BackedInv' /\ ChildInv' /\ BlockInv'
      /\ ExposureBound' /\ PackageIsWhole'
  BY <1>1, <1>2, <1>3, <1>4, <1>5, <1>7, <1>8, LateJournals DEF m
<1>10. mem'[Worker] = s /\ pc'[Worker] = "freeze"
  BY <1>3, <1>4 DEF Journals, Moves
<1>11. CountInv'
  BY <1>1, <1>2, <1>5, <1>10, CountKept DEF m
<1>12. TrainInv' /\ SelectInv'
  BY <1>1, <1>5, <1>6, <1>10 DEF TrainInv, SelectInv, TaskLocs
<1> QED
  BY <1>2, <1>9, <1>11, <1>12 DEF RunInv

-----------------------------------------------------------------------------
(***************************************************************************)
(* The freeze, the exposure and the selection.                             *)
(***************************************************************************)

LEMMA WriteFreezeKept ==
    ASSUME RunInv, WriteFreeze
    PROVE  RunInv'
<1> DEFINE m == mem[Worker]
<1>1. /\ pc[Worker] \in Late \ {"launched", "waiting"} /\ pc[Worker] = "freeze"
      /\ UNCHANGED <<keyed, commitment, alive, results, package, counter, task>>
      /\ freeze' = m.shortlist
  BY DEF WriteFreeze, Late, TaskLocs, os
<1>2. /\ TypeInv /\ m \in StateType /\ CountInv /\ TrainInv /\ SelectInv /\ ExposureBound
      /\ PackageIsWhole /\ freeze = None
  BY <1>1, RestIs DEF RunInv, TrainInv
<1>3. /\ TypeInv' /\ Goes("frozen") /\ "frozen" \in Late /\ Durable
  BY <1>1, <1>2, ArtifactTyped, GoesSteps DEF Late, Durable
<1>4. /\ StartInv' /\ CommitInv' /\ BackedInv' /\ ChildInv' /\ BlockInv'
      /\ mem'[Worker] = m /\ pc'[Worker] = "frozen"
      /\ state'.exposure = 1 => counter' = "ours"
  BY <1>1, <1>3, LateGoes
<1>5. ExposureBound' /\ PackageIsWhole'
  BY <1>1, <1>2, <1>4 DEF ExposureBound, PackageIsWhole
<1>6. CountInv'
  BY <1>1, <1>2, <1>4, CountKept
<1> HIDE DEF m
<1>7. TrainInv' /\ SelectInv'
  BY <1>1, <1>2, <1>4 DEF TrainInv, SelectInv, ExposureBound, TaskLocs, m
<1> QED
  BY <1>3, <1>4, <1>5, <1>6, <1>7 DEF RunInv

LEMMA JournalFreezeKept ==
    ASSUME RunInv, JournalFreeze
    PROVE  RunInv'
<1> DEFINE m == mem[Worker]
<1>1. /\ pc[Worker] \in Late \ {"launched", "waiting"} /\ pc[Worker] = "frozen"
      /\ UNCHANGED <<keyed, artifacts, counter, alive, task>>
      /\ UNCHANGED <<commitment, freeze, results, package>>
  BY DEF JournalFreeze, Late, TaskLocs, os, artifacts
<1>2. TypeInv /\ m \in StateType /\ TypeInv' /\ CountInv /\ TrainInv /\ SelectInv /\ Backed(m)
  BY <1>1, RestIs, ArtifactTyped, QuietTyped DEF RunInv
<1>3. PICK s, l : /\ s = Mark(m, "frozen", "shortlist_frozen")
                  /\ l = IF m.shortlist = {} THEN "finalize" ELSE "expose"
  OBVIOUS
<1>4. Journals(s, l)
  BY <1>2, <1>3, ResultSteps
<1>5. /\ "shortlist_frozen" \in Stages \ Blocked /\ "frozen" \in Marks
      /\ l \in {"finalize", "expose"} /\ l \in Late
  BY <1>3 DEF Stages, Blocked, Marks, Late
<1>6. /\ s.marks = m.marks \cup {"frozen"} /\ SameRun(s, m) /\ SameTask(s, m)
      /\ s.stage \notin Blocked
  BY <1>2, <1>3, <1>5, MarkIs
<1> HIDE DEF m
<1>7. freeze = m.shortlist /\ Base \subseteq m.accepted /\ counter # "ours"
  BY <1>1, <1>2 DEF TrainInv, SelectInv, m
<1>8. Backed(s)
  BY <1>2, <1>6, <1>7 DEF Backed, SameRun
<1>9. /\ StartInv' /\ CommitInv' /\ BackedInv' /\ ChildInv' /\ BlockInv'
      /\ ExposureBound' /\ PackageIsWhole'
  BY <1>1, <1>2, <1>4, <1>5, <1>6, <1>8, LateJournals DEF m
<1>10. mem'[Worker] = s /\ pc'[Worker] = l
  BY <1>4 DEF Journals, Moves
<1>11. CountInv'
  BY <1>1, <1>2, <1>5, <1>6, <1>10, CountKept DEF SameRun, m
<1>12. TrainInv'
  BY <1>5, <1>10 DEF TrainInv, TaskLocs
<1>13. SelectInv'
  <2>1. s.shortlist = m.shortlist
    BY <1>6 DEF SameRun
  <2>2. CASE m.shortlist = {}
    <3>1. l = "finalize"
      BY <1>3, <2>2
    <3> QED
      BY <1>1, <1>7, <1>10, <2>1, <2>2, <3>1 DEF SelectInv, TaskLocs
  <2>3. CASE m.shortlist # {}
    <3>1. l = "expose"
      BY <1>3, <2>3
    <3> QED
      BY <1>1, <1>7, <1>10, <2>1, <2>3, <3>1 DEF SelectInv, TaskLocs
  <2> QED
    BY <2>2, <2>3
<1> QED
  BY <1>2, <1>9, <1>11, <1>12, <1>13 DEF RunInv

\* The counter is taken for finalists that were frozen.
LEMMA SwapKept ==
    ASSUME RunInv, SwapCounter
    PROVE  RunInv'
<1> DEFINE m == mem[Worker]
<1>1. /\ pc[Worker] \in Late \ {"launched", "waiting"} /\ pc[Worker] = "expose"
      /\ UNCHANGED <<keyed, commitment, alive, freeze, results, package, task>>
  BY DEF SwapCounter, Late, TaskLocs, os, artifacts
<1>2. /\ TypeInv /\ m \in StateType /\ CountInv /\ TrainInv /\ SelectInv /\ ExposureBound
      /\ PackageIsWhole
  BY <1>1, RestIs DEF RunInv
<1>3. /\ TypeInv'
      /\ \/ Goes("exposed") /\ counter = "free" /\ counter' = "ours"
         \/ Goes("ended") /\ counter' = counter
  BY <1>2, ArtifactTyped, GoesSteps
<1>4. /\ "exposed" \in Late /\ "ended" \notin Late /\ counter # "ours"
      /\ freeze = m.shortlist /\ m.shortlist # {} /\ m.shortlist # None
  BY <1>1, <1>2, NoneFacts DEF Late, TaskLocs, SelectInv, StateType
<1>5. Durable
  BY <1>1, <1>4 DEF Durable
<1>6. CASE Goes("exposed") /\ counter' = "ours"
  <2>1. /\ StartInv' /\ CommitInv' /\ BackedInv' /\ ChildInv' /\ BlockInv'
        /\ mem'[Worker] = m /\ pc'[Worker] = "exposed"
    BY <1>1, <1>3, <1>4, <1>5, <1>6, LateGoes
  <2>2. ExposureBound' /\ PackageIsWhole'
    BY <1>1, <1>2, <1>4, <1>6, <2>1 DEF ExposureBound, PackageIsWhole
  <2>3. CountInv'
    BY <1>1, <1>2, <2>1, CountKept
  <2> HIDE DEF m
  <2>4. TrainInv' /\ SelectInv'
    BY <1>1, <1>2, <1>4, <1>6, <2>1 DEF TrainInv, SelectInv, TaskLocs, m
  <2> QED
    BY <1>3, <2>1, <2>2, <2>3, <2>4 DEF RunInv
<1>7. CASE Goes("ended") /\ counter' = counter
  <2>1. /\ StartInv' /\ CommitInv' /\ BackedInv' /\ ChildInv' /\ BlockInv'
        /\ pc'[Worker] = "ended"
        /\ state'.exposure = 1 => counter' = "ours"
    BY <1>1, <1>3, <1>5, <1>7, LateGoes
  <2>2. ExposureBound' /\ PackageIsWhole'
    BY <1>1, <1>7, <2>1, ArtifactsKept
  <2>3. CountInv' /\ TrainInv' /\ SelectInv'
    BY <1>1, <1>2, <1>4, <2>1, ControlKept
  <2> QED
    BY <1>3, <2>1, <2>2, <2>3 DEF RunInv
<1> QED
  BY <1>3, <1>6, <1>7

LEMMA JournalExposureKept ==
    ASSUME RunInv, JournalExposure
    PROVE  RunInv'
<1> DEFINE m == mem[Worker]
           s == ExposedOf(m)
<1>1. /\ pc[Worker] \in Late \ {"launched", "waiting"} /\ pc[Worker] = "exposed"
      /\ UNCHANGED <<keyed, artifacts, counter, alive, task>>
      /\ UNCHANGED <<commitment, freeze, results, package>>
  BY DEF JournalExposure, Late, TaskLocs, os, artifacts
<1>2. TypeInv /\ m \in StateType /\ TypeInv' /\ CountInv /\ TrainInv /\ SelectInv /\ Backed(m)
  BY <1>1, RestIs, ArtifactTyped, QuietTyped DEF RunInv
<1>3. Journals(s, "select") /\ "select" \in Late /\ "selection_exposed" \notin Blocked
  BY <1>2, JournalSteps DEF Late, Blocked
<1>4. /\ s.stage = "selection_exposed" /\ s.marks = m.marks
      /\ s.accepted = m.accepted /\ s.batches = m.batches /\ s.completed = m.completed
      /\ s.shortlist = m.shortlist /\ SameTask(s, m)
  BY <1>2, ExposedIs
<1> HIDE DEF m, s
<1>5. freeze = m.shortlist /\ counter = "ours"
  BY <1>1, <1>2 DEF SelectInv, m
<1>6. Backed(s)
  BY <1>2, <1>4, <1>5 DEF Backed
<1>7. /\ StartInv' /\ CommitInv' /\ BackedInv' /\ ChildInv' /\ BlockInv'
      /\ ExposureBound' /\ PackageIsWhole'
  BY <1>1, <1>2, <1>3, <1>4, <1>6, LateJournals DEF m
<1>8. mem'[Worker] = s /\ pc'[Worker] = "select"
  BY <1>3 DEF Journals, Moves
<1>9. CountInv'
  BY <1>1, <1>2, <1>4, <1>8, CountKept DEF m
<1>10. TrainInv' /\ SelectInv'
  BY <1>1, <1>4, <1>5, <1>8 DEF TrainInv, SelectInv, TaskLocs
<1> QED
  BY <1>2, <1>7, <1>9, <1>10 DEF RunInv

\* The finalists one after the other, and the package.
LEMMA FinalistsKept ==
    ASSUME RunInv, NextFinalist \/ FinalistsDone \/ WritePackage
    PROVE  RunInv'
<1> DEFINE m == mem[Worker]
<1>1. /\ pc[Worker] \in Late \ {"launched", "waiting"}
      /\ UNCHANGED <<keyed, commitment, alive, freeze, results, counter>>
  BY DEF NextFinalist, FinalistsDone, WritePackage, Late, TaskLocs, os, artifacts
<1>2. /\ TypeInv /\ m \in StateType /\ CountInv /\ TrainInv /\ SelectInv /\ ExposureBound
      /\ PackageIsWhole /\ Durable
  BY <1>1, RestIs DEF RunInv, Durable
<1>3. TypeInv'
  BY <1>2, ArtifactTyped, QuietTyped
<1>4. ASSUME NEW l \in {"attempt", "finalize", "complete"}, Goes(l)
      PROVE  /\ StartInv' /\ CommitInv' /\ BackedInv' /\ ChildInv' /\ BlockInv' /\ CountInv'
             /\ mem'[Worker] = m /\ pc'[Worker] = l
             /\ state'.exposure = 1 => counter' = "ours"
  <2>1. l \in Late /\ l # "freeze batch"
    BY DEF Late, TaskLocs
  <2>2. /\ StartInv' /\ CommitInv' /\ BackedInv' /\ ChildInv' /\ BlockInv'
        /\ mem'[Worker] = m /\ pc'[Worker] = l
        /\ state'.exposure = 1 => counter' = "ours"
    BY <1>1, <1>2, <1>3, <1>4, <2>1, LateGoes
  <2>3. CountInv'
    BY <1>1, <1>2, <2>1, <2>2, CountKept
  <2> QED
    BY <2>2, <2>3
<1>5. CASE NextFinalist
  <2>1. /\ Goes("attempt") /\ pc[Worker] = "select" /\ package' = package
        /\ \E c \in Unmeasured : task' = [role |-> "selection", cand |-> c]
    BY <1>2, <1>5, GoesSteps DEF NextFinalist, artifacts
  <2>2. task'.role = "selection" /\ task'.cand \in m.shortlist
    BY <2>1 DEF Unmeasured
  <2>3. mem'[Worker] = m /\ pc'[Worker] = "attempt"
    BY <1>4, <2>1
  <2> HIDE DEF m
  <2>4. TrainInv' /\ SelectInv'
    BY <1>1, <1>2, <2>1, <2>2, <2>3 DEF TrainInv, SelectInv, TaskLocs, m
  <2>5. ExposureBound' /\ PackageIsWhole'
    BY <1>1, <1>4, <2>1, <2>3, ArtifactsKept
  <2> QED
    BY <1>3, <1>4, <2>1, <2>4, <2>5 DEF RunInv
<1>6. CASE FinalistsDone
  <2>1. Goes("finalize") /\ pc[Worker] = "select" /\ package' = package
    BY <1>2, <1>6, GoesSteps DEF FinalistsDone, artifacts
  <2>2. \A c \in m.shortlist : Selected(c) \in results
    BY <1>6 DEF FinalistsDone, Unmeasured, Selected
  <2>3. mem'[Worker] = m /\ pc'[Worker] = "finalize"
    BY <1>4, <2>1
  <2> HIDE DEF m
  <2>4. freeze = m.shortlist /\ counter = "ours" /\ freeze # {}
    BY <1>2, <2>1 DEF SelectInv, ExposureBound, m
  <2>5. TrainInv'
    BY <2>3 DEF TrainInv, TaskLocs
  <2>6. SelectInv'
    BY <1>1, <2>2, <2>3, <2>4 DEF SelectInv, TaskLocs, Selected
  <2>7. ExposureBound' /\ PackageIsWhole'
    BY <1>1, <1>4, <2>1, <2>3, ArtifactsKept
  <2> QED
    BY <1>3, <1>4, <2>1, <2>5, <2>6, <2>7 DEF RunInv
<1>7. CASE WritePackage
  <2>1. Goes("complete") /\ pc[Worker] = "finalize" /\ task' = task
    BY <1>2, <1>7, GoesSteps DEF WritePackage
  <2>2. mem'[Worker] = m /\ pc'[Worker] = "complete"
    BY <1>4, <2>1
  <2>3. m.shortlist # None
    BY <1>2, NoneFacts DEF StateType
  <2> HIDE DEF m
  <2>4. /\ freeze = m.shortlist /\ freeze # None
        /\ counter = "ours" <=> freeze # {}
        /\ \A c \in freeze : Selected(c) \in results
    BY <1>2, <2>1, <2>3 DEF SelectInv, m
  <2>5. TrainInv'
    BY <2>2 DEF TrainInv, TaskLocs
  <2>6. SelectInv'
    BY <1>1, <2>2, <2>4 DEF SelectInv, TaskLocs, Selected
  <2>7. ExposureBound'
    BY <1>1, <1>2, <1>4, <2>1, <2>2 DEF ExposureBound
  <2>8. PackageIsWhole'
    BY <1>1, <2>4 DEF PackageIsWhole, Selected
  <2> QED
    BY <1>3, <1>4, <2>1, <2>5, <2>6, <2>7, <2>8 DEF RunInv
<1> QED
  BY <1>5, <1>6, <1>7

-----------------------------------------------------------------------------
(***************************************************************************)
(* The child of the worker.                                                *)
(***************************************************************************)

\* While it has a task, the worker journals s or takes it into memory.
LEMMA TaskKept ==
    ASSUME RunInv, TypeInv', pc[Worker] \in TaskLocs, NEW s \in StateType, Others(Worker),
           mem'[Worker] \in {mem[Worker], s}, state' \in {state, s},
           pc'[Worker] \in TaskLocs \ {"accepted"},
           UNCHANGED <<keyed, artifacts, counter, task>>,
           s.marks = mem[Worker].marks, SameRun(s, mem[Worker]),
           \A k \in Tasks : mem[Worker].attempts[k] <= s.attempts[k],
           s.child # None => Launched(s.child)',
           IF pc'[Worker] \in {"launched", "waiting"} THEN alive' \subseteq {Child'}
                                                       ELSE alive' = {},
           \A c \in alive' : c \in alive \/ ~Released(c),
           state' = state \/ s.stage \notin Blocked
    PROVE  RunInv'
<1> USE WorkerIs
<1> DEFINE m == mem[Worker]
           n == mem'[Worker]
<1>1. /\ TypeInv /\ m \in StateType /\ Backed(m) /\ "lineage" \in m.marks /\ Backed(state)
      /\ CountInv /\ TrainInv /\ SelectInv /\ BackedInv
      /\ UNCHANGED <<commitment, results, freeze, package>>
      /\ pc[Worker] \in Late
  BY RestIs DEF RunInv, Late, artifacts
<1>2. /\ pc'[Worker] \in Late /\ pc'[Worker] # "freeze batch"
      /\ pc'[Worker] \notin {"resumed", "supervise", "validate"}
  BY DEF Late, TaskLocs
<1>3. /\ n.accepted = m.accepted /\ n.marks = m.marks /\ n.shortlist = m.shortlist
      /\ n.batches = m.batches /\ n.completed = m.completed
      /\ \A k \in Tasks : m.attempts[k] <= n.attempts[k]
  BY <1>1 DEF SameRun, StateType
<1>4. \A c, d \in alive' : c = d
  OBVIOUS
<1>5. Known' \subseteq Known \cup {s} /\ StartInv' /\ CommitInv' /\ ChildInv' /\ BlockInv'
  BY <1>1, <1>2, <1>3, <1>4, LateKept
<1>6. Backed(s)'
  BY <1>1 DEF Backed, SameRun
<1>7. BackedInv'
  <2>1. Durable
    BY <1>1 DEF Durable
  <2> QED
    BY <1>1, <1>5, <1>6, <2>1, BackedKept
<1>8. ExposureBound' /\ PackageIsWhole'
  <2>1. state'.exposure = 1 => counter' = "ours"
    BY <1>1, <1>6 DEF Backed
  <2> QED
    BY <1>1, <1>2, <2>1, ArtifactsKept
<1>9. CountInv'
  BY <1>1, <1>2, <1>3, CountKept
<1> HIDE DEF m, n
<1>10. TrainInv'
  BY <1>1, <1>3 DEF TrainInv, TaskLocs, m, n
<1>11. SelectInv'
  BY <1>1, <1>3 DEF SelectInv, TaskLocs, m, n
<1> QED
  BY <1>5, <1>7, <1>8, <1>9, <1>10, <1>11 DEF RunInv

\* A new attempt is one that no state and no key names.
LEMMA AttemptKept ==
    ASSUME RunInv, Attempt
    PROVE  RunInv'
<1> DEFINE m == mem[Worker]
           c == [task |-> task, attempt |-> Attempts + 1]
<1>1. /\ pc[Worker] = "attempt" /\ pc[Worker] \in TaskLocs
      /\ pc[Worker] \in Late \ {"launched", "waiting"}
      /\ UNCHANGED <<keyed, artifacts, counter, task>>
      /\ UNCHANGED <<commitment, results, freeze, package>>
  BY DEF Attempt, Late, TaskLocs, artifacts
<1>2. /\ TypeInv /\ m \in StateType /\ alive = {} /\ task \in Tasks /\ ChildInv
      /\ m.child # None => Launched(m.child)
  BY <1>1, RestIs DEF RunInv, TypeInv
<1>3. TypeInv'
  BY <1>2, LaunchTyped
<1>4. CASE Goes("ended") /\ alive' = alive
  <2>1. Durable /\ "ended" \notin Late
    BY <1>1 DEF Durable, Late, TaskLocs
  <2>2. /\ StartInv' /\ CommitInv' /\ BackedInv' /\ ChildInv' /\ BlockInv'
        /\ pc'[Worker] = "ended"
        /\ state'.exposure = 1 => counter' = "ours"
    BY <1>1, <1>3, <1>4, <2>1, LateGoes
  <2>3. ExposureBound' /\ PackageIsWhole'
    BY <1>1, <2>2, ArtifactsKept
  <2>4. CountInv' /\ TrainInv' /\ SelectInv'
    <3>1. CountInv /\ TrainInv /\ SelectInv
      BY DEF RunInv
    <3> QED
      BY <1>1, <1>2, <2>1, <2>2, <3>1, ControlKept
  <2> QED
    BY <1>3, <2>2, <2>3, <2>4 DEF RunInv
<1>5. ASSUME Attempts # 2, state' = state, NEW l \in {"accept", "launched"},
             Moves(Worker, AttemptedOf(m, task), l),
             alive' = IF l = "launched" THEN alive \cup {c} ELSE alive
      PROVE  RunInv'
  <2>1. PICK s : s = AttemptedOf(m, task)
    OBVIOUS
  <2>2. /\ s \in StateType /\ s.marks = m.marks /\ SameRun(s, m) /\ s.child = m.child
        /\ \A k \in Tasks : m.attempts[k] <= s.attempts[k]
        /\ s.attempts[task] = m.attempts[task] + 1
    BY <1>2, <1>5, <2>1, AttemptedIs DEF Attempts
  <2>3. Others(Worker) /\ mem'[Worker] = s /\ pc'[Worker] = l /\ l \in TaskLocs \ {"accepted"}
    BY <1>5, <2>1 DEF Moves, TaskLocs
  <2>4. Child' = c
    BY <1>1, <2>2, <2>3 DEF Child, Attempts
  <2>5. ASSUME NEW d \in alive'
        PROVE  ~Released(d)
    <3>1. d = c /\ m.attempts[task] \in 0..2
      BY <1>2, <1>5, <2>5 DEF StateType
    <3>2. c \in Children
      BY <1>2, <1>5, <3>1 DEF Children, Attempts
    <3>3. ~Launched(c)
      BY <3>1 DEF Launched, Attempts
    <3>4. pc[Worker] \in Late
      BY <1>1
    <3> HIDE DEF c
    <3>5. ~Released(c)
      BY <1>2, <3>2, <3>3, <3>4 DEF ChildInv
    <3> QED
      BY <3>1, <3>5
  <2>6. s.child # None => Launched(s.child)'
    <3>1. m.child # None => m.child \in Children
      BY <1>2 DEF StateType
    <3>2. ASSUME NEW d \in Children, Launched(d)
          PROVE  Launched(d)'
      <4>1. /\ d.task \in Tasks /\ d.attempt \in Nat
            /\ m.attempts[d.task] \in Nat /\ s.attempts[d.task] \in Nat
            /\ m.attempts[d.task] <= s.attempts[d.task]
        BY <1>2, <2>2 DEF Children, StateType
      <4> QED
        BY <2>3, <3>2, <4>1 DEF Launched
    <3> QED
      BY <1>2, <2>2, <3>1, <3>2
  <2>7. IF pc'[Worker] \in {"launched", "waiting"} THEN alive' \subseteq {Child'} ELSE alive' = {}
    BY <1>2, <1>5, <2>3, <2>4
  <2> HIDE DEF c, m
  <2> QED
    BY <1>1, <1>3, <1>5, <2>2, <2>3, <2>5, <2>6, <2>7, TaskKept DEF m
<1> QED
  BY <1>2, <1>4, <1>5, ChildSteps

\* The journal names the child of the worker.
LEMMA BindKept ==
    ASSUME RunInv, BindChild
    PROVE  RunInv'
<1> DEFINE m == mem[Worker]
<1>1. /\ pc[Worker] = "launched" /\ pc[Worker] \in TaskLocs /\ pc[Worker] \in Late
      /\ UNCHANGED <<keyed, artifacts, counter, task, alive>>
  BY DEF BindChild, Late, TaskLocs, os
<1>2. TypeInv /\ m \in StateType /\ alive \subseteq {Child} /\ task \in Tasks /\ ChildInv
  BY <1>1, RestIs DEF RunInv, TypeInv, ChildInv
<1>3. TypeInv'
  BY <1>2, LaunchTyped
<1>4. PICK s : s = BoundOf(m, Child)
  OBVIOUS
<1>5. Child \in Children /\ state' = s /\ Moves(Worker, s, "waiting")
  BY <1>2, <1>4, ChildSteps
<1>6. /\ s \in StateType /\ s.stage = "candidate_child_active" /\ s.marks = m.marks
      /\ SameRun(s, m) /\ s.attempts = m.attempts /\ s.child = Child
  BY <1>2, <1>4, <1>5, BoundIs
<1>7. Others(Worker) /\ mem'[Worker] = s /\ pc'[Worker] = "waiting"
  BY <1>5 DEF Moves
<1>8. Child' = Child /\ Child.task = task /\ Child.attempt = m.attempts[task]
  BY <1>1, <1>6, <1>7 DEF Child, Attempts
<1>9. /\ "candidate_child_active" \notin Blocked /\ "waiting" \in TaskLocs \ {"accepted"}
      /\ \A k \in Tasks : m.attempts[k] <= s.attempts[k]
      /\ m.attempts[task] <= m.attempts[task]
  BY <1>2, <1>6 DEF Blocked, TaskLocs, StateType
<1>10. s.child # None => Launched(s.child)'
  BY <1>6, <1>7, <1>8, <1>9 DEF Launched
<1> HIDE DEF m
<1> QED
  BY <1>1, <1>2, <1>3, <1>5, <1>6, <1>7, <1>8, <1>9, <1>10, TaskKept DEF m

\* The child is gone: it ended, or was terminated.
LEMMA UnbindKept ==
    ASSUME RunInv, CannotBindChild \/ ChildFinished \/ ChildTimesOut
    PROVE  RunInv'
<1> DEFINE m == mem[Worker]
<1>1. /\ pc[Worker] \in {"launched", "waiting"} /\ pc[Worker] \in TaskLocs /\ pc[Worker] \in Late
      /\ UNCHANGED <<keyed, artifacts, counter, task>>
      /\ alive' = alive \ {Child}
  BY DEF CannotBindChild, ChildFinished, ChildTimesOut, Late, TaskLocs
<1>2. /\ TypeInv /\ m \in StateType /\ alive' = {} /\ ChildInv
      /\ m.child # None => Launched(m.child)
  BY <1>1, RestIs DEF RunInv, ChildInv
<1>3. TypeInv'
  BY <1>2, LaunchTyped
<1>4. ASSUME NEW s \in StateType, NEW l \in {"infra", "science", "collect"},
             Moves(Worker, s, l) \/ Moves(Worker, m, l), state' \in {state, s},
             s.marks = m.marks, SameRun(s, m), s.attempts = m.attempts, s.child \in {None, m.child},
             state' = state \/ s.stage \notin Blocked
      PROVE  RunInv'
  <2>1. /\ Others(Worker) /\ mem'[Worker] \in {m, s} /\ pc'[Worker] = l
        /\ l \in TaskLocs \ {"accepted", "launched", "waiting"}
    BY <1>4 DEF Moves, TaskLocs
  <2>2. \A k \in Tasks : m.attempts[k] <= s.attempts[k]
    BY <1>2, <1>4 DEF StateType
  <2>3. s.child # None => Launched(s.child)'
    BY <1>2, <1>4, <2>1 DEF Launched
  <2> HIDE DEF m
  <2> QED
    BY <1>1, <1>2, <1>3, <1>4, <2>1, <2>2, <2>3, TaskKept DEF m
<1>5. /\ {"candidate_child_finished", "candidate_timeout"} \subseteq Stages
      /\ {"candidate_child_finished", "candidate_timeout"} \cap Blocked = {}
  BY DEF Stages, Blocked
<1>6. CASE CannotBindChild
  <2>1. state' = state /\ Moves(Worker, m, "infra") /\ SameRun(m, m)
    BY <1>2, <1>6, ChildSteps DEF SameRun
  <2> QED
    BY <1>2, <1>4, <2>1
<1>7. ASSUME NEW stage \in {"candidate_child_finished", "candidate_timeout"},
             NEW l \in {"infra", "science", "collect"}, state' = UnboundOf(m, stage),
             Moves(Worker, UnboundOf(m, stage), l) \/ Moves(Worker, m, l)
      PROVE  RunInv'
  <2>1. PICK s : s = UnboundOf(m, stage)
    OBVIOUS
  <2>2. /\ s \in StateType /\ s.stage = stage /\ s.marks = m.marks
        /\ SameRun(s, m) /\ s.attempts = m.attempts /\ s.child = None
    BY <1>2, <1>5, <2>1, UnboundIs
  <2> QED
    BY <1>4, <1>5, <1>7, <2>1, <2>2
<1>8. ChildFinished => RunInv'
  BY <1>2, <1>7, ChildSteps
<1>9. ChildTimesOut => RunInv'
  BY <1>2, <1>7, ChildSteps
<1> QED
  BY <1>6, <1>8, <1>9

-----------------------------------------------------------------------------
(***************************************************************************)
(* The invariant, and what follows from it.                                *)
(***************************************************************************)

LEMMA InvInit == Init => RunInv
<1> SUFFICES ASSUME Init
             PROVE  RunInv
  OBVIOUS
<1> USE WorkerIs
<1>1. TypeInv
  BY TypeInit
<1>2. /\ pc[Worker] = "down" /\ state = None /\ keyed = {} /\ commitment = FALSE
      /\ results = {} /\ freeze = None /\ package = FALSE /\ counter = "free" /\ alive = {}
      /\ \A p \in Procs : pc[p] = "down" /\ mem[p] = None
  BY DEF Init
<1>3. Known = {} /\ "down" \notin Late \cup Setup
  BY <1>2 DEF Known, Late, Setup, TaskLocs
<1>4. CountInv /\ TrainInv /\ SelectInv
  BY <1>2, <1>3 DEF CountInv, TrainInv, SelectInv, Late, TaskLocs
<1>5. StartInv
  BY <1>2, <1>3 DEF StartInv
<1>6. CommitInv /\ ChildInv
  BY <1>2, <1>3 DEF CommitInv, Untouched, ChildInv, Released
<1>7. BackedInv /\ BlockInv
  BY <1>2, <1>3 DEF BackedInv, BlockInv
<1>8. ExposureBound /\ PackageIsWhole
  BY <1>2 DEF ExposureBound, PackageIsWhole
<1> QED
  BY <1>1, <1>4, <1>5, <1>6, <1>7, <1>8 DEF RunInv

LEMMA InvNext == RunInv /\ [Next]_vars => RunInv'
<1> SUFFICES ASSUME RunInv, [Next]_vars
             PROVE  RunInv'
  OBVIOUS
<1>1. CASE UNCHANGED vars
  BY <1>1, StutterKept
<1>2. CASE Next
  <2>1. CASE \/ Start \/ Resume \/ Supervise \/ Validate \/ RecordLineage \/ RegisterBase
             \/ WriteCommitment \/ JournalCommitment
    BY <2>1, StartsRun, ResumeKept, ValidateKept, SetupKept, WriteCommitmentKept, CommittedKept
  <2>2. CASE \/ NextCandidate \/ CompleteIteration \/ StopAtCheckpoint \/ PassCheckpoint
             \/ AcknowledgeStop \/ ProposeBatch \/ ProposerFails \/ FreezeBatch
             \/ FinishGeneration
    BY <2>2, LoopKept, IterationKept, StopKept, ProposerKept, FinishKept
  <2>3. CASE \/ Attempt \/ BindChild \/ CannotBindChild \/ ChildFinished \/ ChildTimesOut
             \/ CollectOutput \/ InfrastructureFailure \/ ScientificFailure \/ AcceptResult
             \/ JournalResult \/ ReproduceBaseline
    BY <2>3, AttemptKept, BindKept, UnbindKept, LoopKept, RetryKept, EndsKept, AcceptKept,
       ResultKept, ReproduceKept
  <2>4. CASE \/ DeriveShortlist \/ WriteFreeze \/ JournalFreeze \/ SwapCounter
             \/ JournalExposure \/ NextFinalist \/ FinalistsDone \/ WritePackage \/ Complete
    BY <2>4, ShortlistKept, WriteFreezeKept, JournalFreezeKept, SwapKept, JournalExposureKept,
       FinalistsKept, EndsKept
  <2>5. ASSUME NEW p \in Procs, \/ Load(p) \/ CheckChild(p) \/ QuarantineIndexes(p)
                                \/ ReconcileCounter(p) \/ Leave(p) \/ Crash(p)
        PROVE  RunInv'
    BY <2>5, LoadKept, CheckChildKept, QuarantineKept, ReconcileKept, VanishKept
  <2>6. CASE Outside
    BY <2>6, OutsideKept
  <2> QED
    BY <1>2, <2>1, <2>2, <2>3, <2>4, <2>5, <2>6, NextCases DEF Outside
<1> QED
  BY <1>1, <1>2

LEMMA RunInvHolds == Spec => []RunInv
BY InvInit, InvNext, PTL DEF Spec

\* The variables keep their types, whatever crashes and whichever commands run.
THEOREM TypeCorrect == Spec => []TypeOK
<1>1. RunInv => TypeOK
  BY DEF RunInv, TypeInv
<1> QED
  BY <1>1, RunInvHolds, PTL

\* What the journaled state says was accepted or done is an artifact, and stands
\* on what it must stand on, although a verify command may journal an old state.
THEOREM ResultsAreBacked == Spec => []AcceptedBacked
<1>1. RunInv => AcceptedBacked
  <2> SUFFICES ASSUME RunInv, state # None
               PROVE  /\ \A c \in state.accepted : [role |-> "train", cand |-> c] \in results
                      /\ state.accepted # {} => commitment
                      /\ "reproduction" \in state.marks => Baseline \in state.accepted
                      /\ state.accepted \ {Baseline} # {} => "reproduction" \in state.marks
                      /\ "frozen" \in state.marks =>
                            Base \subseteq state.accepted /\ freeze = state.shortlist
    BY DEF AcceptedBacked
  <2>1. state \in Known
    BY KnownIs DEF RunInv
  <2>2. Backed(state)
    BY <2>1 DEF RunInv, BackedInv
  <2>3. state.accepted # {} => commitment
    BY <2>1 DEF RunInv, CommitInv, Untouched
  <2> QED
    BY <2>2, <2>3 DEF Backed, Trained
<1> QED
  BY <1>1, RunInvHolds, PTL

\* The shared counter, the freeze receipt and the journal agree on the exposure.
THEOREM ExposureAgrees == Spec => []ExposureBound
<1>1. RunInv => ExposureBound
  BY DEF RunInv
<1> QED
  BY <1>1, RunInvHolds, PTL

\* No two candidate children run at a time, and none that was released.
THEOREM OneChildRuns == Spec => []ChildrenInHand
<1>1. RunInv => ChildrenInHand
  <2> SUFFICES ASSUME RunInv
               PROVE  ChildrenInHand
    OBVIOUS
  <2>1. Cardinality(alive) <= 1
    <3>1. \A c, d \in alive : c = d
      BY DEF RunInv, ChildInv
    <3>2. CASE alive = {}
      BY <3>2, FS_EmptySet
    <3>3. CASE alive # {}
      <4>1. PICK c \in alive : alive = {c}
        BY <3>1, <3>3
      <4> QED
        BY <4>1, FS_Singleton
    <3> QED
      BY <3>2, <3>3
  <2>2. \A c \in alive : \A e \in keyed : e.key # <<"released", c>>
    BY DEF RunInv, ChildInv, Released
  <2> QED
    BY <2>1, <2>2 DEF ChildrenInHand
<1> QED
  BY <1>1, RunInvHolds, PTL

\* The package is that of a run whose finalists were all measured.
THEOREM PackagesAreWhole == Spec => []PackageIsWhole
<1>1. RunInv => PackageIsWhole
  BY DEF RunInv
<1> QED
  BY <1>1, RunInvHolds, PTL

\* While no verify command is under way, a blocked run stays as it is: a worker
\* that journaled a block ends, and none that starts later takes it up.
THEOREM BlocksStay == Spec => BlockedStays
<1>1. ASSUME RunInv, [Next]_vars, state # None, ~Validating, state.stage \in Blocked
      PROVE  state' = state
  <2>1. pc[Worker] \in {"down", "ended"}
    BY <1>1 DEF RunInv, BlockInv
  <2>2. ASSUME NEW p \in Procs
        PROVE  pc[p] \notin {"child", "index", "counter"}
    BY <1>1, <2>1, WorkerIs DEF Validating
  <2>3. CASE UNCHANGED vars
    BY <2>3 DEF vars
  <2>4. ASSUME NEW p \in Procs, \/ Load(p) \/ CheckChild(p) \/ QuarantineIndexes(p)
                                \/ ReconcileCounter(p) \/ Leave(p) \/ Crash(p)
        PROVE  state' = state
    BY <2>2, <2>4 DEF Load, CheckChild, QuarantineIndexes, ReconcileCounter, Leave, Crash
  <2>5. CASE Outside
    BY <1>1, <2>5, OutsideIs DEF RunInv
  <2>6. /\ ~Start /\ ~Resume /\ ~Supervise /\ ~Validate /\ ~RecordLineage /\ ~RegisterBase
        /\ ~WriteCommitment /\ ~JournalCommitment
    BY <1>1, <2>1 DEF Start, Resume, Supervise, Validate, RecordLineage, RegisterBase,
       WriteCommitment, JournalCommitment
  <2>7. /\ ~NextCandidate /\ ~CompleteIteration /\ ~StopAtCheckpoint /\ ~PassCheckpoint
        /\ ~AcknowledgeStop /\ ~ProposeBatch /\ ~ProposerFails /\ ~FreezeBatch
        /\ ~FinishGeneration
    BY <2>1 DEF NextCandidate, CompleteIteration, StopAtCheckpoint, PassCheckpoint,
       AcknowledgeStop, ProposeBatch, ProposerFails, FreezeBatch, FinishGeneration, LoopHead
  <2>8. /\ ~Attempt /\ ~BindChild /\ ~CannotBindChild /\ ~ChildFinished /\ ~ChildTimesOut
        /\ ~CollectOutput /\ ~InfrastructureFailure /\ ~ScientificFailure /\ ~AcceptResult
        /\ ~JournalResult /\ ~ReproduceBaseline
    BY <2>1 DEF Attempt, BindChild, CannotBindChild, ChildFinished, ChildTimesOut,
       CollectOutput, InfrastructureFailure, ScientificFailure, AcceptResult, JournalResult,
       ReproduceBaseline
  <2>9. /\ ~DeriveShortlist /\ ~WriteFreeze /\ ~JournalFreeze /\ ~SwapCounter
        /\ ~JournalExposure /\ ~NextFinalist /\ ~FinalistsDone /\ ~WritePackage /\ ~Complete
    BY <2>1 DEF DeriveShortlist, WriteFreeze, JournalFreeze, SwapCounter, JournalExposure,
       NextFinalist, FinalistsDone, WritePackage, Complete
  <2> QED
    BY <1>1, <2>3, <2>4, <2>5, <2>6, <2>7, <2>8, <2>9, NextCases DEF Outside
<1>2. RunInv /\ [Next]_vars =>
         [state # None /\ ~Validating => (state.stage \in Blocked => state' = state)]_vars
  BY <1>1
<1> QED
  BY <1>2, RunInvHolds, PTL DEF Spec, BlockedStays

-----------------------------------------------------------------------------
(***************************************************************************)
(* The run implements the freeze barrier.                                  *)
(***************************************************************************)

\* What the barrier sees of a run.
Outcome == [c \in Candidates |-> Trained(c) \in results]
Revealed == {c \in Candidates : Selected(c) \in results}

LEMMA BarrierInit == Init => Barrier!Init
<1> SUFFICES ASSUME Init
             PROVE  Barrier!Init
  OBVIOUS
<1>1. commitment = FALSE /\ results = {} /\ freeze = None /\ counter = "free"
  BY DEF Init
<1>2. \A c \in Candidates : ([role |-> "train", cand |-> c] \in results) = FALSE
  BY <1>1
<1>3. {c \in Candidates : [role |-> "selection", cand |-> c] \in results} = {}
  BY <1>1
<1>4. (freeze # None) = FALSE
  BY <1>1
<1> QED
  BY <1>1, <1>2, <1>3, <1>4 DEF Barrier!Init

\* The steps that the barrier does not see.
LEMMA BarrierStutters ==
    ASSUME UNCHANGED <<commitment, results, freeze>>, counter' = "ours" <=> counter = "ours"
    PROVE  UNCHANGED Barrier!vars
<1>1. UNCHANGED Outcome /\ UNCHANGED Revealed
  BY DEF Outcome, Revealed
<1> QED
  BY <1>1 DEF Barrier!vars, Outcome, Revealed, Trained, Selected

\* The artifacts are written by the four steps that the barrier sees.
LEMMA ArtifactsStay ==
    ASSUME RunInv, [Next]_vars, ~WriteCommitment, ~AcceptResult, ~WriteFreeze, ~SwapCounter
    PROVE  /\ UNCHANGED <<commitment, results, freeze>>
           /\ counter' = "ours" <=> counter = "ours"
<1> USE DEF artifacts
<1>1. CASE UNCHANGED vars
  BY <1>1 DEF vars
<1>2. CASE Outside
  BY <1>2, OutsideIs DEF RunInv
<1>3. ASSUME NEW p \in Procs, \/ Load(p) \/ CheckChild(p) \/ QuarantineIndexes(p)
                              \/ ReconcileCounter(p) \/ Leave(p) \/ Crash(p)
      PROVE  UNCHANGED <<commitment, results, freeze, counter>>
  BY <1>3 DEF Load, CheckChild, QuarantineIndexes, ReconcileCounter, Leave, Crash
<1>4. CASE \/ Start \/ Resume \/ Supervise \/ Validate \/ RecordLineage \/ RegisterBase
           \/ JournalCommitment \/ NextCandidate \/ CompleteIteration \/ StopAtCheckpoint
           \/ PassCheckpoint \/ AcknowledgeStop \/ ProposeBatch \/ ProposerFails \/ FreezeBatch
           \/ FinishGeneration
  BY <1>4 DEF Start, Resume, Supervise, Validate, RecordLineage, RegisterBase,
     JournalCommitment, NextCandidate, CompleteIteration, StopAtCheckpoint, PassCheckpoint,
     AcknowledgeStop, ProposeBatch, ProposerFails, FreezeBatch, FinishGeneration
<1>5. CASE \/ Attempt \/ BindChild \/ CannotBindChild \/ ChildFinished \/ ChildTimesOut
           \/ CollectOutput \/ InfrastructureFailure \/ ScientificFailure \/ JournalResult
           \/ ReproduceBaseline \/ DeriveShortlist \/ JournalFreeze \/ JournalExposure
           \/ NextFinalist \/ FinalistsDone \/ WritePackage \/ Complete
  BY <1>5 DEF Attempt, BindChild, CannotBindChild, ChildFinished, ChildTimesOut,
     CollectOutput, InfrastructureFailure, ScientificFailure, JournalResult, ReproduceBaseline,
     DeriveShortlist, JournalFreeze, JournalExposure, NextFinalist, FinalistsDone, WritePackage,
     Complete
<1> QED
  BY <1>1, <1>2, <1>3, <1>4, <1>5, NextCases DEF Outside

\* Commit: nothing was measured before the commitment is written.
LEMMA CommitSeen ==
    ASSUME RunInv, WriteCommitment
    PROVE  Barrier!Commit \/ UNCHANGED Barrier!vars
<1>1. /\ UNCHANGED <<results, freeze, counter>> /\ commitment \in BOOLEAN
      /\ commitment' = commitment \/ (~commitment /\ commitment')
  BY DEF WriteCommitment, RunInv, TypeInv, TypeOK
<1>2. CASE commitment' = commitment
  BY <1>1, <1>2, BarrierStutters
<1>3. CASE ~commitment /\ commitment'
  <2>1. results = {}
    BY <1>3 DEF RunInv, CommitInv, Untouched
  <2>2. Barrier!Measured = {}
    <3>1. \A c \in Candidates : ([role |-> "train", cand |-> c] \in results) = FALSE
      BY <2>1
    <3> QED
      BY <3>1 DEF Barrier!Measured
  <2>3. UNCHANGED Outcome /\ UNCHANGED Revealed
    BY <1>1 DEF Outcome, Revealed
  <2>4. commitment = FALSE /\ commitment' = TRUE
    BY <1>1, <1>3 DEF WriteCommitment
  <2> QED
    BY <1>1, <2>2, <2>3, <2>4
       DEF Barrier!Commit, Outcome, Revealed, Trained, Selected
<1> QED
  BY <1>1, <1>2, <1>3

LEMMA OutcomeGrows ==
    ASSUME NEW c \in Candidates, Trained(c) \notin results, results' = results \cup {Trained(c)}
    PROVE  Outcome' = [Outcome EXCEPT ![c] = TRUE] /\ Outcome[c] = FALSE
<1> DEFINE new == [d \in Candidates |-> (Trained(d) \in results) \/ d = c]
<1>1. ASSUME NEW d \in Candidates
      PROVE  ((Trained(d) \in results) \/ d = c)
                = (IF d = c THEN TRUE ELSE Trained(d) \in results)
  <2>1. CASE d = c
    BY <2>1
  <2>2. CASE d # c
    BY <2>2
  <2> QED
    BY <2>1, <2>2
<1>2. [Outcome EXCEPT ![c] = TRUE] = new
  <2>1. new = [d \in Candidates |-> IF d = c THEN TRUE ELSE Trained(d) \in results]
    BY <1>1
  <2>2. \A d \in Candidates : Outcome[d] = (Trained(d) \in results)
    BY DEF Outcome
  <2>3. [Outcome EXCEPT ![c] = TRUE]
           = [d \in Candidates |-> IF d = c THEN TRUE ELSE Outcome[d]]
    BY DEF Outcome
  <2> QED
    BY <2>1, <2>2, <2>3
<1>3. Outcome' = new
  <2>1. \A d \in Candidates : Trained(d) = Trained(c) <=> d = c
    BY DEF Trained
  <2>2. \A d \in Candidates : (Trained(d) \in results') = ((Trained(d) \in results) \/ d = c)
    BY <2>1
  <2>3. Outcome' = [d \in Candidates |-> Trained(d) \in results']
    BY DEF Outcome
  <2> QED
    BY <2>2, <2>3
<1>4. Outcome[c] = FALSE
  <2>1. (Trained(c) \in results) = FALSE
    OBVIOUS
  <2> QED
    BY <2>1 DEF Outcome
<1> QED
  BY <1>2, <1>3, <1>4

\* Measure and Reveal: a train result before the freeze, and the result of a
\* finalist once the counter is taken.
LEMMA ResultSeen ==
    ASSUME RunInv, AcceptResult
    PROVE  \/ \E c \in Candidates : Barrier!Measure(c) \/ Barrier!Reveal(c)
           \/ UNCHANGED Barrier!vars
<1>1. /\ pc[Worker] = "accept" /\ pc[Worker] \in Late /\ pc[Worker] \in TaskLocs
      /\ UNCHANGED <<commitment, freeze, counter>>
      /\ results' = results \/ (task \notin results /\ results' = results \cup {task})
  BY DEF AcceptResult, Late, TaskLocs
<1>2. /\ task \in Tasks /\ commitment = TRUE /\ TrainInv /\ SelectInv /\ mem[Worker] \in StateType
  BY <1>1, RestIs DEF RunInv, TypeInv, TypeOK, CommitInv
<1>3. CASE results' = results
  BY <1>1, <1>3, BarrierStutters
<1>4. CASE task \notin results /\ results' = results \cup {task}
  <2>1. PICK c \in Candidates : c = task.cand /\ (task = Trained(c) \/ task = Selected(c))
    BY <1>2 DEF Tasks, Roles, Trained, Selected
  <2>2. \A d \in Candidates : /\ Trained(d) # Selected(c) /\ Selected(d) # Trained(c)
                              /\ Trained(d) = Trained(c) <=> d = c
                              /\ Selected(d) = Selected(c) <=> d = c
    BY DEF Trained, Selected
  <2>3. CASE task = Trained(c)
    <3>1. freeze = None
      BY <1>1, <1>2, <2>3 DEF TrainInv, Trained
    <3>2. Outcome' = [Outcome EXCEPT ![c] = TRUE] /\ Outcome[c] = FALSE
      BY <1>4, <2>3, OutcomeGrows
    <3>3. UNCHANGED Revealed
      <4>1. \A d \in Candidates : Selected(d) \in results' <=> Selected(d) \in results
        BY <1>4, <2>2, <2>3
      <4> QED
        BY <4>1 DEF Revealed
    <3>4. Barrier!Measure(c)
      BY <1>1, <1>2, <2>1, <3>1, <3>2, <3>3
         DEF Barrier!Measure, Outcome, Revealed, Trained, Selected
    <3> QED
      BY <2>1, <3>4
  <2>4. CASE task = Selected(c)
    <3>1. counter = "ours" /\ freeze = mem[Worker].shortlist /\ c \in freeze /\ freeze # None
      BY <1>1, <1>2, <2>4, NoneFacts DEF SelectInv, Selected, StateType
    <3>2. Revealed' = Revealed \cup {c} /\ c \notin Revealed
      <4>1. \A d \in Candidates : Selected(d) \in results' <=> Selected(d) \in results \/ d = c
        BY <1>4, <2>1, <2>2, <2>4
      <4> QED
        BY <1>4, <2>1, <2>4, <4>1 DEF Revealed
    <3>3. UNCHANGED Outcome
      <4>1. \A d \in Candidates : Trained(d) \in results' <=> Trained(d) \in results
        BY <1>4, <2>2, <2>4
      <4>2. Outcome' = [d \in Candidates |-> Trained(d) \in results']
        BY DEF Outcome
      <4> QED
        BY <4>1, <4>2 DEF Outcome
    <3>4. Barrier!Reveal(c)
      BY <1>1, <2>1, <3>1, <3>2, <3>3
         DEF Barrier!Reveal, Outcome, Revealed, Trained, Selected
    <3> QED
      BY <2>1, <3>4
  <2> QED
    BY <2>1, <2>3, <2>4
<1> QED
  BY <1>1, <1>3, <1>4

\* Freeze: the finalists are measured candidates.
LEMMA FreezeSeen ==
    ASSUME RunInv, WriteFreeze
    PROVE  Barrier!Freeze
<1>1. /\ pc[Worker] = "freeze" /\ pc[Worker] \in Late /\ freeze' = mem[Worker].shortlist
      /\ UNCHANGED <<commitment, results, counter>>
  BY DEF WriteFreeze, Late
<1>2. /\ freeze = None /\ commitment = TRUE /\ mem[Worker] \in StateType /\ Backed(mem[Worker])
  BY <1>1, RestIs DEF RunInv, TypeInv, TypeOK, CommitInv, TrainInv
<1>3. /\ freeze' # None /\ freeze' \subseteq Candidates
      /\ \A c \in freeze' : Trained(c) \in results
  BY <1>1, <1>2, NoneFacts DEF Backed, StateType
<1>4. freeze' \subseteq Barrier!Measured
  BY <1>3 DEF Barrier!Measured, Trained
<1>5. UNCHANGED Outcome /\ UNCHANGED Revealed
  BY <1>1 DEF Outcome, Revealed
<1> QED
  BY <1>1, <1>2, <1>3, <1>4, <1>5 DEF Barrier!Freeze, Outcome, Revealed, Trained, Selected

\* Expose: the counter is taken once, for frozen finalists.
LEMMA ExposeSeen ==
    ASSUME RunInv, SwapCounter
    PROVE  Barrier!Expose \/ UNCHANGED Barrier!vars
<1>1. /\ pc[Worker] = "expose" /\ pc[Worker] \in Late
      /\ UNCHANGED <<commitment, results, freeze>>
      /\ counter' = counter \/ (counter = "free" /\ counter' = "ours")
  BY DEF SwapCounter, Late, artifacts
<1>2. /\ freeze = mem[Worker].shortlist /\ freeze # {} /\ freeze # None
  BY <1>1, RestIs, NoneFacts DEF RunInv, SelectInv, StateType
<1>3. UNCHANGED Outcome /\ UNCHANGED Revealed
  BY <1>1 DEF Outcome, Revealed
<1>4. CASE counter = "free" /\ counter' = "ours"
  BY <1>1, <1>2, <1>3, <1>4 DEF Barrier!Expose, Outcome, Revealed, Trained, Selected
<1>5. CASE counter' = counter
  BY <1>1, <1>5, BarrierStutters
<1> QED
  BY <1>1, <1>4, <1>5

LEMMA BarrierNext == RunInv /\ [Next]_vars => [Barrier!Next]_(Barrier!vars)
<1> SUFFICES ASSUME RunInv, [Next]_vars
             PROVE  Barrier!Next \/ UNCHANGED Barrier!vars
  OBVIOUS
<1>1. CASE WriteCommitment
  BY <1>1, CommitSeen DEF Barrier!Next
<1>2. CASE AcceptResult
  BY <1>2, ResultSeen DEF Barrier!Next
<1>3. CASE WriteFreeze
  BY <1>3, FreezeSeen DEF Barrier!Next
<1>4. CASE SwapCounter
  BY <1>4, ExposeSeen DEF Barrier!Next
<1>5. CASE ~WriteCommitment /\ ~AcceptResult /\ ~WriteFreeze /\ ~SwapCounter
  BY <1>5, ArtifactsStay, BarrierStutters
<1> QED
  BY <1>1, <1>2, <1>3, <1>4, <1>5

\* The artifacts and the counter of a measured run keep the freeze barrier,
\* through crashes, resumes and the other commands.
THEOREM BarrierCorrect == Spec => BarrierSpec
BY InvInit, InvNext, BarrierInit, BarrierNext, PTL DEF Spec, BarrierSpec, Barrier!Spec

-----------------------------------------------------------------------------
(***************************************************************************)
(* A worker never journals less than what the journal has, unless a verify *)
(* command journals an old state in between.                               *)
(***************************************************************************)

LEMMA AtLeastItself ==
    ASSUME NEW s \in StateType
    PROVE  AtLeast(s, s)
BY DEF AtLeast, StateType

LEMMA AtLeastThrough ==
    ASSUME NEW r \in StateType, NEW s \in StateType, NEW t \in StateType,
           AtLeast(r, s), AtLeast(s, t)
    PROVE  AtLeast(r, t)
BY DEF AtLeast, StateType

LEMMA SameReaches ==
    ASSUME NEW s \in StateType, NEW t \in StateType, SameRun(s, t), s.attempts = t.attempts,
           t.marks \subseteq s.marks
    PROVE  AtLeast(s, t)
BY DEF AtLeast, SameRun, StateType

\* The worker takes s into memory, journals it, or both.
Advances ==
    \E s \in StateType :
        /\ AtLeast(s, mem[Worker])
        /\ mem'[Worker] \in {mem[Worker], s}
        /\ state' \in {state, s}
        /\ state' = s => AtLeast(mem'[Worker], s)

LEMMA JournalsAdvances ==
    ASSUME NEW s, NEW l, Journals(s, l), AtLeast(s, mem[Worker])
    PROVE  Advances
BY AtLeastItself DEF Journals, Moves, Advances

LEMMA GoesAdvances ==
    ASSUME mem[Worker] \in StateType, NEW l, Goes(l), state # None,
           AtLeast(mem[Worker], state)
    PROVE  Advances
BY AtLeastItself DEF Goes, Moves, Advances

\* The worker of a validation: what it journals is what it loaded.
LEMMA ChecksAdvance ==
    ASSUME TypeInv, AtLeast(mem[Worker], state),
           \/ CheckChild(Worker) \/ QuarantineIndexes(Worker) \/ ReconcileCounter(Worker)
           \/ Validate
    PROVE  Advances
<1> USE WorkerIs
<1> DEFINE m == mem[Worker]
<1>1. /\ TypeOK /\ m \in StateType /\ state \in StateType /\ state # None
      /\ AtLeast(m, m)
  BY Holds, NoneFacts, AtLeastItself
     DEF CheckChild, QuarantineIndexes, ReconcileCounter, Validate, TypeInv
<1>2. ASSUME mem' = mem, state' \in {state, m}
      PROVE  Advances
  BY <1>1, <1>2 DEF Advances
<1>3. ASSUME NEW key, NEW s \in StateType, NEW l, JournalOnce(Worker, key, s, l), AtLeast(s, m)
      PROVE  Advances
  <2>1. mem' = [mem EXCEPT ![Worker] = s] /\ state' \in {state, s}
    BY <1>3 DEF JournalOnce, Journal, Hold
  <2>2. mem'[Worker] = s
    BY <1>1, <2>1 DEF TypeOK
  <2> QED
    BY <1>3, <2>1, <2>2, AtLeastItself DEF Advances
<1>4. CASE CheckChild(Worker)
  <2>1. ReleasedOf(m) \in StateType /\ AtLeast(ReleasedOf(m), m)
    <3>1. PICK s : s = ReleasedOf(m)
      OBVIOUS
    <3>2. s \in StateType /\ SameRun(s, m) /\ s.attempts = m.attempts /\ m.marks \subseteq s.marks
      BY <1>1, <3>1, ReleasedIs
    <3> HIDE DEF m
    <3> QED
      BY <1>1, <3>1, <3>2, SameReaches
  <2>2. \/ mem' = mem /\ state' = state
        \/ JournalOnce(Worker, <<"released", m.child>>, ReleasedOf(m), "index")
    BY <1>4 DEF CheckChild, ReleasedOf
  <2> QED
    BY <1>2, <1>3, <2>1, <2>2
<1>5. CASE QuarantineIndexes(Worker)
  <2>1. mem' = mem /\ state' \in {state, m}
    BY <1>1, <1>5 DEF QuarantineIndexes, Journal, Hold, TypeOK
  <2> QED
    BY <1>2, <2>1
<1>6. CASE ReconcileCounter(Worker)
  <2>1. ReconciledOf(m) \in StateType /\ AtLeast(ReconciledOf(m), m)
    <3>1. PICK s : s = ReconciledOf(m)
      OBVIOUS
    <3>2. /\ s \in StateType /\ s.marks = m.marks /\ s.accepted = m.accepted
          /\ s.batches = m.batches /\ s.completed = m.completed /\ s.exposure = 1
          /\ s.attempts = m.attempts
      BY <1>1, <3>1, ReconciledIs DEF SameTask
    <3> QED
      BY <1>1, <3>1, <3>2 DEF AtLeast, StateType
  <2>2. \/ mem' = mem /\ state' = state
        \/ JournalOnce(Worker, <<"reconciled">>, ReconciledOf(m), Validated(Worker))
    BY <1>6 DEF ReconcileCounter, ReconciledOf
  <2> QED
    BY <1>2, <1>3, <2>1, <2>2
<1>7. CASE Validate
  <2>1. PICK s : s = At(m, "validating_owner_inputs")
    OBVIOUS
  <2>2. s \in StateType /\ AtLeast(s, m)
    <3>1. "validating_owner_inputs" \in Stages
      BY DEF Stages
    <3>2. s \in StateType /\ SameRun(s, m) /\ s.attempts = m.attempts /\ m.marks \subseteq s.marks
      BY <1>1, <2>1, <3>1, AtIs DEF SameTask
    <3> HIDE DEF m
    <3> QED
      BY <1>1, <3>2, SameReaches
  <2>3. JournalOnce(Worker, <<"validating">>, s, "lineage")
    BY <1>7, <2>1 DEF Validate
  <2> QED
    BY <1>3, <2>2, <2>3
<1> QED
  BY <1>4, <1>5, <1>6, <1>7

\* A journaled state that differs in its stage, its marks or its reason.
LEMMA StagesAdvance ==
    ASSUME TypeInv, AtLeast(mem[Worker], state), NEW s, NEW l, Journals(s, l),
           mem[Worker] \in StateType,
           SameRun(s, mem[Worker]), SameTask(s, mem[Worker]), mem[Worker].marks \subseteq s.marks
    PROVE  Advances
<1>1. s \in StateType /\ s.attempts = mem[Worker].attempts
  BY DEF Journals, SameTask
<1>2. AtLeast(s, mem[Worker])
  BY <1>1, SameReaches
<1> QED
  BY <1>2, JournalsAdvances

LEMMA SetupAdvances ==
    ASSUME TypeInv, AtLeast(mem[Worker], state),
           \/ Resume \/ Supervise \/ RecordLineage \/ RegisterBase \/ WriteCommitment
           \/ JournalCommitment
    PROVE  Advances
<1> USE WorkerIs
<1> DEFINE m == mem[Worker]
<1>1. m \in StateType /\ state # None
  <2>1. pc[Worker] # "down"
    BY DEF Resume, Supervise, RecordLineage, RegisterBase, WriteCommitment, JournalCommitment
  <2> QED
    BY <2>1, Holds, NoneFacts
<1>2. /\ {"supervisor_ready", "owner_inputs_validated", "base_registered", "baseline_committed"}
            \subseteq Stages
      /\ {"lineage", "base", "commitment"} \subseteq Marks
  BY DEF Stages, Marks
<1>3. ASSUME NEW s, NEW l, Journals(s, l), SameRun(s, m), SameTask(s, m), m.marks \subseteq s.marks
      PROVE  Advances
  BY <1>1, <1>3, StagesAdvance
<1>4. ASSUME NEW l, Goes(l)
      PROVE  Advances
  BY <1>1, <1>4, GoesAdvances
<1>5. ASSUME NEW mark \in Marks, NEW stage \in Stages, NEW l, Journals(Mark(m, mark, stage), l)
      PROVE  Advances
  <2>1. PICK s : s = Mark(m, mark, stage)
    OBVIOUS
  <2>2. s.marks = m.marks \cup {mark} /\ SameRun(s, m) /\ SameTask(s, m)
    BY <1>1, <2>1, MarkIs
  <2> HIDE DEF m
  <2> QED
    BY <1>3, <1>5, <2>1, <2>2
<1>6. CASE Resume
  <2>1. CASE Goes("supervise")
    BY <1>4, <2>1
  <2>2. CASE Journals(ResumedOf(m), "supervise")
    <3>1. PICK s : s = ResumedOf(m)
      OBVIOUS
    <3>2. s.marks = m.marks /\ SameRun(s, m) /\ SameTask(s, m)
      BY <1>1, <3>1, ResumedIs
    <3> HIDE DEF m
    <3> QED
      BY <1>3, <2>2, <3>1, <3>2
  <2> QED
    BY <1>6, <2>1, <2>2, ChoiceSteps
<1>7. CASE Supervise
  <2>1. PICK s : s = At(m, "supervisor_ready")
    OBVIOUS
  <2>2. s.marks = m.marks /\ SameRun(s, m) /\ SameTask(s, m)
    BY <1>1, <1>2, <2>1, AtIs
  <2>3. Journals(s, "validate")
    BY <1>7, <2>1, JournalSteps
  <2> HIDE DEF m
  <2> QED
    BY <1>3, <2>2, <2>3
<1>8. RecordLineage => Advances
  BY <1>2, <1>5, JournalSteps
<1>9. RegisterBase => Advances
  BY <1>2, <1>4, <1>5, ChoiceSteps
<1>10. WriteCommitment => Advances
  BY <1>4, GoesSteps
<1>11. JournalCommitment => Advances
  BY <1>2, <1>5, JournalSteps
<1> QED
  BY <1>6, <1>7, <1>8, <1>9, <1>10, <1>11

LEMMA LoopAdvances ==
    ASSUME TypeInv, AtLeast(mem[Worker], state),
           \/ NextCandidate \/ CompleteIteration \/ StopAtCheckpoint \/ PassCheckpoint
           \/ AcknowledgeStop \/ ProposeBatch \/ FreezeBatch \/ FinishGeneration
    PROVE  Advances
<1> USE WorkerIs
<1> DEFINE m == mem[Worker]
<1>1. m \in StateType /\ state # None
  <2>1. pc[Worker] # "down"
    BY DEF NextCandidate, CompleteIteration, StopAtCheckpoint, PassCheckpoint, AcknowledgeStop,
       ProposeBatch, FreezeBatch, FinishGeneration, LoopHead
  <2> QED
    BY <2>1, Holds, NoneFacts
<1>2. (\E l : Goes(l)) => Advances
  BY <1>1, GoesAdvances
<1>3. NextCandidate \/ PassCheckpoint \/ AcknowledgeStop \/ ProposeBatch => Advances
  BY <1>2, GoesSteps
<1>4. CASE CompleteIteration
  <2>1. PICK s : s = CompletedOf(m)
    OBVIOUS
  <2>2. /\ s \in StateType /\ s.marks = m.marks /\ s.accepted = m.accepted
        /\ s.batches = m.batches /\ s.completed = m.completed + 1 /\ s.exposure = m.exposure
        /\ s.attempts = m.attempts
    BY <1>1, <2>1, CompletedIs DEF SameTask
  <2>3. Journals(s, "next")
    BY <1>4, <2>1, JournalSteps
  <2> HIDE DEF m
  <2>4. AtLeast(s, m)
    BY <1>1, <2>2 DEF AtLeast, StateType
  <2> QED
    BY <2>3, <2>4, JournalsAdvances DEF m
<1>5. CASE FreezeBatch
  <2>1. PICK s : s = BatchedOf(m)
    OBVIOUS
  <2>2. /\ s \in StateType /\ s.marks = m.marks /\ s.accepted = m.accepted
        /\ s.batches = m.batches + 1 /\ s.completed = m.completed /\ s.exposure = m.exposure
        /\ s.attempts = m.attempts
    BY <1>1, <2>1, BatchedIs DEF SameTask
  <2>3. Journals(s, "next")
    BY <1>5, <2>1, JournalSteps
  <2> HIDE DEF m
  <2>4. AtLeast(s, m)
    BY <1>1, <2>2 DEF AtLeast, StateType
  <2> QED
    BY <2>3, <2>4, JournalsAdvances DEF m
<1>6. CASE StopAtCheckpoint
  <2>1. PICK s : s = StoppedOf(m)
    OBVIOUS
  <2>2. s.marks = m.marks /\ SameRun(s, m) /\ SameTask(s, m)
    BY <1>1, <2>1, StoppedIs
  <2>3. Journals(s, "acknowledge")
    BY <1>6, <2>1, JournalSteps
  <2> HIDE DEF m
  <2> QED
    BY <1>1, <2>2, <2>3, StagesAdvance DEF m
<1>7. CASE FinishGeneration
  <2>1. PICK r \in Reasons : Journals(GeneratedOf(m, r), "shortlist")
    BY <1>7, ChoiceSteps
  <2>2. PICK s : s = GeneratedOf(m, r)
    OBVIOUS
  <2>3. s.marks = m.marks \cup {"generated"} /\ SameRun(s, m) /\ SameTask(s, m)
    BY <1>1, <2>2, GeneratedIs
  <2> HIDE DEF m
  <2> QED
    BY <1>1, <2>1, <2>2, <2>3, StagesAdvance DEF m
<1> QED
  BY <1>3, <1>4, <1>5, <1>6, <1>7

LEMMA TaskAdvances ==
    ASSUME TypeInv, AtLeast(mem[Worker], state),
           \/ Attempt \/ BindChild \/ CannotBindChild \/ ChildFinished \/ ChildTimesOut
           \/ CollectOutput \/ InfrastructureFailure \/ ScientificFailure \/ AcceptResult
           \/ JournalResult \/ ReproduceBaseline
    PROVE  Advances
<1> USE WorkerIs
<1> DEFINE m == mem[Worker]
<1>1. m \in StateType /\ state # None
  <2>1. pc[Worker] # "down"
    BY DEF Attempt, BindChild, CannotBindChild, ChildFinished, ChildTimesOut, CollectOutput,
       InfrastructureFailure, ScientificFailure, AcceptResult, JournalResult, ReproduceBaseline
  <2> QED
    BY <2>1, Holds, NoneFacts
<1>2. (\E l : Goes(l)) => Advances
  BY <1>1, GoesAdvances
<1>3. ASSUME NEW stage \in Stages, NEW l, Journals(At(m, stage), l)
      PROVE  Advances
  <2>1. PICK s : s = At(m, stage)
    OBVIOUS
  <2>2. s.marks = m.marks /\ SameRun(s, m) /\ SameTask(s, m)
    BY <1>1, <2>1, AtIs
  <2>3. Journals(s, l)
    BY <1>3, <2>1
  <2> HIDE DEF m
  <2> QED
    BY <1>1, <2>2, <2>3, StagesAdvance DEF m
<1>4. {"blocked_infrastructure", "retry_pending", "blocked_scientific", "blocked_budget",
       "selection_candidate_completed", "candidate_child_finished", "candidate_timeout",
       "baseline_reproduced"} \subseteq Stages
  BY DEF Stages, Blocked
<1>5. InfrastructureFailure => Advances
  BY <1>3, <1>4, ChoiceSteps
<1>6. ScientificFailure => Advances
  BY <1>3, <1>4, JournalSteps
<1>7. AcceptResult => Advances
  BY <1>2, <1>3, <1>4, ChoiceSteps
<1>8. CollectOutput => Advances
  BY <1>2, GoesSteps
<1>9. ASSUME NEW mark \in Marks, NEW stage \in Stages, NEW l, Journals(Mark(m, mark, stage), l)
       PROVE  Advances
  <2>1. PICK s : s = Mark(m, mark, stage)
    OBVIOUS
  <2>2. s.marks = m.marks \cup {mark} /\ SameRun(s, m) /\ SameTask(s, m)
    BY <1>1, <2>1, MarkIs
  <2>3. Journals(s, l)
    BY <1>9, <2>1
  <2> HIDE DEF m
  <2> QED
    BY <1>1, <2>2, <2>3, StagesAdvance DEF m
<1>10. CASE ReproduceBaseline
  <2>1. CASE Goes("ended")
    BY <1>2, <2>1
  <2>2. CASE Journals(Mark(m, "reproduction", "baseline_reproduced"), "checkpoint")
    <3>1. "reproduction" \in Marks /\ "baseline_reproduced" \in Stages
      BY <1>4 DEF Marks
    <3> QED
      BY <1>9, <2>2, <3>1
  <2> QED
    BY <1>10, <2>1, <2>2, ChoiceSteps
<1>11. CASE JournalResult
  <2>1. CASE task.role = "train"
    <3>1. PICK s, l : /\ s = AcceptedOf(m, task.cand)
                      /\ l = IF task.cand = Baseline THEN "reproduce" ELSE "checkpoint"
      OBVIOUS
    <3>2. Journals(s, l) /\ task.cand \in Candidates
      BY <1>11, <2>1, <3>1, ResultSteps
    <3>3. /\ s \in StateType /\ s.marks = m.marks /\ m.accepted \subseteq s.accepted
          /\ s.batches = m.batches /\ s.completed = m.completed /\ s.exposure = m.exposure
          /\ s.attempts = m.attempts
      BY <1>1, <3>1, <3>2, AcceptedIs DEF SameTask
    <3> HIDE DEF m
    <3>4. AtLeast(s, m)
      BY <1>1, <3>3 DEF AtLeast, StateType
    <3> QED
      BY <3>2, <3>4, JournalsAdvances DEF m
  <2>2. CASE task.role # "train"
    BY <1>3, <1>4, <1>11, <2>2, ResultSteps
  <2> QED
    BY <2>1, <2>2
<1>12. CASE Attempt
  <2>1. CASE Goes("ended")
    BY <1>2, <2>1
  <2>2. ASSUME Attempts # 2, state' = state, NEW l, Moves(Worker, AttemptedOf(m, task), l)
        PROVE  Advances
    <3>1. PICK s : s = AttemptedOf(m, task)
      OBVIOUS
    <3>2. task \in Tasks
      BY <1>12 DEF Attempt, TypeInv, TaskLocs
    <3>3. /\ s \in StateType /\ s.marks = m.marks /\ SameRun(s, m)
          /\ \A k \in Tasks : m.attempts[k] <= s.attempts[k]
      BY <1>1, <2>2, <3>1, <3>2, AttemptedIs DEF Attempts
    <3>4. mem'[Worker] = s
      BY <2>2, <3>1 DEF Moves
    <3> HIDE DEF m
    <3>5. AtLeast(s, m)
      BY <1>1, <3>3 DEF AtLeast, SameRun, StateType
    <3> QED
      BY <2>2, <3>3, <3>4, <3>5, AtLeastItself DEF Advances, m
  <2> QED
    BY <1>12, <2>1, <2>2, ChildSteps
<1>13. CASE BindChild
  <2>1. PICK s : s = BoundOf(m, Child)
    OBVIOUS
  <2>2. Child \in Children /\ state' = s /\ mem'[Worker] = s
    BY <1>13, <2>1, ChildSteps DEF Moves
  <2>3. s \in StateType /\ s.marks = m.marks /\ SameRun(s, m) /\ s.attempts = m.attempts
    BY <1>1, <2>1, <2>2, BoundIs
  <2> HIDE DEF m
  <2>4. AtLeast(s, m)
    BY <1>1, <2>3, SameReaches
  <2> QED
    BY <2>2, <2>3, <2>4, AtLeastItself DEF Advances, m
<1>14. ASSUME NEW stage \in {"candidate_child_finished", "candidate_timeout"}, NEW l,
              state' = UnboundOf(m, stage),
              Moves(Worker, UnboundOf(m, stage), l) \/ Moves(Worker, m, l)
       PROVE  Advances
  <2>1. PICK s : s = UnboundOf(m, stage)
    OBVIOUS
  <2>2. s \in StateType /\ s.marks = m.marks /\ SameRun(s, m) /\ s.attempts = m.attempts
    BY <1>1, <1>4, <2>1, UnboundIs
  <2>3. state' = s /\ mem'[Worker] \in {m, s}
    BY <1>14, <2>1 DEF Moves
  <2> HIDE DEF m
  <2>4. AtLeast(s, m) /\ AtLeast(m, s) /\ AtLeast(s, s)
    <3>1. SameRun(m, s)
      BY <2>2 DEF SameRun
    <3> QED
      BY <1>1, <2>2, <3>1, SameReaches, AtLeastItself
  <2> QED
    BY <2>2, <2>3, <2>4 DEF Advances, m
<1>15. ChildFinished \/ ChildTimesOut => Advances
  BY <1>14, ChildSteps
<1>16. CASE CannotBindChild
  <2>1. state' = state /\ mem'[Worker] = m /\ AtLeast(m, m)
    BY <1>1, <1>16, ChildSteps, AtLeastItself DEF Moves
  <2> QED
    BY <1>1, <2>1 DEF Advances
<1> QED
  BY <1>5, <1>6, <1>7, <1>8, <1>10, <1>11, <1>12, <1>13, <1>15, <1>16

LEMMA SelectionAdvances ==
    ASSUME TypeInv, AtLeast(mem[Worker], state),
           \/ DeriveShortlist \/ WriteFreeze \/ JournalFreeze \/ SwapCounter \/ JournalExposure
           \/ NextFinalist \/ FinalistsDone \/ WritePackage \/ Complete
    PROVE  Advances
<1> USE WorkerIs
<1> DEFINE m == mem[Worker]
<1>1. m \in StateType /\ state # None
  <2>1. pc[Worker] # "down"
    BY DEF DeriveShortlist, WriteFreeze, JournalFreeze, SwapCounter, JournalExposure,
       NextFinalist, FinalistsDone, WritePackage, Complete
  <2> QED
    BY <2>1, Holds, NoneFacts
<1>2. (\E l : Goes(l)) => Advances
  BY <1>1, GoesAdvances
<1>3. WriteFreeze \/ SwapCounter \/ NextFinalist \/ FinalistsDone \/ WritePackage => Advances
  BY <1>2, GoesSteps
<1>4. ASSUME NEW mark \in Marks, NEW stage \in Stages, NEW l, Journals(Mark(m, mark, stage), l)
      PROVE  Advances
  <2>1. PICK s : s = Mark(m, mark, stage)
    OBVIOUS
  <2>2. s.marks = m.marks \cup {mark} /\ SameRun(s, m) /\ SameTask(s, m)
    BY <1>1, <2>1, MarkIs
  <2>3. Journals(s, l)
    BY <1>4, <2>1
  <2> HIDE DEF m
  <2> QED
    BY <1>1, <2>2, <2>3, StagesAdvance DEF m
<1>5. {"frozen", "package"} \subseteq Marks /\ {"shortlist_frozen", "measured_complete"} \subseteq Stages
  BY DEF Marks, Stages
<1>6. JournalFreeze => Advances
  BY <1>4, <1>5, ResultSteps
<1>7. Complete => Advances
  BY <1>4, <1>5, JournalSteps
<1>8. CASE DeriveShortlist
  <2>1. PICK f \in SUBSET Candidates : Journals(ShortlistedOf(m, f), "freeze")
    BY <1>8, ResultSteps
  <2>2. PICK s : s = ShortlistedOf(m, f)
    OBVIOUS
  <2>3. /\ s \in StateType /\ m.marks \subseteq s.marks /\ s.accepted = m.accepted
        /\ s.batches = m.batches /\ s.completed = m.completed /\ s.exposure = m.exposure
        /\ s.attempts = m.attempts
    BY <1>1, <2>2, ShortlistedIs DEF SameTask
  <2> HIDE DEF m
  <2>4. AtLeast(s, m)
    BY <1>1, <2>3 DEF AtLeast, StateType
  <2> QED
    BY <2>1, <2>2, <2>4, JournalsAdvances DEF m
<1>9. CASE JournalExposure
  <2>1. PICK s : s = ExposedOf(m)
    OBVIOUS
  <2>2. /\ s \in StateType /\ s.marks = m.marks /\ s.accepted = m.accepted
        /\ s.batches = m.batches /\ s.completed = m.completed /\ s.exposure = 1
        /\ s.attempts = m.attempts
    BY <1>1, <2>1, ExposedIs DEF SameTask
  <2>3. Journals(s, "select")
    BY <1>9, <2>1, JournalSteps
  <2> HIDE DEF m
  <2>4. AtLeast(s, m)
    BY <1>1, <2>2 DEF AtLeast, StateType
  <2> QED
    BY <2>3, <2>4, JournalsAdvances DEF m
<1> QED
  BY <1>3, <1>6, <1>7, <1>8, <1>9

\* A step of a worker that was started, with the verify commands at rest.
LEMMA WorkerAdvances ==
    ASSUME TypeInv, TypeInv', AtLeast(mem[Worker], state), state \in StateType,
           mem[Worker] \in StateType, Advances \/ ProposerFails
    PROVE  /\ AtLeast(state', state)
           /\ pc'[Worker] # "down" => AtLeast(mem'[Worker], state')
<1> USE WorkerIs
<1>1. CASE Advances
  <2>1. PICK s \in StateType :
           /\ AtLeast(s, mem[Worker])
           /\ mem'[Worker] \in {mem[Worker], s}
           /\ state' \in {state, s}
           /\ state' = s => AtLeast(mem'[Worker], s)
    BY <1>1 DEF Advances
  <2>2. AtLeast(s, state) /\ AtLeast(state, state)
    BY <2>1, AtLeastThrough, AtLeastItself
  <2>3. CASE state' = s
    BY <2>1, <2>2, <2>3
  <2>4. CASE state' = state
    BY <2>1, <2>2, <2>4
  <2> QED
    BY <2>1, <2>3, <2>4
<1>2. CASE ProposerFails
  <2>1. PICK s : s = At(state, "awaiting_proposer_recovery")
    OBVIOUS
  <2>2. "awaiting_proposer_recovery" \in Stages
    BY DEF Stages
  <2>3. s \in StateType /\ s.marks = state.marks /\ SameRun(s, state) /\ s.attempts = state.attempts
    BY <2>1, <2>2, AtIs DEF SameTask
  <2>4. state' = s /\ mem'[Worker] = s
    BY <1>2, <2>1, JournalSteps DEF Journals, Moves
  <2>5. AtLeast(s, state) /\ AtLeast(s, s)
    BY <2>3, SameReaches, AtLeastItself
  <2> QED
    BY <2>4, <2>5
<1> QED
  BY <1>1, <1>2

\* The steps of the worker leave the verify commands where they are, and the
\* number of times that each command was started.
LEMMA VerifiersRest ==
    ASSUME TypeInv,
           \/ CheckChild(Worker) \/ QuarantineIndexes(Worker) \/ ReconcileCounter(Worker)
           \/ Resume \/ Supervise
           \/ Validate \/ RecordLineage \/ RegisterBase \/ WriteCommitment \/ JournalCommitment
           \/ NextCandidate \/ CompleteIteration \/ StopAtCheckpoint \/ PassCheckpoint
           \/ AcknowledgeStop \/ ProposeBatch \/ ProposerFails \/ FreezeBatch \/ FinishGeneration
           \/ Attempt \/ BindChild \/ CannotBindChild \/ ChildFinished \/ ChildTimesOut
           \/ CollectOutput \/ InfrastructureFailure \/ ScientificFailure \/ AcceptResult
           \/ JournalResult \/ ReproduceBaseline
           \/ DeriveShortlist \/ WriteFreeze \/ JournalFreeze \/ SwapCounter \/ JournalExposure
           \/ NextFinalist \/ FinalistsDone \/ WritePackage \/ Complete
    PROVE  opened' = opened /\ \A v \in Verifiers : pc'[v] = pc[v]
<1> USE WorkerIs
<1>1. pc \in [Procs -> Locations] /\ \A v \in Verifiers : v \in Procs /\ v # Worker
  BY DEF TypeInv, TypeOK
<1>2. ASSUME NEW l, Goto(Worker, l)
      PROVE  \A v \in Verifiers : pc'[v] = pc[v]
  BY <1>1, <1>2 DEF Goto
<1>3. ASSUME NEW s, NEW l, Journal(Worker, s, l)
      PROVE  \A v \in Verifiers : pc'[v] = pc[v]
  BY <1>2, <1>3 DEF Journal
<1>4. ASSUME NEW key, NEW s, NEW l, JournalOnce(Worker, key, s, l)
      PROVE  \A v \in Verifiers : pc'[v] = pc[v]
  BY <1>2, <1>3, <1>4 DEF JournalOnce
<1>5. CASE \/ CheckChild(Worker) \/ QuarantineIndexes(Worker) \/ ReconcileCounter(Worker)
           \/ Resume \/ Supervise \/ Validate \/ RecordLineage \/ RegisterBase
           \/ WriteCommitment \/ JournalCommitment
  BY <1>2, <1>3, <1>4, <1>5 DEF CheckChild, QuarantineIndexes, ReconcileCounter, Resume, Supervise,
     Validate, RecordLineage, RegisterBase, WriteCommitment, JournalCommitment
<1>6. CASE \/ NextCandidate \/ CompleteIteration \/ StopAtCheckpoint \/ PassCheckpoint
           \/ AcknowledgeStop \/ ProposeBatch \/ ProposerFails \/ FreezeBatch \/ FinishGeneration
  BY <1>2, <1>3, <1>6 DEF NextCandidate, CompleteIteration, StopAtCheckpoint, PassCheckpoint,
     AcknowledgeStop, ProposeBatch, ProposerFails, FreezeBatch, FinishGeneration
<1>7. CASE \/ Attempt \/ BindChild \/ CannotBindChild \/ ChildFinished \/ ChildTimesOut
           \/ CollectOutput \/ InfrastructureFailure \/ ScientificFailure \/ AcceptResult
           \/ JournalResult \/ ReproduceBaseline
  BY <1>2, <1>3, <1>7 DEF Attempt, BindChild, CannotBindChild, ChildFinished, ChildTimesOut,
     CollectOutput, InfrastructureFailure, ScientificFailure, AcceptResult, JournalResult,
     ReproduceBaseline
<1>8. CASE \/ DeriveShortlist \/ WriteFreeze \/ JournalFreeze \/ SwapCounter \/ JournalExposure
           \/ NextFinalist \/ FinalistsDone \/ WritePackage \/ Complete
  BY <1>2, <1>3, <1>8 DEF DeriveShortlist, WriteFreeze, JournalFreeze, SwapCounter,
     JournalExposure, NextFinalist, FinalistsDone, WritePackage, Complete
<1> QED
  BY <1>5, <1>6, <1>7, <1>8

\* A step before which no verify command was started journals no less than what
\* the journal has, and leaves the worker with all that it journaled.
LEMMA ProgressNext ==
    ASSUME RunInv, RunInv', ProgressInv, [Next]_vars
    PROVE  /\ ProgressInv'
           /\ Unverified /\ state # None => AtLeast(state', state)
<1> USE WorkerIs
<1>1. TypeInv /\ TypeInv'
  BY DEF RunInv
<1>2. /\ state # None => state \in StateType
      /\ \A p \in Procs : opened[p] \in Nat
      /\ pc \in [Procs -> Locations] /\ mem \in [Procs -> StateType \cup {None}]
      /\ opened \in [Procs -> Nat]
  BY <1>1 DEF TypeInv, TypeOK
<1>3. state # None => AtLeast(state, state)
  BY <1>2, AtLeastItself
\* Nothing is said of a run whose verify command was started.
<1>4. ASSUME ~Unverified, opened' = opened
      PROVE  ProgressInv' /\ ~Unverified
  BY <1>4 DEF Unverified, ProgressInv
<1>5. ASSUME Unverified, UNCHANGED state, \A v \in Verifiers : pc'[v] = pc[v],
             pc'[Worker] # "down" => AtLeast(mem'[Worker], state)
      PROVE  ProgressInv' /\ (state # None => AtLeast(state', state))
  <2>1. \A v \in Verifiers : pc'[v] = "down"
    BY <1>5 DEF ProgressInv
  <2> QED
    BY <1>3, <1>5, <2>1 DEF ProgressInv
<1>6. CASE UNCHANGED <<state, pc, mem, opened>>
  <2>1. Unverified => \A v \in Verifiers : pc'[v] = pc[v]
    BY <1>6
  <2>2. Unverified /\ pc'[Worker] # "down" => AtLeast(mem'[Worker], state)
    BY <1>6 DEF ProgressInv
  <2> QED
    BY <1>4, <1>5, <1>6, <2>1, <2>2
<1>7. CASE Outside
  BY <1>1, <1>6, <1>7, OutsideIs
<1>8. CASE Start
  <2>1. state = None /\ mem' = [mem EXCEPT ![Worker] = Initial] /\ state' = Initial
    BY <1>8 DEF Start, Journal, Hold
  <2>2. mem'[Worker] = Initial /\ AtLeast(Initial, Initial)
    BY <1>2, <2>1, InitialTyped, AtLeastItself
  <2>3. \A v \in Verifiers : pc'[v] = pc[v] /\ opened'[v] = opened[v]
    BY <1>2, <1>8 DEF Start, Journal, Goto
  <2>4. Unverified' => Unverified
    BY <2>3 DEF Unverified
  <2> QED
    BY <2>1, <2>2, <2>3, <2>4 DEF ProgressInv
<1>9. ASSUME NEW p \in Procs, Load(p)
      PROVE  /\ ProgressInv'
             /\ Unverified /\ state # None => AtLeast(state', state)
  <2>1. /\ state # None /\ state' = state /\ mem' = [mem EXCEPT ![p] = state]
        /\ pc' = [pc EXCEPT ![p] = "child"] /\ opened' = [opened EXCEPT ![p] = @ + 1]
    BY <1>9 DEF Load, Hold, Goto
  <2>2. CASE p = Worker
    <3>1. mem'[Worker] = state
      BY <1>2, <2>1, <2>2
    <3>2. \A v \in Verifiers : pc'[v] = pc[v] /\ opened'[v] = opened[v]
      BY <1>2, <2>1, <2>2
    <3>3. Unverified' => Unverified
      BY <3>2 DEF Unverified
    <3> QED
      BY <1>3, <2>1, <3>1, <3>2, <3>3 DEF ProgressInv
  <2>3. CASE p \in Verifiers
    <3>1. opened'[p] = opened[p] + 1
      BY <1>2, <2>1
    <3>2. ~Unverified'
      BY <1>2, <2>3, <3>1 DEF Unverified
    <3> QED
      BY <1>3, <2>1, <3>2 DEF ProgressInv
  <2> QED
    BY <2>2, <2>3
<1>10. ASSUME NEW p \in Procs, Leave(p) \/ Crash(p)
       PROVE  /\ ProgressInv'
              /\ Unverified /\ state # None => AtLeast(state', state)
  <2>1. /\ state' = state /\ opened' = opened /\ Vanish(p) /\ pc[p] # "down"
    BY <1>10 DEF Leave, Crash
  <2>2. CASE p = Worker
    <3>1. pc'[Worker] = "down" /\ \A v \in Verifiers : pc'[v] = pc[v]
      BY <1>2, <2>1, <2>2 DEF Vanish, Goto
    <3> QED
      BY <1>4, <1>5, <2>1, <3>1
  <2>3. CASE p \in Verifiers
    <3>1. ~Unverified
      BY <2>1, <2>3 DEF ProgressInv
    <3> QED
      BY <1>4, <2>1, <3>1
  <2> QED
    BY <2>2, <2>3
<1>11. ASSUME NEW v \in Verifiers, CheckChild(v) \/ QuarantineIndexes(v) \/ ReconcileCounter(v)
       PROVE  /\ ProgressInv'
              /\ Unverified /\ state # None => AtLeast(state', state)
  <2>1. pc[v] # "down" /\ opened' = opened
    BY <1>11 DEF CheckChild, QuarantineIndexes, ReconcileCounter
  <2>2. ~Unverified
    BY <2>1 DEF ProgressInv
  <2> QED
    BY <1>4, <2>1, <2>2
<1>12. ASSUME opened' = opened, \A v \in Verifiers : pc'[v] = pc[v], pc[Worker] # "down",
              AtLeast(mem[Worker], state) => Advances \/ ProposerFails
       PROVE  /\ ProgressInv'
              /\ Unverified /\ state # None => AtLeast(state', state)
  <2>1. CASE ~Unverified
    BY <1>4, <1>12, <2>1
  <2>2. CASE Unverified
    <3>1. AtLeast(mem[Worker], state) /\ state \in StateType /\ mem[Worker] \in StateType
      BY <1>1, <1>12, <2>2, Holds DEF ProgressInv
    <3>2. /\ AtLeast(state', state)
          /\ pc'[Worker] # "down" => AtLeast(mem'[Worker], state')
      BY <1>1, <1>12, <3>1, WorkerAdvances
    <3>3. \A v \in Verifiers : pc'[v] = "down"
      BY <1>12, <2>2 DEF ProgressInv
    <3> QED
      BY <3>2, <3>3 DEF ProgressInv
  <2> QED
    BY <2>1, <2>2
<1>13. CASE \/ CheckChild(Worker) \/ QuarantineIndexes(Worker) \/ ReconcileCounter(Worker)
            \/ Resume \/ Supervise \/ Validate \/ RecordLineage \/ RegisterBase
            \/ WriteCommitment \/ JournalCommitment
  <2>1. pc[Worker] # "down"
    BY <1>13 DEF CheckChild, QuarantineIndexes, ReconcileCounter, Resume, Supervise,
       Validate, RecordLineage, RegisterBase, WriteCommitment, JournalCommitment
  <2> QED
    BY <1>1, <1>12, <1>13, <2>1, VerifiersRest, ChecksAdvance, SetupAdvances
<1>14. CASE \/ NextCandidate \/ CompleteIteration \/ StopAtCheckpoint \/ PassCheckpoint
            \/ AcknowledgeStop \/ ProposeBatch \/ ProposerFails \/ FreezeBatch
            \/ FinishGeneration
  <2>1. pc[Worker] # "down"
    BY <1>14 DEF NextCandidate, CompleteIteration, StopAtCheckpoint, PassCheckpoint,
       AcknowledgeStop, ProposeBatch, ProposerFails, FreezeBatch, FinishGeneration, LoopHead
  <2> QED
    BY <1>1, <1>12, <1>14, <2>1, VerifiersRest, LoopAdvances
<1>15. CASE \/ Attempt \/ BindChild \/ CannotBindChild \/ ChildFinished \/ ChildTimesOut
            \/ CollectOutput \/ InfrastructureFailure \/ ScientificFailure \/ AcceptResult
            \/ JournalResult \/ ReproduceBaseline
  <2>1. pc[Worker] # "down"
    BY <1>15 DEF Attempt, BindChild, CannotBindChild, ChildFinished, ChildTimesOut,
       CollectOutput, InfrastructureFailure, ScientificFailure, AcceptResult, JournalResult,
       ReproduceBaseline
  <2> QED
    BY <1>1, <1>12, <1>15, <2>1, VerifiersRest, TaskAdvances
<1>16. CASE \/ DeriveShortlist \/ WriteFreeze \/ JournalFreeze \/ SwapCounter \/ JournalExposure
            \/ NextFinalist \/ FinalistsDone \/ WritePackage \/ Complete
  <2>1. pc[Worker] # "down"
    BY <1>16 DEF DeriveShortlist, WriteFreeze, JournalFreeze, SwapCounter, JournalExposure,
       NextFinalist, FinalistsDone, WritePackage, Complete
  <2> QED
    BY <1>1, <1>12, <1>16, <2>1, VerifiersRest, SelectionAdvances
<1>17. CASE UNCHANGED vars
  BY <1>6, <1>17 DEF vars
<1>18. CASE Next
  BY <1>7, <1>8, <1>9, <1>10, <1>11, <1>13, <1>14, <1>15, <1>16, <1>18, NextCases DEF Outside
<1> QED
  BY <1>17, <1>18

LEMMA ProgressInit == Init => ProgressInv
BY WorkerIs DEF Init, ProgressInv

\* Until a verify command is started, no step forgets what the journal has,
\* whatever crashes and however often the worker is started again.
THEOREM ProgressUntilVerify ==
    Spec => [][Unverified /\ state # None => AtLeast(state', state)]_vars
<1>1. /\ RunInv /\ RunInv' /\ ProgressInv /\ [Next]_vars => ProgressInv'
      /\ RunInv /\ RunInv' /\ ProgressInv /\ [Next]_vars =>
            [Unverified /\ state # None => AtLeast(state', state)]_vars
  BY ProgressNext
<1> QED
  BY <1>1, InvInit, InvNext, ProgressInit, PTL DEF Spec

\* ProgressKept of a run of which no verify command exists.
THEOREM ProgressIsKept == Verifiers = {} /\ Spec => ProgressKept
<1> SUFFICES ASSUME Verifiers = {}
             PROVE  Spec => ProgressKept
  OBVIOUS
<1>1. [Unverified /\ state # None => AtLeast(state', state)]_vars =>
          [state # None /\ ~Validating =>
              /\ state.accepted \subseteq state'.accepted
              /\ state.marks \subseteq state'.marks
              /\ \A t \in Tasks : state.attempts[t] <= state'.attempts[t]
              /\ state.batches <= state'.batches
              /\ state.completed <= state'.completed
              /\ state.exposure <= state'.exposure]_vars
  BY DEF AtLeast, Unverified
<1> QED
  BY <1>1, ProgressUntilVerify, PTL DEF ProgressKept

=============================================================================
