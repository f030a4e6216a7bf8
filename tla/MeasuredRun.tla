---------------------------- MODULE MeasuredRun ----------------------------
(***************************************************************************)
(* One measured P2 run from `start` to `measured_complete`: the worker     *)
(* (measured_supervisor.run_worker, measured_executor                      *)
(* .run_measured_execution), the candidate child processes it starts, the  *)
(* `verify` command, which calls validate_resume_state without the lease,  *)
(* the Owner's stop request and the selection counter shared by all runs.  *)
(*                                                                         *)
(* What survives a crash is the head of the journal, the immutable         *)
(* artifacts, the children's output files, their index directories and the *)
(* counter.  The worker works on a copy of the state in memory.  A journal *)
(* append and its snapshot are one step here: RunJournal has the grain     *)
(* below it, and the lease that keeps the workers one at a time.           *)
(*                                                                         *)
(* Metrics, budgets in seconds and index builds are abstracted to the      *)
(* choices they decide.  P2StateMachine has the candidate lifecycle that   *)
(* the executor replays.                                                   *)
(***************************************************************************)
EXTENDS Naturals, Sequences, FiniteSets

CONSTANTS
    Worker,        \* the process that holds the writer lease
    Verifiers,     \* verify commands
    BaseOrder,     \* base candidates in the order they are measured
    Batches,       \* candidates of each adaptive iteration, in order
    MaxFinalists,  \* limits.max_selection_finalists
    None,          \* no state, no child, no task, no reason
    MaxWorkers     \* bound on the times the worker is started

Base == {BaseOrder[i] : i \in DOMAIN BaseOrder}
Baseline == Head(BaseOrder)
Candidates == Base \cup UNION {{Batches[i][j] : j \in DOMAIN Batches[i]} : i \in DOMAIN Batches}
Procs == Verifiers \cup {Worker}
Roles == {"train", "selection"}
Tasks == [role: Roles, cand: Candidates]

\* A child process is named by its task and attempt: a worker that has launched
\* one is never followed by a worker that launches again (see Validate).
Children == [task: Tasks, attempt: 1..2]

ASSUME WorkerIsNoVerifier == Worker \notin Verifiers
ASSUME BoundIsNumber == MaxWorkers \in Nat

VARIABLES
    \* durable
    state,         \* the journaled state: payload of the last event
    keyed,         \* states journaled under a key that a later append may reuse
    commitment,    \* baseline-commitment.json exists
    results,       \* tasks whose result artifact exists
    batchFiles,    \* number of adaptive-batch artifacts
    freeze,        \* shortlist in the freeze receipt, or None
    package,       \* package.json exists
    outputs,       \* tasks whose child left its output in work/
    partial,       \* an index directory without COMPLETE.json exists
    stop,          \* status of control/stop-after-checkpoint.json
    counter,       \* who consumed the global selection counter
    \* the operating system
    alive,         \* child processes that run
    exit,          \* exit code of the worker's child
    \* the processes
    pc, mem,       \* where each is, and the state it holds
    task,          \* what the worker is measuring
    opened         \* times each process was started (bound)

\* BOUND: each verify command runs once, the worker MaxWorkers times.
Limit(p) == IF p = Worker THEN MaxWorkers ELSE 1

artifacts == <<commitment, results, batchFiles, freeze, package>>
os == <<outputs, partial, alive, exit>>
vars == <<state, keyed, artifacts, stop, counter, os, pc, mem, task, opened>>

Marks == {"lineage", "base", "commitment", "reproduction", "generated", "trained",
          "frozen", "package"}
Blocked == {"blocked_scientific", "blocked_infrastructure", "blocked_budget"}
Stages == Blocked \cup
    {"initialized", "supervisor_ready", "validating_owner_inputs", "owner_inputs_validated",
     "base_registered", "baseline_committed", "candidate_child_active", "candidate_timeout",
     "candidate_child_finished", "retry_pending", "candidate_train_completed",
     "baseline_reproduced", "stopped_after_checkpoint", "awaiting_proposer_recovery",
     "adaptive_batch_frozen", "adaptive_iteration_completed", "generation_finished",
     "shortlist_ready", "shortlist_frozen", "selection_exposed",
     "selection_candidate_completed", "measured_complete"}
Reasons == {"gate", "wall_clock", "owner_stop", None}

\* marks: the fields that record that a stage is done (dataset_lineage_sha256,
\* base_registered, baseline_commitment_sha256, ..., package_sha256).
StateType ==
    [stage: Stages, marks: SUBSET Marks, accepted: SUBSET Candidates,
     attempts: [Tasks -> 0..2], child: Children \cup {None}, batches: Nat,
     completed: Nat, reason: Reasons, shortlist: SUBSET Candidates, exposure: 0..1]

\* No batch is empty: a frozen batch has limits.candidates_per_iteration rows.
ASSUME OrdersAreSequences ==
    /\ BaseOrder \in Seq(Base) \ {<<>>}
    /\ Batches \in Seq(Seq(Candidates) \ {<<>>})
ASSUME NoneIsNothing ==
    /\ None \notin Children \cup Tasks \cup StateType \cup {"ok", "science", "infra"}
    /\ \A cs \in SUBSET Candidates : cs # None

Initial ==
    [stage |-> "initialized", marks |-> {}, accepted |-> {},
     attempts |-> [t \in Tasks |-> 0], child |-> None, batches |-> 0,
     completed |-> 0, reason |-> None, shortlist |-> {}, exposure |-> 0]

Keys == {<<"validating">>, <<"reconciled">>} \cup {<<"released", c>> : c \in Children}

Locations ==
    {"down", "ended", "conflict", "child", "index", "counter", "resumed", "supervise", "validate",
     "lineage", "base", "commit", "committed", "next", "freeze batch", "attempt", "launched",
     "waiting", "collect", "infra", "science", "accept", "accepted", "reproduce",
     "checkpoint", "acknowledge", "shortlist", "freeze", "frozen", "expose", "exposed",
     "select", "finalize", "complete"}

TypeOK ==
    /\ state \in StateType \cup {None}
    /\ keyed \subseteq [key: Keys, state: StateType]
    /\ commitment \in BOOLEAN
    /\ results \subseteq Tasks
    /\ batchFiles \in 0..Len(Batches)
    /\ freeze \in (SUBSET Candidates) \cup {None}
    /\ package \in BOOLEAN
    /\ outputs \subseteq Tasks
    /\ partial \in BOOLEAN
    /\ stop \in {"none", "pending", "acknowledged"}
    /\ counter \in {"free", "ours", "other"}
    /\ alive \subseteq Children
    /\ exit \in {"ok", "science", "infra", None}
    /\ pc \in [Procs -> Locations]
    /\ mem \in [Procs -> StateType \cup {None}]
    /\ task \in Tasks \cup {None}
    /\ \A p \in Procs : opened[p] \in 0..Limit(p)

Init ==
    /\ state = None
    /\ keyed = {}
    /\ commitment = FALSE
    /\ results = {}
    /\ batchFiles = 0
    /\ freeze = None
    /\ package = FALSE
    /\ outputs = {}
    /\ partial = FALSE
    /\ stop = "none"
    /\ counter = "free"
    /\ alive = {}
    /\ exit = None
    /\ pc = [p \in Procs |-> "down"]
    /\ mem = [p \in Procs |-> None]
    /\ task = None
    /\ opened = [p \in Procs |-> 0]

Goto(p, l) == pc' = [pc EXCEPT ![p] = l]

\* The process holds s in memory.
Hold(p, s) == mem' = [mem EXCEPT ![p] = s]

\* append_transition: the state in memory, in stage, becomes the journal's head.
Journal(p, s, l) == state' = s /\ Hold(p, s) /\ Goto(p, l)

At(s, stage) == [s EXCEPT !.stage = stage]
Mark(s, mark, stage) == [At(s, stage) EXCEPT !.marks = @ \cup {mark}]

\* append_transition under a key that an earlier event may carry: that event is
\* returned if it is the same transition, and the call raises if it is not.
JournalOnce(p, key, s, l) ==
    LET before == {e \in keyed : e.key = key}
    IN  IF before = {}
          THEN Journal(p, s, l) /\ keyed' = keyed \cup {[key |-> key, state |-> s]}
          ELSE /\ UNCHANGED <<state, keyed>>
               /\ Hold(p, s)
               /\ Goto(p, IF \E e \in before : e.state = s THEN l ELSE "conflict")

(***************************************************************************)
(* start, resume and verify                                                *)
(***************************************************************************)

\* run_worker in mode start: initialize, refused once the journal has an event.
Start ==
    /\ pc[Worker] = "down" /\ opened[Worker] < Limit(Worker)
    /\ state = None
    /\ Journal(Worker, Initial, "supervise")
    /\ opened' = [opened EXCEPT ![Worker] = @ + 1]
    /\ UNCHANGED <<keyed, artifacts, stop, counter, os, task>>

\* MUTANT of Load: a run that exceeded its budget may be resumed.
LoadUnlessScientific(p) ==
    /\ pc[p] = "down" /\ opened[p] < Limit(p)
    /\ state # None
    /\ state.stage \notin Blocked \ {"blocked_budget"}
    /\ Hold(p, state)
    /\ Goto(p, "child")
    /\ opened' = [opened EXCEPT ![p] = @ + 1]
    /\ UNCHANGED <<state, keyed, artifacts, stop, counter, os, task>>

\* validate_resume_state loads the journal, refuses a blocked run and checks
\* that every accepted result is there.  A refusal changes nothing.
Load(p) ==
    /\ pc[p] = "down" /\ opened[p] < Limit(p)
    /\ state # None
    /\ state.stage \notin Blocked
    /\ \A c \in state.accepted : [role |-> "train", cand |-> c] \in results
    /\ Hold(p, state)
    /\ Goto(p, "child")
    /\ opened' = [opened EXCEPT ![p] = @ + 1]
    /\ UNCHANGED <<state, keyed, artifacts, stop, counter, os, task>>

\* MUTANT of CheckChild: the recorded child is released, dead or not.
CheckNoChild(p) ==
    /\ pc[p] = "child"
    /\ IF mem[p].child = None
         THEN Goto(p, "index") /\ UNCHANGED <<state, keyed, mem>>
         ELSE JournalOnce(p, <<"released", mem[p].child>>, [mem[p] EXCEPT !.child = None],
                          "index")
    /\ UNCHANGED <<artifacts, stop, counter, os, task, opened>>

\* A recorded child that still runs blocks the resume; one that does not is
\* released.
CheckChild(p) ==
    /\ pc[p] = "child"
    /\ LET child == mem[p].child
       IN  IF child \in alive
             THEN Goto(p, "ended") /\ UNCHANGED <<state, keyed, mem>>
           ELSE IF child = None
             THEN Goto(p, "index") /\ UNCHANGED <<state, keyed, mem>>
           ELSE JournalOnce(p, <<"released", child>>, [mem[p] EXCEPT !.child = None], "index")
    /\ UNCHANGED <<artifacts, stop, counter, os, task, opened>>

\* quarantine_partial_indexes and its event, whose list of names is left out:
\* the event journals the state that was loaded.
QuarantineIndexes(p) ==
    /\ pc[p] = "index"
    /\ IF partial THEN Journal(p, mem[p], "counter")
                  ELSE Goto(p, "counter") /\ UNCHANGED <<state, mem>>
    /\ partial' = FALSE
    /\ UNCHANGED <<keyed, artifacts, stop, counter, outputs, alive, exit, task, opened>>

\* The end of validate_resume_state: run_worker goes on, verify is done.
Validated(p) == IF p = Worker THEN "resumed" ELSE "ended"

\* MUTANT of ReconcileCounter: an exposure that is not journaled is not noticed.
ReconcileNothing(p) ==
    /\ pc[p] = "counter"
    /\ Goto(p, Validated(p))
    /\ UNCHANGED <<state, keyed, artifacts, stop, counter, os, mem, task, opened>>

\* A counter that this run advanced without journaling it is reconciled; one
\* that disagrees with the run refuses the resume.
ReconcileCounter(p) ==
    /\ pc[p] = "counter"
    /\ IF mem[p].exposure = 1
         THEN /\ Goto(p, IF counter = "ours" THEN Validated(p) ELSE "ended")
              /\ UNCHANGED <<state, keyed, mem>>
       ELSE IF counter = "free"
         THEN Goto(p, Validated(p)) /\ UNCHANGED <<state, keyed, mem>>
       ELSE IF counter = "ours" /\ "frozen" \in mem[p].marks
         THEN JournalOnce(p, <<"reconciled">>, [mem[p] EXCEPT !.exposure = 1], Validated(p))
       ELSE Goto(p, "ended") /\ UNCHANGED <<state, keyed, mem>>
    /\ UNCHANGED <<artifacts, stop, counter, os, task, opened>>

\* run_worker clears the Owner's stop before it goes on.
Resume ==
    /\ pc[Worker] = "resumed"
    /\ IF mem[Worker].stage = "stopped_after_checkpoint"
         THEN Journal(Worker, [mem[Worker] EXCEPT !.reason = None], "supervise")
         ELSE Goto(Worker, "supervise") /\ UNCHANGED <<state, mem>>
    /\ UNCHANGED <<keyed, artifacts, stop, counter, os, task, opened>>

\* The startup receipt carries a time, so that the key of this event is new.
Supervise ==
    /\ pc[Worker] = "supervise"
    /\ Journal(Worker, At(mem[Worker], "supervisor_ready"), "validate")
    /\ UNCHANGED <<keyed, artifacts, stop, counter, os, task, opened>>

\* The process ends; what it held in memory is gone.
Vanish(p) ==
    /\ Goto(p, "down")
    /\ Hold(p, None)
    /\ task' = IF p = Worker THEN None ELSE task
    /\ exit' = IF p = Worker THEN None ELSE exit

\* A command that is done, or whose exception nothing handles, ends.
Leave(p) ==
    /\ pc[p] \in {"ended", "conflict"}
    /\ Vanish(p)
    /\ UNCHANGED <<state, keyed, artifacts, stop, counter, outputs, partial, alive, opened>>

(***************************************************************************)
(* run_measured_execution: the owner's inputs, the base candidates and the *)
(* baseline commitment                                                     *)
(***************************************************************************)

\* The event of this step has a constant key: a worker that resumes a run whose
\* lineage is recorded journals another state under it, and the call raises.
\* The keys of the steps below name what they record, so that none is used
\* twice by the one worker that gets past this step with the lineage open.
Validate ==
    /\ pc[Worker] = "validate"
    /\ JournalOnce(Worker, <<"validating">>, At(mem[Worker], "validating_owner_inputs"),
                   "lineage")
    /\ UNCHANGED <<artifacts, stop, counter, os, task, opened>>

RecordLineage ==
    /\ pc[Worker] = "lineage"
    /\ Journal(Worker, Mark(mem[Worker], "lineage", "owner_inputs_validated"), "base")
    /\ UNCHANGED <<keyed, artifacts, stop, counter, os, task, opened>>

RegisterBase ==
    /\ pc[Worker] = "base"
    /\ IF "base" \in mem[Worker].marks
         THEN Goto(Worker, "commit") /\ UNCHANGED <<state, mem>>
         ELSE Journal(Worker, Mark(mem[Worker], "base", "base_registered"), "commit")
    /\ UNCHANGED <<keyed, artifacts, stop, counter, os, task, opened>>

\* MUTANT of WriteCommitment: the commitment is only journaled.
WriteNoCommitment ==
    /\ pc[Worker] = "commit"
    /\ Goto(Worker, "committed")
    /\ UNCHANGED <<state, keyed, artifacts, stop, counter, os, mem, task, opened>>

\* The commitment is replayed from its artifact, so that the artifact is the
\* commitment: one that was written but not journaled cannot be made again.
WriteCommitment ==
    /\ pc[Worker] = "commit"
    /\ IF "commitment" \in mem[Worker].marks
         THEN Goto(Worker, "next") /\ UNCHANGED commitment
         ELSE /\ Goto(Worker, IF commitment THEN "ended" ELSE "committed")
              /\ commitment' = TRUE
    /\ UNCHANGED <<state, keyed, results, batchFiles, freeze, package, stop, counter, os, mem,
                   task, opened>>

JournalCommitment ==
    /\ pc[Worker] = "committed"
    /\ Journal(Worker, Mark(mem[Worker], "commitment", "baseline_committed"), "next")
    /\ UNCHANGED <<keyed, artifacts, stop, counter, os, task, opened>>

(***************************************************************************)
(* The loops over candidates and iterations                                *)
(***************************************************************************)

\* The places of a sequence whose candidates the worker has not accepted.
Left(seq) == {i \in DOMAIN seq : seq[i] \notin mem[Worker].accepted}

\* The sequence the worker is in: the base candidates, then the batch that was
\* frozen and whose iteration is not completed.
Queue == IF Left(BaseOrder) # {} THEN BaseOrder
         ELSE IF mem[Worker].batches > mem[Worker].completed
                THEN Batches[mem[Worker].batches] ELSE <<>>

NextCandidate ==
    /\ pc[Worker] = "next"
    /\ \E i \in Left(Queue) :
          /\ \A j \in Left(Queue) : i <= j
          /\ task' = [role |-> "train", cand |-> Queue[i]]
    /\ Goto(Worker, "attempt")
    /\ UNCHANGED <<state, keyed, artifacts, stop, counter, os, mem, opened>>

CompleteIteration ==
    /\ pc[Worker] = "next"
    /\ Queue # <<>> /\ Left(Queue) = {}
    /\ Journal(Worker, [At(mem[Worker], "adaptive_iteration_completed")
                           EXCEPT !.completed = @ + 1], "next")
    /\ UNCHANGED <<keyed, artifacts, stop, counter, os, task, opened>>

\* The head of the adaptive loop: no candidate is left to measure.
LoopHead == pc[Worker] = "next" /\ Queue = <<>>
MoreIterations == mem[Worker].completed < Len(Batches)

\* The Owner's stop is read after each train measurement and at the head of the
\* loop.  The key has the sequence number of the journal, so that it is new.
StopAtCheckpoint ==
    /\ pc[Worker] = "checkpoint" \/ (LoopHead /\ MoreIterations)
    /\ stop = "pending"
    /\ Journal(Worker, [At(mem[Worker], "stopped_after_checkpoint")
                           EXCEPT !.reason = "owner_stop"], "acknowledge")
    /\ UNCHANGED <<keyed, artifacts, stop, counter, os, task, opened>>

PassCheckpoint ==
    /\ pc[Worker] = "checkpoint"
    /\ stop # "pending"
    /\ Goto(Worker, "next")
    /\ UNCHANGED <<state, keyed, artifacts, stop, counter, os, mem, task, opened>>

\* run_worker marks the request once the executor has returned.
AcknowledgeStop ==
    /\ pc[Worker] = "acknowledge"
    /\ stop' = "acknowledged"
    /\ Goto(Worker, "ended")
    /\ UNCHANGED <<state, keyed, artifacts, counter, os, mem, task, opened>>

\* MUTANT of ProposeBatch: the batch is numbered one too high.
ProposeBatchOffByOne ==
    /\ LoopHead /\ MoreIterations
    /\ stop # "pending"
    /\ batchFiles' = mem[Worker].completed + 2
    /\ Goto(Worker, "freeze batch")
    /\ UNCHANGED <<state, keyed, commitment, results, freeze, package, stop, counter, os, mem,
                   task, opened>>

\* The feedback, the proposer's batch and its artifact, which a batch already
\* on disk replaces.
ProposeBatch ==
    /\ LoopHead /\ MoreIterations
    /\ stop # "pending"
    /\ batchFiles' = mem[Worker].completed + 1
    /\ Goto(Worker, "freeze batch")
    /\ UNCHANGED <<state, keyed, commitment, results, freeze, package, stop, counter, os, mem,
                   task, opened>>

\* Both proposer attempts failed: propose journals that and raises.
ProposerFails ==
    /\ LoopHead /\ MoreIterations
    /\ stop # "pending"
    /\ batchFiles = mem[Worker].completed
    /\ Journal(Worker, At(state, "awaiting_proposer_recovery"), "ended")
    /\ UNCHANGED <<keyed, artifacts, stop, counter, os, task, opened>>

FreezeBatch ==
    /\ pc[Worker] = "freeze batch"
    /\ Journal(Worker, [At(mem[Worker], "adaptive_batch_frozen") EXCEPT !.batches = @ + 1],
               "next")
    /\ UNCHANGED <<keyed, artifacts, stop, counter, os, task, opened>>

\* The loop ends when the iterations are used up, or before one for a reason:
\* the streak allows an early stop, or the time left cannot cover a batch.
FinishGeneration ==
    /\ LoopHead
    /\ \E reason \in IF MoreIterations THEN {"gate", "wall_clock"} ELSE {mem[Worker].reason} :
          Journal(Worker, [Mark(mem[Worker], "generated", "generation_finished")
                              EXCEPT !.reason = reason], "shortlist")
    /\ MoreIterations => stop # "pending"
    /\ UNCHANGED <<keyed, artifacts, stop, counter, os, task, opened>>

(***************************************************************************)
(* _measure_with_retry, _measure_selection_with_retry and the subprocess   *)
(* executor: one candidate in one role                                     *)
(***************************************************************************)

Attempts == mem[Worker].attempts[task]
Child == [task |-> task, attempt |-> Attempts]
Bound == [mem[Worker] EXCEPT !.child = Child]
Unbound == [mem[Worker] EXCEPT !.child = None]

\* MUTANT of Attempt: the attempt is not counted.
AttemptUncounted ==
    /\ pc[Worker] = "attempt"
    /\ Hold(Worker, [mem[Worker] EXCEPT !.attempts[task] = 1])
    /\ alive' = alive \cup {[task |-> task, attempt |-> 1]}
    /\ Goto(Worker, "launched")
    /\ UNCHANGED <<state, keyed, artifacts, stop, counter, outputs, partial, exit, task, opened>>

\* An output that an earlier child left is the result, and stays where it is;
\* otherwise a child is started.  Two attempts are all there are.
Attempt ==
    /\ pc[Worker] = "attempt"
    /\ IF Attempts = 2
         THEN Goto(Worker, "ended") /\ UNCHANGED <<mem, alive>>
         ELSE /\ Hold(Worker, [mem[Worker] EXCEPT !.attempts[task] = @ + 1])
              /\ IF task \in outputs
                   THEN Goto(Worker, "accept") /\ UNCHANGED alive
                   ELSE /\ alive' = alive \cup {[task |-> task, attempt |-> Attempts + 1]}
                        /\ Goto(Worker, "launched")
    /\ UNCHANGED <<state, keyed, artifacts, stop, counter, outputs, partial, exit, task, opened>>

\* The identity of the new process is read and journaled.  The state of the
\* caller keeps the child until an event of the executor is handed back.
BindChild ==
    /\ pc[Worker] = "launched"
    /\ Journal(Worker, At(Bound, "candidate_child_active"), "waiting")
    /\ UNCHANGED <<keyed, artifacts, stop, counter, os, task, opened>>

\* No process has that pid: the child is terminated.
CannotBindChild ==
    /\ pc[Worker] = "launched"
    /\ alive' = alive \ {Child}
    /\ exit' = None
    /\ Goto(Worker, "infra")
    /\ UNCHANGED <<state, keyed, artifacts, stop, counter, outputs, partial, mem, task, opened>>

\* The child ended.  The executor raises, or hands the state it journaled back.
ChildFinished ==
    /\ pc[Worker] = "waiting"
    /\ Child \notin alive
    /\ state' = At(Unbound, "candidate_child_finished")
    /\ IF exit = "ok"
         THEN Hold(Worker, state') /\ Goto(Worker, "collect")
         ELSE UNCHANGED mem /\ Goto(Worker, exit)
    /\ exit' = None
    /\ UNCHANGED <<keyed, artifacts, stop, counter, outputs, partial, alive, task, opened>>

\* MUTANT of ChildTimesOut: the child is not terminated.
ChildTimesOutAlive ==
    /\ pc[Worker] = "waiting"
    /\ Child \in alive
    /\ state' = At(Unbound, "candidate_timeout")
    /\ Goto(Worker, "infra")
    /\ UNCHANGED <<keyed, artifacts, stop, counter, os, mem, task, opened>>

\* The timeout of a candidate: its child is terminated.
ChildTimesOut ==
    /\ pc[Worker] = "waiting"
    /\ Child \in alive
    /\ alive' = alive \ {Child}
    /\ state' = At(Unbound, "candidate_timeout")
    /\ Goto(Worker, "infra")
    /\ UNCHANGED <<keyed, artifacts, stop, counter, outputs, partial, exit, mem, task, opened>>

\* The result is read into memory and the output file removed.
CollectOutput ==
    /\ pc[Worker] = "collect"
    /\ outputs' = outputs \ {task}
    /\ Goto(Worker, "accept")
    /\ UNCHANGED <<state, keyed, artifacts, stop, counter, partial, alive, exit, mem, task, opened>>

\* MUTANT of InfrastructureFailure: the state journaled is the one from before
\* the attempt.
InfrastructureUncounted ==
    /\ pc[Worker] = "infra"
    /\ partial' = FALSE
    /\ state' = [At(mem[Worker], "retry_pending") EXCEPT !.attempts[task] = @ - 1]
    /\ Goto(Worker, IF Attempts = 2 THEN "ended" ELSE "attempt")
    /\ UNCHANGED <<keyed, artifacts, stop, counter, outputs, alive, exit, mem, task, opened>>

\* An infrastructure failure: incomplete indexes are set aside, and the task is
\* tried again if an attempt is left and the measurement time covers it.
InfrastructureFailure ==
    /\ pc[Worker] = "infra"
    /\ partial' = FALSE
    /\ \E enoughTime \in BOOLEAN :
          Journal(Worker, At(mem[Worker], IF Attempts = 2 THEN "blocked_infrastructure"
                                                          ELSE "retry_pending"),
                  IF Attempts = 2 \/ ~enoughTime THEN "ended" ELSE "attempt")
    /\ UNCHANGED <<keyed, artifacts, stop, counter, outputs, alive, exit, task, opened>>

\* A child that found its candidate invalid ends the run.
ScientificFailure ==
    /\ pc[Worker] = "science"
    /\ Journal(Worker, At(mem[Worker], "blocked_scientific"), "ended")
    /\ UNCHANGED <<keyed, artifacts, stop, counter, os, task, opened>>

\* MUTANT of AcceptResult: the result artifact is not written.
AcceptUnwritten ==
    /\ pc[Worker] = "accept"
    /\ Goto(Worker, "accepted")
    /\ UNCHANGED <<state, keyed, artifacts, stop, counter, os, mem, task, opened>>

\* A train result may exceed the index builds of the run, which blocks it.
\* Otherwise the result becomes an immutable artifact.
AcceptResult ==
    /\ pc[Worker] = "accept"
    /\ \/ /\ results' = results \cup {task}
          /\ Goto(Worker, "accepted")
          /\ UNCHANGED <<state, mem>>
       \/ /\ task.role = "train"
          /\ Journal(Worker, At(mem[Worker], "blocked_budget"), "ended")
          /\ UNCHANGED results
    /\ UNCHANGED <<keyed, commitment, batchFiles, freeze, package, stop, counter, os, task, opened>>

JournalResult ==
    /\ pc[Worker] = "accepted"
    /\ IF task.role = "train"
         THEN Journal(Worker,
                      [At(mem[Worker], "candidate_train_completed")
                          EXCEPT !.accepted = @ \cup {task.cand}],
                      IF task.cand = Baseline THEN "reproduce" ELSE "checkpoint")
         ELSE Journal(Worker, At(mem[Worker], "selection_candidate_completed"), "select")
    /\ UNCHANGED <<keyed, artifacts, stop, counter, os, task, opened>>

\* The baseline reproduced, which a receipt and an event record, or it did not:
\* the state machine raises an error that nothing handles.
ReproduceBaseline ==
    /\ pc[Worker] = "reproduce"
    /\ \/ Journal(Worker, Mark(mem[Worker], "reproduction", "baseline_reproduced"), "checkpoint")
       \/ Goto(Worker, "ended") /\ UNCHANGED <<state, mem>>
    /\ UNCHANGED <<keyed, artifacts, stop, counter, os, task, opened>>

(***************************************************************************)
(* Shortlist, freeze, selection and closeout                               *)
(***************************************************************************)

\* finish_train and build_shortlist, in one event; P2StateMachine has the rule.
DeriveShortlist ==
    /\ pc[Worker] = "shortlist"
    /\ \E finalists \in SUBSET (mem[Worker].accepted \ {Baseline}) :
          /\ Cardinality(finalists) <= MaxFinalists
          /\ Journal(Worker, [Mark(mem[Worker], "trained", "shortlist_ready")
                                 EXCEPT !.shortlist = finalists], "freeze")
    /\ UNCHANGED <<keyed, artifacts, stop, counter, os, task, opened>>

WriteFreeze ==
    /\ pc[Worker] = "freeze"
    /\ freeze' = mem[Worker].shortlist
    /\ Goto(Worker, "frozen")
    /\ UNCHANGED <<state, keyed, commitment, results, batchFiles, package, stop, counter, os, mem,
                   task, opened>>

JournalFreeze ==
    /\ pc[Worker] = "frozen"
    /\ Journal(Worker, Mark(mem[Worker], "frozen", "shortlist_frozen"),
               IF mem[Worker].shortlist = {} THEN "finalize" ELSE "expose")
    /\ UNCHANGED <<keyed, artifacts, stop, counter, os, task, opened>>

\* MUTANT of SwapCounter: a counter that is taken is taken again.
SwapAnyCounter ==
    /\ pc[Worker] = "expose"
    /\ counter' = IF counter = "free" THEN "ours" ELSE counter
    /\ Goto(Worker, "exposed")
    /\ UNCHANGED <<state, keyed, artifacts, stop, os, mem, task, opened>>

\* compare_and_swap_selection_counter raises when the counter was advanced.
SwapCounter ==
    /\ pc[Worker] = "expose"
    /\ IF counter = "free"
         THEN counter' = "ours" /\ Goto(Worker, "exposed")
         ELSE Goto(Worker, "ended") /\ UNCHANGED counter
    /\ UNCHANGED <<state, keyed, artifacts, stop, os, mem, task, opened>>

JournalExposure ==
    /\ pc[Worker] = "exposed"
    /\ Journal(Worker, [At(mem[Worker], "selection_exposed") EXCEPT !.exposure = 1], "select")
    /\ UNCHANGED <<keyed, artifacts, stop, counter, os, task, opened>>

Unmeasured == {c \in mem[Worker].shortlist : [role |-> "selection", cand |-> c] \notin results}

\* MUTANT of NextFinalist: the selection loop ends after the first finalist.
NextFinalistOnce ==
    /\ pc[Worker] = "select"
    /\ \E c \in Unmeasured : task' = [role |-> "selection", cand |-> c]
    /\ Goto(Worker, IF Cardinality(Unmeasured) = 1 THEN "finalize" ELSE "attempt")
    /\ UNCHANGED <<state, keyed, artifacts, stop, counter, os, mem, opened>>

NextFinalist ==
    /\ pc[Worker] = "select"
    /\ \E c \in Unmeasured : task' = [role |-> "selection", cand |-> c]
    /\ Goto(Worker, "attempt")
    /\ UNCHANGED <<state, keyed, artifacts, stop, counter, os, mem, opened>>

FinalistsDone ==
    /\ pc[Worker] = "select"
    /\ Unmeasured = {}
    /\ Goto(Worker, "finalize")
    /\ UNCHANGED <<state, keyed, artifacts, stop, counter, os, mem, task, opened>>

\* _finalize_run writes the closeout artifacts, the package last.
WritePackage ==
    /\ pc[Worker] = "finalize"
    /\ package' = TRUE
    /\ Goto(Worker, "complete")
    /\ UNCHANGED <<state, keyed, commitment, results, batchFiles, freeze, stop, counter, os, mem,
                   task, opened>>

Complete ==
    /\ pc[Worker] = "complete"
    /\ Journal(Worker, Mark(mem[Worker], "package", "measured_complete"), "ended")
    /\ UNCHANGED <<keyed, artifacts, stop, counter, os, task, opened>>

(***************************************************************************)
(* The candidate child, the other commands, and the end of a process       *)
(***************************************************************************)

\* measure_candidate builds an index...
ChildIndexes(c) ==
    /\ c \in alive
    /\ c.task \notin outputs
    /\ ~partial
    /\ partial' = TRUE
    /\ UNCHANGED <<state, keyed, artifacts, stop, counter, outputs, alive, exit, pc, mem, task,
                   opened>>

\* ... completes it, and writes its output last.
ChildWrites(c) ==
    /\ c \in alive
    /\ c.task \notin outputs
    /\ partial' = FALSE
    /\ outputs' = outputs \cup {c.task}
    /\ UNCHANGED <<state, keyed, artifacts, stop, counter, alive, exit, pc, mem, task, opened>>

\* The child ends: with its output written, with the exit code of a scientific
\* failure, or otherwise at any moment.  From then on its identity cannot be
\* read, as on Windows; a POSIX zombie still has one until it is waited for.
ChildExits(c, code) ==
    /\ c \in alive
    /\ code = "ok" => c.task \in outputs
    /\ code = "science" => c.task \notin outputs
    /\ alive' = alive \ {c}
    /\ exit' = IF pc[Worker] \in {"launched", "waiting"} /\ c = Child THEN code ELSE exit
    /\ UNCHANGED <<state, keyed, artifacts, stop, counter, outputs, partial, pc, mem, task, opened>>

\* The `stop-after-checkpoint` command.  BOUND: given once.
RequestStop ==
    /\ stop = "none"
    /\ state # None
    /\ stop' = "pending"
    /\ UNCHANGED <<state, keyed, artifacts, counter, os, pc, mem, task, opened>>

\* Another run of the same owner store opens its selection split.
OtherRunExposes ==
    /\ counter = "free"
    /\ counter' = "other"
    /\ UNCHANGED <<state, keyed, artifacts, stop, os, pc, mem, task, opened>>

\* A process is killed, or the machine reboots under it; its children may go on.
\* For the worker this is also an exception that none of its handlers names.
Crash(p) ==
    /\ pc[p] \notin {"down", "ended", "conflict"}
    /\ Vanish(p)
    /\ UNCHANGED <<state, keyed, artifacts, stop, counter, outputs, partial, alive, opened>>

Checks(p) ==
    \/ CheckChild(p) \/ QuarantineIndexes(p) \/ ReconcileCounter(p) \/ Leave(p)

\* The steps that a worker that was started takes by itself.
WorkerStep ==
    \/ Checks(Worker)
    \/ Resume \/ Supervise
    \/ Validate \/ RecordLineage \/ RegisterBase \/ WriteCommitment \/ JournalCommitment
    \/ NextCandidate \/ CompleteIteration \/ StopAtCheckpoint \/ PassCheckpoint
    \/ AcknowledgeStop \/ ProposeBatch \/ ProposerFails \/ FreezeBatch \/ FinishGeneration
    \/ Attempt \/ BindChild \/ CannotBindChild \/ ChildFinished \/ ChildTimesOut
    \/ CollectOutput \/ InfrastructureFailure \/ ScientificFailure \/ AcceptResult
    \/ JournalResult \/ ReproduceBaseline
    \/ DeriveShortlist \/ WriteFreeze \/ JournalFreeze \/ SwapCounter \/ JournalExposure
    \/ NextFinalist \/ FinalistsDone \/ WritePackage \/ Complete

Next ==
    \/ Start \/ WorkerStep
    \/ \E v \in Verifiers : Checks(v)
    \/ \E p \in Procs : Load(p) \/ Crash(p)
    \/ \E c \in Children : ChildIndexes(c) \/ ChildWrites(c)
    \/ \E c \in Children, code \in {"ok", "science", "infra"} : ChildExits(c, code)
    \/ RequestStop \/ OtherRunExposes

\* A worker that was started is scheduled until it ends: wait() has a timeout.
Spec == Init /\ [][Next]_vars /\ WF_vars(WorkerStep)

-----------------------------------------------------------------------------
(***************************************************************************)
(* Properties                                                              *)
(***************************************************************************)

\* An accepted result is an artifact, whatever crashed, and a mark is only set
\* on top of what it stands on: the commitment before any result, the
\* reproduction after the baseline's, the freeze after the whole base set.
AcceptedBacked ==
    state # None =>
        /\ \A c \in state.accepted : [role |-> "train", cand |-> c] \in results
        /\ state.accepted # {} => commitment
        /\ "reproduction" \in state.marks => Baseline \in state.accepted
        /\ state.accepted \ {Baseline} # {} => "reproduction" \in state.marks
        /\ "frozen" \in state.marks => Base \subseteq state.accepted /\ freeze = state.shortlist

\* The counter shared by the runs, the freeze receipt and the journal agree:
\* this run takes the counter only for frozen finalists, journals an exposure
\* only if it has the counter, and a worker that resumes after a crash between
\* the two knows of the exposure.
ExposureBound ==
    /\ counter = "ours" => freeze \notin {None, {}}
    /\ state # None /\ state.exposure = 1 => counter = "ours"
    /\ pc[Worker] \in {"resumed", "supervise", "validate"} /\ counter = "ours" =>
          mem[Worker].exposure = 1

\* At most one candidate child runs at a time, and none that a resume or a
\* `verify` released from the journal.
ChildrenInHand ==
    /\ Cardinality(alive) <= 1
    /\ \A c \in alive : \A e \in keyed : e.key # <<"released", c>>

\* A package exists only for a run that measured every finalist on the split it
\* opened once, after the freeze.
PackageIsWhole ==
    package => /\ freeze # None
               /\ \A c \in freeze : [role |-> "selection", cand |-> c] \in results
               /\ counter = "ours" <=> freeze # {}

Validating == \E v \in Verifiers : pc[v] \in {"child", "index", "counter"}

\* A blocked run stays blocked, but for a `verify` that is under way.
BlockedStays ==
    [][state # None /\ ~Validating => (state.stage \in Blocked => state' = state)]_vars

\* No step of a worker journals less than what the journal has: results, marks,
\* attempts, iterations and the exposure are never forgotten.
ProgressKept ==
    [][state # None /\ ~Validating =>
          /\ state.accepted \subseteq state'.accepted
          /\ state.marks \subseteq state'.marks
          /\ \A t \in Tasks : state.attempts[t] <= state'.attempts[t]
          /\ state.batches <= state'.batches
          /\ state.completed <= state'.completed
          /\ state.exposure <= state'.exposure]_vars

\* A worker that was started ends: retries are bounded, a child that hangs is
\* terminated, and nothing in the run waits for anything else.
WorkerEnds == pc[Worker] # "down" ~> pc[Worker] = "down"

\* The artifacts and the counter keep the freeze barrier, through crashes and
\* whatever the other commands do: see FreezeBarrier.
Barrier == INSTANCE FreezeBarrier WITH
    CandidateIds <- Candidates,
    Expectations <- {TRUE},
    NoExpectation <- FALSE,
    Outcomes <- {TRUE},
    NoOutcome <- FALSE,
    expectation <- commitment,
    outcome <- [c \in Candidates |-> [role |-> "train", cand |-> c] \in results],
    frozen <- freeze # None,
    finalists <- IF freeze = None THEN {} ELSE freeze,
    exposures <- IF counter = "ours" THEN 1 ELSE 0,
    revealed <- {c \in Candidates : [role |-> "selection", cand |-> c] \in results}

BarrierSpec == Barrier!Spec

\* control/runbooks/P2_MEASURED_AUTORESEARCH_V2.md:56: "A reboot requires
\* `resume`": a resume that the validation of the journal accepted goes on.
ResumeGoesOn == pc[Worker] # "conflict"

\* control/runbooks/P2_MEASURED_AUTORESEARCH_V2.md:76: "Resume fails closed if
\* the request, Git identity, profile, envelope, journal chain, active child,
\* partial index, accepted-result set, counters, or freeze state disagree": a
\* worker goes on only when no candidate child of the run is active.
ResumeFailsClosed == pc[Worker] = "supervise" => alive = {}

\* src/myis_research/p2/measured_state.py:498, "measured run is terminal after
\* {terminal_stage}; resume is forbidden": a blocked run stays blocked.
BlockedIsFinal ==
    [][state # None => (state.stage \in Blocked => state'.stage \in Blocked)]_vars

=============================================================================
