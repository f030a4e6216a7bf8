# TLA+ verification of the measured runs of myIS

myIS measures candidate retrieval configurations ("arms") of a patent search
system. The parts of it with state, concurrency and failure handling are the
programs that run measurements for hours and must survive crashes, lost
connections and restarts without measuring anything twice or mixing two runs:

- the *measured P2 run*: a supervised worker that registers candidates, measures
  each in a child process, asks a proposer for adaptive candidates, freezes a
  shortlist, opens the selection split **once**, measures the finalists and writes a
  package. Everything it decides is an event of a hash-chained journal;
- the *A1.2 screen*: each arm's process measures its cells into write-once files, on
  the Owner's machine and on a remote one; `finalize` merges the arms, checkpoints
  every cell and returns an archive;
- the *A2 attempt*: a coordinator calls candidates on a remote machine through a pool,
  commits results in frozen order as receipts and ledger rows, and decides once which
  reserve candidates run. On the remote machine a supervisor launches each worker, or
  attaches to it.

Paths below are relative to `src/myis_research/` of the repository.

## Inventory

| Component | State | Operations | Talks to | What is hard | What makes it correct |
|---|---|---|---|---|---|
| Run journal and lease, `p2/measured_state.py` | `lease.lock` (OS lock), `lease.json`, `events/NNN.json`, `state.json`, `request.json`, `owner-paths.json`, artifacts, index directories | `ExclusiveWriterLease`, `initialize`, `load`, `save`/`append_transition`, `write_artifact`, `verify`, `quarantine_partial_indexes`, `validate_resume_state`, `compare_and_swap_selection_counter` | worker (under the lease), `verify` command (without it), other runs (global counter) | a crash between two files; two appenders at one sequence number; idempotency keys; a stale load | the chain always loads, an acknowledged save stays, the snapshot is never ahead, the lease names the holder |
| Candidate lifecycle, `p2/state.py` | candidates, commitment, reproduction, iteration counters, builds, shortlist, receipt, exposures, aggregates | the public methods of `P2RunStateMachine` | called by the executor on every replay and by the synthetic runner | order of calls, ties, budgets, early stop, failures | the freeze barrier (`FreezeBarrier`), a sound shortlist, no way past a failure |
| Measured executor, `p2/measured_executor.py` | a copy of the journaled state in memory; child processes | `run_measured_execution`, `_measure_with_retry`, `_measure_selection_with_retry`, `_subprocess_candidate_executor`, `_stop_at_checkpoint`, `_finalize_run` | journal, lifecycle, child, proposer | crash between artifact and event, timeout against a late answer, retries, one exposure among several runs | accepted results are backed, exposure is bound to the freeze, at most one child, the worker ends |
| Measured supervisor, `p2/measured_supervisor.py` | startup receipts, stop request | detached launch, `run_worker`, `request_stop_after_checkpoint`, `verify_run`, synthetic loop | lease, journal, executor | who owns the run, stop against progress, verify against a run | resume is accepted only where it can go on, and fails closed otherwise |
| Adaptive proposer, `p2/proposer.py` | invocation and batch artifacts | two attempts, recovery of a crashed one | executor | crash between two artifacts | one batch per iteration |
| Candidate measurement, `p2/measured_adapter.py` | index directory, output file | build, evaluate, write output | executor | partial index, output written late | output is whole or absent |
| P2 contracts and preflight, `p2/contracts.py`, `p2/measured_contracts.py`, `p2/preflight.py`, `p2/fixture.py` | none | validation, canonical hashing, immutable write | all of P2 | immutable write against a race | a name is written once |
| Ledgers, `ledger.py` | chained records in a directory, writer lock | `append`, `validate_chain`, supersession | reports and dashboards | two previews on one head, a fork that is reconciled | exactly one chain |
| AutoIndex, `armindex/autoindex.py` | state of one arm search | `advance_autoindex` | campaign runners | budgets, stopping, replay | no candidate twice, budget kept |
| A1.2 screen of an arm, `armindex/a1_2_owner_local_measured_runner_v16.py` | per cell: ranking, receipt, metrics, commit marker, failure sidecar; `screen.json` | run or rerun over what is there: validate, archive a partial cell, execute, write | launcher, merge | process loss between any two files, also while archiving | a rerun never meets a conflict, a cell is settled once, a screen receipt stays true |
| A1.2 launch and lifecycle, `armindex/a1_2_remote_measured_launcher_v16.py`, `a1_2_execution_lifecycle_v16.py`, `a1_2_safe_return_builder_v16.py` | remote root, local copies, merged root, `attempt.json`, `state.json`, results, checkpoints, teardown, archive | stage and launch, collect, finalize (merge, checkpoint, complete, tear down, return) | arms, SSH | a torn or early collection, a finalize that is lost and repeated | what is merged is whole, an attempt is completed by one finalize, the return is bound to its checkpoints |
| A2 coordinator, `armindex/a2_operational_executor.py`, `a2_execution_readiness.py`, `a2_remote_transport.py` | `attempt.lock`, receipts, checkpoint ledger, reserve decision; a pool of calls | `execute_external_candidate_set`: read, lock, call, commit, decide, pause | remote supervisors over SSH | reads before the lock, crash between receipt and row, failures among siblings, a second admission | receipts in order, the ledger never ahead and at most one behind, one decision |
| A2 remote supervisor, `armindex/a2_remote_candidate.py`, `a2_remote_retriever.py` | `process.identity.json`, `heartbeat.json`, `cancel.request.json`, `worker.stdout`, `result.json`, `supervisor.lock` | launch, attach, reap, recover, cancel | the coordinator, its worker | an SSH loss anywhere, a worker that ends while it is reaped, a hung worker | one worker, a final result, a fate settled once, the supervisor ends |
| A3, A4, A6 executors and launchers | remote packages | packaging, SSH, validation | remote machines | remote failure | - |
| Progress, `progress.py` | counters and a heartbeat thread | start, advance, finish | every runner | heartbeat against the end | nothing after the end |
| Reports, dashboard, MLflow mirror | derived files | rendering, copying | ledgers | - | - |

`PROJECT.json` has the same list with what is modelled of each, and the hazards:
each place in this code where an order of steps, a crash, a stale read or a
boundary can go wrong in a way a test would hardly reach.

## Modules

```
FreezeBarrier  (abstract: what a P2 run promises)
   ^ implemented by P2StateMachine   -- MCP2Shortlist, MCP2EarlyStop,
                                        P2StateMachineProofs, P2ShortlistProofs
   ^ implemented by MeasuredRun      -- MCMeasuredRun, MeasuredRunProofs
RunJournal                           -- MCRunJournal, RunJournalProofs

CandidateFate  (abstract: a piece of work is settled once)
   ^ implemented by RemoteCandidate  -- MCRemoteCandidate, RemoteCandidateProofs
   ^ used by        A2Executor       -- MCA2Executor, A2ExecutorProofs
   ^ implemented by ArmScreen        -- ArmScreenProofs
                       |
                    ScreenAttempt    -- MCScreenAttempt, ScreenAttemptProofs
```

**`FreezeBarrier`** is abstract: the baseline expectation is fixed before any train
outcome, each outcome is recorded once, the finalists are fixed among measured
candidates before the selection split is opened, it is opened at most once, and it
reveals one aggregate for each finalist and nothing else. Two programs implement
it: the object `P2RunStateMachine`, and the durable files of a measured run.

**`P2StateMachine`** is `P2RunStateMachine`: one action per method that changes the
object, guarded by its raises. `candidates` maps each identifier to its row
(`status`, `class`, `iteration`, `metric`, `builds`); `commitment`, `reproduction`,
`search` (completed iterations, best metric, streak, early-stop flag), `builds`,
`stopReason`, `shortlist`, `freezeReceipt`, `exposures` and `selected` are the
attributes of the same meaning. A metric is a natural number from `Values`;
hashes, axes and lineage are left out, since every use of them is an equality
check of the caller's argument. A call that raises changes nothing, but for
`record_train`, which raises the build counter before it checks the limit; the
model keeps the raised counter.

**`RunJournal`** has the grain of one durable effect: taking the OS lock, writing
`lease.json`, each of the two files of `initialize`, the load of all events, the
exclusive link of an event file, the replacement of `state.json`, the closing lease
metadata, the release of the lock. Workers do this under the lease, `verify`
commands without it. `journal` is the directory of event files (its index is the
sequence number, `prev` the chained hash), `snapshot` the sequence number in
`state.json`, `bound` the files of `initialize`, `seen` the position of the state a
process holds, `at` the event that its save found or appended. `Crash(p)` is
possible between any two effects.

**`MeasuredRun`** is a whole run. Durable: `state` (the payload of the last event),
`keyed` (the events whose key can come back: validation, child release, counter
reconciliation), `commitment`, `results`, `batchFiles`, `freeze`, `package`
(artifacts), `outputs`, `partial` (work files), `stop`, `counter`. The operating
system: `alive`, `exit`. Processes: `pc`, `mem`, `task`. Each action of the worker
ends at the next durable effect, so that `Crash(Worker)` and the other actors
interleave at every point where they could be told apart:

- `Start`, `Load`, `CheckChild`, `QuarantineIndexes`, `ReconcileCounter`, `Resume`,
  `Supervise`: `run_worker` with `validate_resume_state`; the middle three are also
  `verify_run`, without the lease;
- `Validate` to `JournalCommitment`: inputs, base registration, baseline commitment;
- `NextCandidate`, `CompleteIteration`, `StopAtCheckpoint`, `PassCheckpoint`,
  `ProposeBatch`, `FreezeBatch`, `FinishGeneration`: the loops of
  `run_measured_execution`;
- `Attempt` to `CollectOutput`: `_subprocess_candidate_executor`;
  `InfrastructureFailure`, `ScientificFailure`, `AcceptResult`, `JournalResult`: the
  two retry loops;
- `DeriveShortlist` to `Complete`: shortlist, freeze, exposure, finalists, package;
- `ChildIndexes`, `ChildWrites`, `ChildExits`: the candidate child;
  `OtherRunExposes`: another run of the same owner store; `RequestStop`: the Owner.

What `MeasuredRun` abstracts, and why it is sound for what it states:

- an append with its snapshot is one step. `RunJournal` shows that the snapshot is
  rebuilt from the journal, so a crash between the two is not seen by a load;
- metrics, seconds and index builds are the choices they decide (a budget suffices
  or not, a candidate is eligible or not). Which choice the numbers justify is the
  subject of `P2StateMachine`;
- an exited child can no longer be identified, as on Windows. On POSIX a zombie
  still can until it is waited for, which only removes behaviours;
- keys that name what they record (`candidate:...:attempt`, hashes) are not kept in
  `keyed`: a worker that comes back to them would have to pass `Validate`, which
  refuses it once the lineage is journaled (finding 1). When that is repaired, these
  keys have to be added before the model says anything of a second pass;
- an append of the worker never loses its sequence number to `verify`. `RunJournal`
  has that loss; what the executor makes of the exception is not modelled (see
  hazards).

**`CandidateFate`** is abstract: a piece of measured work is open until its result is
recorded or it is lost, and then stays what it is.

**`RemoteCandidate`** is `supervise_candidate` for one candidate, with the files it
leaves on the remote machine, the worker it launches, and the request that
`RemoteExecutor.cancel_and_reap` writes. A worker is a process identifier with its
start time, which is what the identity file records, so that it is never used twice.
The locations of a supervisor are the points between which another actor or the loss
of the connection matters: `look` (result and identity read), `reap`, `check` (about to
look for a cancellation), `launch`, `spawned` (the worker runs and no file names it),
`watch`, `stop`. `stdout` has the kinds of output the code tells apart; `foreign` is what
the retriever prints when it fails, a JSON object that is no result. `strays` is a
history variable: workers whose supervisor was lost while they were `spawned`.

**`A2Executor`** is `execute_external_candidate_set` under authority v4. A candidate is
its position in the frozen order; what happens to it on the remote machine is one
`CandidateFate`, which `RemoteCandidate` implements, so that the composition stays
small. `receipts`, `ledger` and `decision` are the files, `mem` is what an executor
holds: completed receipts, the sequence number and the hash it goes on from, the futures
that run or ended, the results that wait. The hash of a row covers its fields and the
hash of the row before, and nothing else that could differ between executors of an
attempt (no time, no process), so `Hash` is the chain of entries itself. An executor reads receipts (`Start`) and ledger
(`LoadLedger`) before it takes the lock (`TakeLock`), as the code does. `Collect` and
`WriteReceipt` interleave freely, which covers every batch that `wait` may return.
`verdict` is what the frozen predicate says of the matched receipts: unknown to the
model, but the same every time.

An executor lost between a receipt and its row leaves the receipts one ahead, and an
executor that goes on from an old ledger can do the same when its row is refused. From
then on every start raises (`Resumable` compares the counts): the code fails closed, and
the attempt needs a hand. `LedgerKeepsUp` says that this is all that can happen: no order
of losses, starts and stale executors leaves a second receipt without a row.

**`ArmScreen`** is the measured screen of one arm. `art[c]` holds, for each of the four
files of a cell, the execution that wrote it; files of two executions differ, because
the metrics hold timings, and validate together only when one execution wrote them
all. **`ScreenAttempt`** extends it with the launch over SSH, the collection, and
`finalize_distributed_production` with the lifecycle behind it, in the order of its
writes, lost at any point and run again over the same or a fresh merged root. Assumed
of the operator, because no lock of the code sees to it: one process at a time screens
an arm into one output root, and one finalize runs at a time. A remote arm is launched
once, since the remote root must not exist.

## Runs

| Run | Bounds | What it shows |
|---|---|---|
| `run_journal` | 2 workers, 1 verify, 2 keys, 2 states, 3 events | 2.7 M states. Key reused for the same and for another transition, two appenders at one number, crash at every effect, a predecessor's closing metadata against its successor: chain, acknowledged saves, snapshot, lease and workers' views stay right. Deadlock is checked. |
| `p2_shortlist` | 4 candidates (2 base, 2 adaptive), metrics 0..3, builds 1 or 2 of at most 6 | 250 k states. Four values are enough for a tie at the boundary of a shortlist of two, for a candidate equal to the baseline, and for one above a tied group. |
| `p2_early_stop` | 4 iterations of 1 candidate, minimum 3, patience 1, metrics 0..2 | 29 k states. Every history of improvement up to the end, against a definition from the outcomes instead of from counters. |
| `measured_run` | 2 base candidates, 1 iteration of 1, 2 finalists, worker started twice, 1 stop | 562 k states. All safety, step and liveness properties of a run, and that its artifacts implement `FreezeBarrier`. |
| `remote_candidate` | 2 supervisors, 3 launches, 1 cancellation | 25 k states. One known worker, a final result, `CandidateFate`, and that each supervisor ends. |
| `a2_executor` | 2 executors, 2 starts, 2 arms, 3 matched (two of one arm) and 2 reserve candidates, 2 admissions | 730 k states. Order of receipts, the ledger neither ahead of the receipts nor more than one behind, one decision, termination. |
| `screen_attempt` | a local and a remote arm of 2 cells, 3 starts, 2 merged roots, 2 runs of finalize | 3.2 M states. Reruns without conflict, cells settled once, whole merges, one run completes, a bound return. |
| `resume_refused` | 1 base candidate | Finding 1. |
| `resume_with_child` | 1 base candidate | Finding 2. |
| `verify_unblocks` | 1 base candidate, 1 verify | Finding 3. |
| `second_worker` | as `remote_candidate` | Finding 4. |
| `paused_cannot_resume` | as `a2_executor` | Finding 5. |

Bounds, each named in its module: `MaxEvents` (events in the journal),
`Limit`/`MaxWorkers`, `MaxStarts` and `MaxRuns` (starts of a process, of an executor,
of an arm, of `finalize`), `Workers` (launches of a remote worker), `Admissions`
(admission bundles an executor can be started with), one stop request, one
cancellation, one call of `record_train` over the build budget (the counter only grows
afterwards, and each later call raises as well), the sets of metrics and build counts.
A second process is what matters for crash and resume; a third meets the same durable
states. Three starts of an arm are needed for a loss while the archiving of an earlier
loss goes on. `run_journal` checks deadlock. The other runs do not: a run that is
closed, blocked or out of starts, an attempt that is paused, a candidate whose
cancellation is durable and an arm with a failed cell really stop there. That nothing
stops earlier is `WorkerEnds`, `SupervisorEnds` and `ExecutionEnds`.

Symmetry is used where no liveness is checked and no constant distinguishes the
permuted values (candidates; workers, keys, states).

`BlockedStays` and `ProgressKept` are stated for steps during which no `verify` is under
way, and `measured_run` has no `verify` command. With one, `BlockedStays` still holds
(`BlocksStay` proves it for any number), and so do the invariants and the refinement.
`ProgressKept` does not: a worker that resumes between two appends of a `verify` holds the
older state, and journals it after the `verify` has reconciled the exposure and ended.
This is the missing lock of finding 3 once more, and why the theorem about it is
`ProgressUntilVerify`.

### Fairness

Fairness is assumed of a program's own steps once it was started, and of nothing
else: an ordinary process that can take a step takes one. A crash is never required
to happen, and no fairness is assumed of children, workers, the Owner, other runs,
`verify` or whoever starts a process.

- `WorkerEnds` (`WF_vars(WorkerStep)`): the only place where the worker waits for
  another actor is the child's `wait`, which has the profile's timeout and then
  terminates the child, so that `ChildTimesOut` keeps `WorkerStep` enabled.
- `SupervisorEnds` (weak fairness of `SupervisorStep(s)` for each supervisor): a
  worker may hang, and is watched up to a time limit, which is `GiveUp`.
- `ExecutionEnds` (weak fairness of `ExecutorStep(e)` for each executor): a call of
  `RemoteExecutor` has a time limit of its own, so that `CallReturns` needs nothing
  of the remote machine.

## Findings

1. **A run that recorded its data lineage cannot be resumed** (`resume_refused`).
   `run_measured_execution` journals its first transition under the constant key
   `owner-inputs-validation-started` (`p2/measured_executor.py:71`). On resume the
   state has `dataset_lineage_sha256`, so the same key names another transition and
   `_append_event` raises. The runbook says a reboot requires `resume`.
2. **A resume can go on beside a running child** (`resume_with_child`). The child is
   started before the event that records it; a worker killed in between leaves a
   child that no state names, and the resume quarantines the index it is building.
3. **`verify` can unblock a blocked run** (`verify_unblocks`). It appends a state it
   loaded before the worker journaled `blocked_scientific`, whose stage is not
   blocked, and it does so without the writer lock that the runbook calls the
   single-writer authority.
4. **A second worker can be launched** (`second_worker`). The supervisor starts the
   worker (`armindex/a2_remote_candidate.py:385`) before it writes the identity file
   (`:413`). Lost in between, it leaves a worker that no file names; the next
   supervisor takes the candidate for a fresh one and launches another, which shares
   `worker.stdout` with the first. The module says it recovers "without launching a
   second worker" (`:4-6`). `OneWorker` is therefore stated of the workers that are
   known, and `strays` are those that are not.
5. **A paused attempt need not be resumable** (`paused_cannot_resume`). After a failed
   call the sibling calls are cancelled on the remote machine, which leaves a
   `cancel.request.json` for each candidate without a result. Nothing removes it, and
   the supervisor refuses to run the candidate while it is there (`:377`); the row
   appended next says `PAUSED` with `resume_allowed=True`
   (`armindex/a2_operational_executor.py:1112-1121`), and the goal document says
   "Resume only from the ledger".

## Proofs

Proved by TLAPS for every value of the constants that satisfies the assumptions named
in the modules. TLC evaluates the assumptions in the runs.

`RunJournalProofs` (`ProcsDisjoint`, `NoneIsFresh`, `InitKeyIsFresh`):

- `TypeCorrect`: `TypeOK`, from `TypeInv`, which adds that a process past `AppendLoad`
  has a pending transition;
- `LeaseCorrect`: `LeaseNamesHolder`, from `LeaseInv`. The lease metadata alone is not
  inductive: one needs that a process inside the lock's section is the one the lock
  names, so that no other can write in between;
- `ChainStaysIntact`, `AckedStays`, `SnapshotBehind`, `WorkersInOrder`: `ChainIntact`,
  `AckedSavesDurable`, `SnapshotNeverAhead`, `WorkersSeeEachOther`, from `JournalInv`. Its
  heart is what a process knows between its load and its link: `loaded` is a prefix of
  the journal, `tail` is the key of its last event, and its own key is not in that
  prefix. The exclusive link succeeds only if the prefix is still the whole journal, and
  then the key is new. For `WorkersSeeEachOther` one needs in addition that events
  beyond what the lock's holder has seen are by `verify` commands;
- `EventsStay`: `EventsImmutable`.

`P2StateMachineProofs` (`ValuesAreNumbers`, `LimitsAreNumbers`, `BuildsAreNumbers`,
`ReasonsOK`, `NoneIsNoCommitment`):

- `TypeCorrect`: `TypeOK`;
- `FailureIsFinal` and `ClosedRunComplete`: `FailureStopsTheRun` and `ClosedIsComplete`,
  from `LifecycleInv`, which ties the state to what must be there already: beyond train
  evaluation nothing is failed and the shortlist has measured candidates; aggregates are
  of finalists only; an exposure has a receipt;
- `BarrierCorrect`: `Spec => BarrierSpec`, the refinement of `FreezeBarrier`. Each method
  maps to one abstract step or to a stutter.

`P2ShortlistProofs` (the same assumptions):

- `BaseFixed`, `IterationsClosed`: `BaseFixedByCommitment` and
  `NoOpenIterationLeft`, from `GenerationInv`: with a commitment the allocation of each class is used up, so that `RegisterBase` is refused; `iterated` is
  the adaptive candidates up to the last completed iteration; each completed iteration
  is full. A step registers one candidate or leaves classes and iterations alone
  (`OthersKeep`);
- `ShortlistCorrect`: `ShortlistSound`. The number of untied candidates above a finalist
  is below `MaxFinalists` and differs between finalists (`HigherHasFewer`), so that by the
  pigeonhole principle there are at most `MaxFinalists`. That every registered candidate
  is measured when the rule is applied, and that the baseline has a metric, is
  `ShortlistInv`. That only finitely many are registered is proved, not assumed;
- `BuildsInBudget`: `RecordedBuildsInBudget`, from `BudgetInv`. The property counts the
  set of recorded builds (`<<c, k>>` is the k-th of candidate c) instead of adding up the
  rows, so that an outcome adds n new elements and no induction over a sum is needed. A
  candidate that is only generated has no builds, which is what makes them new;
- `EarlyStopJustified`: `EarlyStopMatchesHistory`, from `HistoryInv`, which says of each
  number n of completed iterations what their best metric is, and that it equals
  `best` exactly when n is within the streak. The invariant carries the maximum along, so
  that no induction over the history is needed. An outcome of a completed iteration
  never changes.

`MeasuredRunProofs` (`WorkerIsNoVerifier`, `BoundIsNumber`, `OrdersAreSequences`,
`NoneIsNothing`), for any number of workers started one after the other, any number of
verify commands, and any base candidates and batches:

- `TypeCorrect`: `TypeOK`, from `TypeInv`;
- `ResultsAreBacked`, `ExposureAgrees`, `OneChildRuns`, `PackagesAreWhole`, `BlocksStay`:
  `AcceptedBacked`, `ExposureBound`, `ChildrenInHand`, `PackageIsWhole`, `BlockedStays`, all
  from `RunInv`. The difficulty is that the journaled state is not monotone: a `verify` may
  journal a state it loaded long ago, and a later worker may load that one. `RunInv`
  therefore speaks of every `Known` state: the journaled one, those that processes hold,
  and those behind a key that can come back. Its argument: (`StartInv`) a state
  without the lineage is the first state but for its stage, and only such a state is
  behind the constant key of `Validate`, so that no worker with a recorded lineage gets
  past it; (`CommitInv`) until the commitment nothing is measured, launched or released,
  and a worker that finds a commitment it has not journaled ends, so that one worker at
  most ever measures; (`ChildInv`, `TrainInv`, `SelectInv`) what this worker has in memory is
  the authority on the children, results, freeze and counter; (`BackedInv`) whatever
  another process journals is a `Known` state and is backed by artifacts already;
- `BarrierCorrect`: `BarrierSpec`, the refinement of `FreezeBarrier` by the artifacts and the
  counter. `WriteCommitment`, `AcceptResult`, `WriteFreeze` and `SwapCounter` each map to one
  abstract step (`CommitSeen`, `ResultSeen`, `FreezeSeen`, `ExposeSeen`), everything else, the
  crashes and the `verify` commands included, to a stutter (`ArtifactsStay`);
- `ProgressUntilVerify`: until a `verify` command is started, no step journals less than
  what the journal has, from `ProgressInv`: the worker has all that the journal has.
  `ProgressIsKept` is `ProgressKept` of a run without `verify` commands, which is what the run
  checks. Once a `verify` command was started it may journal a state it loaded earlier
  (finding 3), so the theorem ends there.

`RemoteCandidateProofs` (`NoneIsFresh`):

- `TypeCorrect`; `OneWorkerRuns`: `OneWorker`, from `ClaimInv`. The lock makes one
  supervisor busy; what that one has in hand is the identity on disk; and where it is
  about to launch, no known worker runs. This is what the check of the identity before
  the launch buys, and what finding 4 lacks for a worker that no file names;
- `ResultStays`: `ResultFinal`; `FateRefined`: `FateSettledOnce`, the refinement of
  `CandidateFate`, from `LostStays`: a lost candidate has no result, no worker that runs
  and no supervisor that could still find or launch one, and no step leads back.

`A2ExecutorProofs` (`SizesOK`, `ArmOfOK`, `NoneIsFresh`):

- `TypeCorrect`; `ReceiptsInOrder`: `CommitsInOrder`; `DecisionHolds`: `OneDecision`, both
  from `CommitInv`: everything an executor holds as completed is a receipt, without a gap
  in the frozen order, and from the decision on the matched set is complete. `Held`
  says this of each executor's memory: what it holds as done is recorded without a gap,
  and past the decision it has the whole matched set. It outlives the steps of others
  because neither a receipt nor the decision is ever removed;
- `LedgerFollows`: `LedgerNeverAhead`; `DecisionIsFinal`: a decision is never replaced;
- `LedgerCatchesUp`: `LedgerKeepsUp`, from `KeepInv`. Not every executor that writes a
  receipt holds the end of the ledger, but each one goes on from receipts that some row
  counts (`Counted`): it compared them when it loaded the ledger, or appended their row
  itself, and rows stay. The candidate it writes next is at most one beyond them, however
  far the others are.

`ArmScreenProofs` and `ScreenAttemptProofs` (`CellCountOK`, `ArmOfOK`, `ArmsHaveCells`,
`LocalArmOK`, `MaxStartsOK`, `MaxRunsOK`):

- `RerunsGoOn` and `ReceiptsAreTrue`: `NoConflict` and `ScreenIsTrue`, from `ArmInv`. Its
  heart is `AtCell`: a process that writes finds, in each place of its current cell, its
  own file or none. This holds because a cell with some files missing is emptied first,
  even if the emptying was itself cut off, and because a cell with four files is whole.
  Arms do not disturb each other (`Untouched`, `OneArm`);
- `CellsSettleOnce`: `CellSettledOnce`, the refinement of `CandidateFate`. The same fact,
  `Settled`, says that a whole cell is never touched again, and carries the merge:
- `MergesAreWhole`: `MergedIsWhole`, from `MergeInv`: a copied cell that is whole is the
  committed one, however early the copy was taken;
- `OneRunPerAttempt` and `ReturnsAreBound`: `OneRunCompletes` and `ReturnBound`, from
  `FinalInv`: the cells that a run of `finalize` has gone through are checkpointed by this
  run and with what it merged (`Cited`), so that leftovers of a lost run cannot be in a
  completed attempt. The ranking and the receipt of a merged cell are of one execution
  because the merge is whole;
- `TypeCorrect`: `TypeOK`.

Only model-checked: `WorkerEnds`, `SupervisorEnds` and `ExecutionEnds` (liveness under
fairness, which is out of the prover's reach), and the five violations, which are
counterexamples. Every invariant, step property and refinement of a passing run is proved,
`ProgressKept` for runs without `verify` commands.

Every property has a mutant, kept in its module beside the definition it changes: a
plausible mistake in the code under which TLC finds the property violated.

## Not modelled

The contents of artifacts and the validation of their schemas and hashes; files
changed by hand or by a disk; the detached launcher of the P2 worker, its startup
receipt and the synthetic loop; an append of the executor that loses its sequence number
to `verify`; the proposer's two attempts; candidate measurement; ledgers; AutoIndex; the
processes and heartbeats of the A1.2 lifecycle (the v16 launcher registers none) and its
`mark_interrupted`; the sequential A2 authorities v1 to v3 and the validation of
admissions; A3 to A6; progress; reports, dashboard and MLflow. Reports (the largest part
of the source by lines), dashboard, MLflow and the packaging of remote runs are copying,
validation and formatting around files and services, and will stay out.

## Plan

1. Done: `FreezeBarrier`, `P2StateMachine`, `RunJournal`, `MeasuredRun` and the first proofs.
2. Done: `CandidateFate`, `RemoteCandidate`, `A2Executor`, `ArmScreen`, `ScreenAttempt` and
   their proofs; `P2ShortlistProofs`.
3. Done: `MeasuredRunProofs`; the build budget and the early stop in `P2ShortlistProofs`.
4. `WorkerLaunch`: the detached launcher, startup receipt and stop/acknowledge of the
   synthetic loop (two starts, a second stop).
5. The executor's append that loses to `verify`, as an extension of `MeasuredRun`.
6. `Ledger`: preview, append under the writer lock, fork and supersession; implements
   an abstract single chain.
7. `AdaptiveProposer`: attempts, artifacts and recovery; `AutoIndex`; the composition of
   `A2Executor` with `RemoteCandidate` in place of `CandidateFate`.
