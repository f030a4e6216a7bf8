----------------------------- MODULE A2Executor -----------------------------
(***************************************************************************)
(* One A2 attempt as its coordinator runs it                               *)
(* (src/myis_research/armindex/a2_operational_executor.py,                 *)
(* execute_external_candidate_set under authority v4): the frozen matched  *)
(* candidates, then the reserve candidates that one decision activates,    *)
(* each called on the remote machine by a pool with one worker for each    *)
(* arm, and committed in frozen order as an immutable receipt and a row of *)
(* the checkpoint ledger.                                                  *)
(*                                                                         *)
(* A candidate is its position in the commit order.  What a call does on   *)
(* the remote machine is CandidateFate, which RemoteCandidate implements.  *)
(* An executor process reads the receipts and the ledger before it takes   *)
(* the attempt lock.  A step is one durable effect or one such read.       *)
(*                                                                         *)
(* Metrics, hashes and schemas are left out; verdict is what the frozen    *)
(* predicate says of the matched receipts.  An I/O error inside a step is  *)
(* a crash.                                                                *)
(***************************************************************************)
EXTENDS Integers, Sequences, FiniteSets

CONSTANTS
    Executors,     \* processes that may run the attempt
    MatchedCount,  \* matched candidates: 1..MatchedCount
    ReserveCount,  \* reserve candidates, after them
    ArmOf,         \* arm of each candidate
    Admissions,    \* reserve budget admissions an executor may be given
    None,
    MaxStarts      \* bound on the number of executions

Total == MatchedCount + ReserveCount
Candidates == 1..Total
Matched == 1..MatchedCount
Reserves == Candidates \ Matched
Arms == {ArmOf[c] : c \in Candidates}
ReserveArms == {ArmOf[c] : c \in Reserves}

ASSUME SizesOK == MatchedCount \in Nat /\ ReserveCount \in Nat
ASSUME ArmOfOK == DOMAIN ArmOf = Candidates
VARIABLES
    \* durable, on the Owner's machine
    receipts,      \* receipts/<candidate>.json
    ledger,        \* the checkpoint ledger: a sequence of rows
    decision,      \* reserve-activation-decision: [adm, active]
    \* the remote machine
    fate,          \* of each candidate; see CandidateFate
    called,        \* candidates that were ever called
    \* the environment
    lock,          \* holder of attempt.lock
    verdict,       \* what the predicate says of the matched receipts
    starts,
    \* executors
    pc, mem

durable == <<receipts, ledger, decision>>
world == <<fate, called, verdict>>
vars == <<durable, world, lock, starts, pc, mem>>

Remote(c) == INSTANCE CandidateFate WITH fate <- fate[c]

ReceiptKinds == {"none", "measured", "dormant"}
\* A row of the ledger with the hash of the row it was built on.  The hash of a
\* row covers its entry and that hash: it stands for all the entries up to it.
Entry == [seq: Nat, status: {"RUNNING", "PAUSED"}, done: Nat]
Row == [seq: Nat, status: {"RUNNING", "PAUSED"}, done: Nat, previous: Seq(Entry)]
Hash(row) ==
    Append(row.previous, [seq |-> row.seq, status |-> row.status, done |-> row.done])

Decision == [adm: Admissions, active: SUBSET ReserveArms]
ASSUME NoneIsFresh == None \notin Executors \cup Admissions \cup Decision

\* The arms the frozen predicate activates, unless the matched receipts tie.
Verdict == [tie: BOOLEAN, active: SUBSET ReserveArms]

\* What an executor holds in memory: completed receipts, the sequence number
\* and the hash of the row it continues from, the futures that run, those that
\* ended well or badly and were not looked at yet, the results that wait to be
\* committed.
Memory == [done: SUBSET Candidates, seq: Nat, previous: Seq(Entry), stage: {1, 2},
           active: SUBSET Candidates, good: SUBSET Candidates,
           bad: SUBSET Candidates, results: SUBSET Candidates,
           adm: Admissions \cup {None}]

Blank == [done |-> {}, seq |-> 0, previous |-> <<>>, stage |-> 1, active |-> {}, good |-> {},
          bad |-> {}, results |-> {}, adm |-> None]

Ended == {"idle", "matched", "complete", "raised"}
Locations == Ended \cup {"ledger", "genesis", "lock", "run", "row", "unwind",
                         "pause", "decide", "continue"}

TypeOK ==
    /\ receipts \in [Candidates -> ReceiptKinds]
    /\ ledger \in Seq(Row)
    /\ decision \in Decision \cup {None}
    /\ \A c \in Candidates : fate[c] \in {"open", "recorded", "lost"}
    /\ called \in SUBSET Candidates
    /\ lock \in Executors \cup {None}
    /\ verdict \in Verdict \cup {None}
    /\ starts \in Nat
    /\ pc \in [Executors -> Locations]
    /\ mem \in [Executors -> Memory]

Init ==
    /\ receipts = [c \in Candidates |-> "none"]
    /\ ledger = <<>>
    /\ decision = None
    /\ fate = [c \in Candidates |-> "open"]
    /\ called = {}
    /\ lock = None
    /\ verdict = None
    /\ starts = 0
    /\ pc = [e \in Executors |-> "idle"]
    /\ mem = [e \in Executors |-> Blank]

-----------------------------------------------------------------------------
Recorded == {c \in Candidates : receipts[c] # "none"}

Goto(e, where) == pc' = [pc EXCEPT ![e] = where]

\* The execution returns or raises; the operating system drops its lock.
Finish(e, how) ==
    /\ Goto(e, how)
    /\ mem' = [mem EXCEPT ![e] = Blank]
    /\ lock' = IF lock = e THEN None ELSE lock

Stage(m) == IF m.stage = 1 THEN Matched ELSE Reserves
Pending(m) == Stage(m) \ m.done
Activated(c) == c \in Reserves => ArmOf[c] \in decision.active
IsNext(m, c) == c \in Pending(m) /\ \A d \in Pending(m) : c <= d

\* submit_next: for each arm that is not busy, the first of its queue.
Submittable(m) ==
    LET queue == {c \in Pending(m) \ (m.results \cup m.active) : Activated(c)} IN
    {c \in queue : /\ \A d \in m.active : ArmOf[d] # ArmOf[c]
                   /\ \A d \in queue : ArmOf[d] = ArmOf[c] => c <= d}

\* Executor e goes on with memory m, with every idle arm set to work.
Dispatch(e, m) ==
    /\ mem' = [mem EXCEPT ![e] = [m EXCEPT !.active = @ \cup Submittable(m)]]
    /\ called' = called \cup Submittable(m)

\* append_lifecycle_checkpoint: the row must follow the last one, in its number
\* and in the chain.
Follows(m) ==
    /\ ledger # <<>>
    /\ ledger[Len(ledger)].seq = m.seq
    /\ Hash(ledger[Len(ledger)]) = m.previous
NewRow(m, status) ==
    [seq |-> m.seq + 1, status |-> status, done |-> Cardinality(m.done),
     previous |-> m.previous]

-----------------------------------------------------------------------------
(* The start of an execution, before the lock.                             *)

\* The receipts are read.
Start(e, adm) ==
    /\ pc[e] \in Ended /\ starts < MaxStarts
    /\ starts' = starts + 1
    /\ Goto(e, "ledger")
    /\ mem' = [mem EXCEPT ![e] = [Blank EXCEPT !.done = Recorded, !.adm = adm]]
    /\ UNCHANGED <<durable, world, lock>>

ChainHolds ==
    \A i \in DOMAIN ledger :
        /\ ledger[i].seq = i
        /\ ledger[i].previous = IF i = 1 THEN <<>> ELSE Hash(ledger[i - 1])

\* MUTANT of Resumable: the ledger is not compared with the receipts.
ResumableAnyCount(m) ==
    /\ ChainHolds
    /\ m.done \cap Reserves = {} \/ decision # None

\* resume_checkpoint, and the comparison with the receipts.
Resumable(m) ==
    /\ ChainHolds
    /\ ledger[Len(ledger)].done = Cardinality(m.done)
    /\ m.done \cap Reserves = {} \/ decision # None

LoadLedger(e) ==
    /\ pc[e] = "ledger" /\ ledger # <<>>
    /\ IF Resumable(mem[e])
       THEN /\ mem' = [mem EXCEPT ![e].seq = Len(ledger),
                                  ![e].previous = Hash(ledger[Len(ledger)])]
            /\ Goto(e, "lock")
            /\ UNCHANGED lock
       ELSE Finish(e, "raised")
    /\ UNCHANGED <<durable, world, starts>>

\* No ledger: the genesis row is appended.  The file is looked for again
\* (append_lifecycle_checkpoint) and then written; both without the lock.
NoLedger(e) ==
    /\ pc[e] = "ledger" /\ ledger = <<>>
    /\ Goto(e, "genesis")
    /\ UNCHANGED <<durable, world, lock, starts, mem>>

WriteGenesis(e) ==
    /\ pc[e] = "genesis"
    /\ ledger' = Append(ledger, NewRow(mem[e], "RUNNING"))
    /\ mem' = [mem EXCEPT ![e].seq = 1, ![e].previous = Hash(NewRow(mem[e], "RUNNING"))]
    /\ Goto(e, "lock")
    /\ UNCHANGED <<receipts, decision, world, lock, starts>>

\* _attempt_lock does not wait.
TakeLock(e) ==
    /\ pc[e] = "lock"
    /\ \/ /\ lock = None
          /\ lock' = e /\ Goto(e, "run") /\ Dispatch(e, mem[e])
       \/ /\ lock # None
          /\ Finish(e, "raised")
          /\ UNCHANGED called
    /\ UNCHANGED <<durable, fate, verdict, starts>>

-----------------------------------------------------------------------------
(* run_stage: the pool, the commits, and the way out of a failure.         *)

\* MUTANT of CallReturns: a call has no time limit and waits for a result.
CallReturnsResult(e, c) ==
    /\ c \in mem[e].active \ (mem[e].good \cup mem[e].bad)
    /\ fate[c] = "recorded" /\ mem' = [mem EXCEPT ![e].good = @ \cup {c}]
    /\ UNCHANGED <<durable, world, lock, starts, pc>>

\* RemoteExecutor.__call__ in its thread: a recorded result is returned and
\* evaluated, or the call fails: transport, time limit, remote failure,
\* evaluation.
CallReturns(e, c) ==
    /\ c \in mem[e].active \ (mem[e].good \cup mem[e].bad)
    /\ \/ fate[c] = "recorded" /\ mem' = [mem EXCEPT ![e].good = @ \cup {c}]
       \/ mem' = [mem EXCEPT ![e].bad = @ \cup {c}]
    /\ UNCHANGED <<durable, world, lock, starts, pc>>

\* The coordinator looks at a finished future.  A failure leaves the pool.
\* Several may be looked at before the next commit.
Collect(e, c) ==
    /\ pc[e] = "run"
    /\ \/ /\ c \in mem[e].good
          /\ Dispatch(e, [mem[e] EXCEPT !.active = @ \ {c}, !.good = @ \ {c},
                                        !.results = @ \cup {c}])
          /\ UNCHANGED pc
       \/ /\ c \in mem[e].bad
          /\ mem' = [mem EXCEPT ![e].active = @ \ {c}, ![e].bad = @ \ {c}]
          /\ Goto(e, "unwind")
          /\ UNCHANGED called
    /\ UNCHANGED <<durable, fate, verdict, lock, starts>>

\* MUTANT of MayCommit: results are committed in the order they arrive.
MayCommitAny(m, c) == c \in Pending(m) /\ (c \in m.results \/ ~Activated(c))

\* commit_ready: the next candidate, when it has a result or stays dormant.
MayCommit(m, c) == IsNext(m, c) /\ (c \in m.results \/ ~Activated(c))

Kind(c) == IF Activated(c) THEN "measured" ELSE "dormant"

\* MUTANT of WriteReceipt: the candidate counts as completed, but its receipt
\* is left to the end of the stage.
CountReceipt(e, c) ==
    /\ pc[e] = "run" /\ MayCommit(mem[e], c)
    /\ mem' = [mem EXCEPT ![e].done = @ \cup {c}, ![e].results = @ \ {c}]
    /\ Goto(e, "row")
    /\ UNCHANGED <<receipts, ledger, decision, world, lock, starts>>

\* record: the receipt is written once.  An executor that read an older set of
\* receipts may find another one in its place, which raises.
WriteReceipt(e, c) ==
    /\ pc[e] = "run" /\ MayCommit(mem[e], c)
    /\ \/ /\ receipts[c] \in {"none", Kind(c)}
          /\ receipts' = [receipts EXCEPT ![c] = Kind(c)]
          /\ mem' = [mem EXCEPT ![e].done = @ \cup {c}, ![e].results = @ \ {c}]
          /\ Goto(e, "row")
       \/ /\ receipts[c] # "none" /\ Activated(c)
          /\ mem' = [mem EXCEPT ![e].results = @ \ {c}]
          /\ Goto(e, "unwind")
          /\ UNCHANGED receipts
    /\ UNCHANGED <<ledger, decision, world, lock, starts>>

\* The row of the receipt; the sequence number is raised before the append, the
\* hash is taken over after it.
AppendRow(e) ==
    /\ pc[e] = "row"
    /\ LET row == NewRow(mem[e], "RUNNING") IN
       IF Follows(mem[e])
       THEN /\ ledger' = Append(ledger, row)
            /\ mem' = [mem EXCEPT ![e].seq = @ + 1, ![e].previous = Hash(row)]
            /\ Goto(e, "run")
       ELSE /\ mem' = [mem EXCEPT ![e].seq = @ + 1]
            /\ Goto(e, "unwind")
            /\ UNCHANGED ledger
    /\ UNCHANGED <<receipts, decision, world, lock, starts>>

\* The pool is left once every call has ended.  Those whose futures were not
\* looked at are cancelled, and must be gone: some of the open ones are lost
\* by that.  If they are not gone there is no checkpoint.
Unwind(e) ==
    /\ pc[e] = "unwind"
    /\ mem[e].active \subseteq mem[e].good \cup mem[e].bad
    /\ \E gone \in SUBSET {c \in mem[e].active : fate[c] = "open"} :
         fate' = [c \in Candidates |-> IF c \in gone THEN "lost" ELSE fate[c]]
    /\ \/ Goto(e, "pause") /\ UNCHANGED <<mem, lock>>
       \/ mem[e].active # {} /\ Finish(e, "raised")
    /\ UNCHANGED <<durable, called, verdict, starts>>

Pause(e) ==
    /\ pc[e] = "pause"
    /\ ledger' = IF Follows(mem[e]) THEN Append(ledger, NewRow(mem[e], "PAUSED"))
                                    ELSE ledger
    /\ Finish(e, "raised")
    /\ UNCHANGED <<receipts, decision, world, starts>>

-----------------------------------------------------------------------------
(* Between the stages, and the end.                                        *)

MatchedComplete(e) ==
    /\ pc[e] = "run" /\ mem[e].stage = 1 /\ Pending(mem[e]) = {}
    /\ IF mem[e].adm = None THEN Finish(e, "matched")
                            ELSE Goto(e, "decide") /\ UNCHANGED <<mem, lock>>
    /\ UNCHANGED <<durable, world, starts>>

\* MUTANT of Decide: each execution decides anew, with its own admission.
DecideAnew(e) ==
    /\ pc[e] = "decide"
    /\ \E active \in SUBSET ReserveArms :
         decision' = [adm |-> mem[e].adm, active |-> active]
    /\ Goto(e, "continue")
    /\ UNCHANGED <<receipts, ledger, world, lock, starts, mem>>

\* The decision is built from the matched receipts, which say the same every
\* time, and an admission; a tie raises, and so does an admission that is more
\* than fifteen minutes old.  If there is a decision already the new one must
\* equal it, and it names its admission.
Decide(e) ==
    /\ pc[e] = "decide"
    /\ \E v \in Verdict :
         /\ verdict \in {None, v} /\ verdict' = v
         /\ \/ /\ ~v.tie
               /\ decision' = [adm |-> mem[e].adm, active |-> v.active]
               /\ decision \in {None, decision'}
               /\ Goto(e, "continue")
               /\ UNCHANGED <<mem, lock>>
            \/ Finish(e, "raised") /\ UNCHANGED decision
    /\ UNCHANGED <<receipts, ledger, fate, called, starts>>

\* The continuation is derived from the decision, and the reserve receipts
\* that exist must agree with it.
Continue(e) ==
    /\ pc[e] = "continue"
    /\ IF \A c \in Reserves \cap mem[e].done : receipts[c] = Kind(c)
       THEN /\ Goto(e, "run")
            /\ Dispatch(e, [mem[e] EXCEPT !.stage = 2])
            /\ UNCHANGED lock
       ELSE Finish(e, "raised") /\ UNCHANGED called
    /\ UNCHANGED <<durable, fate, verdict, starts>>

\* evaluate_candidate_receipts: exact coverage, and a winner of each arm; it
\* raises on a tie.
Evaluate(e) ==
    /\ pc[e] = "run" /\ mem[e].stage = 2 /\ Pending(mem[e]) = {}
    /\ \/ mem[e].done = Candidates /\ Finish(e, "complete")
       \/ Finish(e, "raised")
    /\ UNCHANGED <<durable, world, starts>>

-----------------------------------------------------------------------------
Crash(e) ==
    /\ pc[e] \notin Ended
    /\ Finish(e, "idle")
    /\ UNCHANGED <<durable, world, starts>>

\* The remote machine settles a candidate that was called, also when the call
\* was cut off.
RemoteSettles(c) ==
    /\ c \in called
    /\ \E to \in {"recorded", "lost"} :
         Remote(c)!Settles(fate[c], to) /\ fate' = [fate EXCEPT ![c] = to]
    /\ UNCHANGED <<durable, called, verdict, lock, starts, pc, mem>>

ExecutorStep(e) ==
    \/ LoadLedger(e) \/ NoLedger(e) \/ WriteGenesis(e) \/ TakeLock(e)
    \/ \E c \in Candidates : CallReturns(e, c) \/ Collect(e, c) \/ WriteReceipt(e, c)
    \/ AppendRow(e) \/ Unwind(e) \/ Pause(e)
    \/ MatchedComplete(e) \/ Decide(e) \/ Continue(e) \/ Evaluate(e)

Next ==
    \/ \E e \in Executors :
         \/ \E adm \in Admissions \cup {None} : Start(e, adm)
         \/ ExecutorStep(e)
         \/ Crash(e)
    \/ \E c \in Candidates : RemoteSettles(c)

\* An executor that runs takes its next step; a call of RemoteExecutor has a
\* time limit, so it returns.
Fairness == \A e \in Executors : WF_vars(ExecutorStep(e))

Spec == Init /\ [][Next]_vars /\ Fairness

-----------------------------------------------------------------------------
\* Receipts are written in frozen order, with no gap: whatever order the pool
\* finishes in, and whoever crashed or read old receipts before.
CommitsInOrder ==
    \A c \in Recorded : \A d \in 1..c : d \in Recorded

\* No row of the ledger counts a receipt that is not there.
LedgerNeverAhead ==
    \A i \in DOMAIN ledger : ledger[i].done <= Cardinality(Recorded)

\* Every receipt but the last is counted by a row of the ledger: however often
\* executors are lost between a receipt and its row, or find that another one
\* has appended, at most one receipt is ever without a row.
LedgerKeepsUp ==
    \A c \in Recorded : \E i \in DOMAIN ledger : c - 1 <= ledger[i].done

\* Reserve receipts exist only under the one decision that was taken over the
\* complete matched set, and each is of the kind it decided: no execution mixes
\* two decisions, and a quartet is never half active.
OneDecision ==
    /\ decision # None => Matched \subseteq Recorded
    /\ \A c \in Recorded \cap Reserves :
         /\ decision # None
         /\ receipts[c] = "measured" <=> ArmOf[c] \in decision.active

\* An execution that was started returns or raises.
ExecutionEnds == \A e \in Executors : pc[e] \notin Ended ~> pc[e] \in Ended

\* A failure leaves the attempt PAUSED with resume_allowed true
\* (a2_operational_executor.py:1117): every candidate without a receipt can
\* still be run.
PausedCanResume ==
    (/\ ledger # <<>> /\ ledger[Len(ledger)].status = "PAUSED"
     /\ \A e \in Executors : pc[e] \in Ended)
    => \A c \in Candidates \ Recorded : fate[c] # "lost"

=============================================================================
