----------------------------- MODULE RunJournal -----------------------------
(***************************************************************************)
(* The durable journal of one measured P2 run root                         *)
(* (src/myis_research/p2/measured_state.py) and the processes that open it:*)
(* worker processes, which hold the exclusive writer lease, and `verify`   *)
(* commands, which run validate_resume_state without it.                   *)
(*                                                                         *)
(* The journal is a directory of immutable event files 1, 2, 3...          *)
(* created with link(2), which refuses an existing name.  Every event      *)
(* carries the hash of its predecessor and an idempotency key.  state.json *)
(* is a snapshot, replaced after the event.  A step of this module is one  *)
(* durable effect (or one read of the directory), so that a crash, or a    *)
(* step of another process, can fall between any two of them.              *)
(*                                                                         *)
(* An event's own hash is represented by its key: keys are unique in a     *)
(* journal that loads (KeysUnique), so the key names the event.  Payloads  *)
(* stand for the state dictionary modulo updated_at_utc, the only field    *)
(* that _idempotency_comparable drops.                                     *)
(***************************************************************************)
EXTENDS Naturals, Sequences, FiniteSets

CONSTANTS
    Workers,      \* worker processes: p2_measured_cli worker
    Verifiers,    \* verify commands given a request: they may append
    Keys,         \* idempotency keys of the transitions after the first
    Payloads,     \* journaled states
    InitKey,      \* the key run-initialized:<request hash>
    None,         \* no process, no key
    MaxEvents     \* bound on the number of event files

ASSUME ProcsDisjoint == Workers \cap Verifiers = {}
ASSUME NoneIsFresh == None \notin Workers \cup Verifiers \cup Keys \cup {InitKey}
ASSUME InitKeyIsFresh == InitKey \notin Keys

Procs == Workers \cup Verifiers
AllKeys == Keys \cup {InitKey}

VARIABLES
    \* durable: survives every crash
    journal,      \* the event files, in order
    snapshot,     \* sequence number of the event state.json shows; 0: no file
    bound,        \* immutable files initialize wrote: request, owner paths
    lease,        \* lease.json: the process it names and its status
    \* the operating system
    lock,         \* holder of the advisory lock exclusive-writer.lock
    \* one process each: volatile
    pc,           \* where the process is
    seen,         \* the event that the state it holds in memory comes from
    pending,      \* the transition it is saving
    loaded,       \* number of events its last _load_events returned
    tail,         \* key of the last of them
    at,           \* the event _append_event returned
    \* history
    acked         \* saves that returned to their caller

durable == <<journal, snapshot, bound, lease>>
volatile == <<pc, seen, pending, loaded, tail, at>>
vars == <<durable, lock, volatile, acked>>

Event == [key: AllKeys, payload: Payloads, prev: AllKeys \cup {None},
          author: Procs, base: Nat]

Pending == [key: AllKeys, payload: Payloads]
NoPending == [key |-> None, payload |-> None]

Locations == {"down", "lease", "start", "bind", "resume", "repair", "ready",
              "append", "link", "save", "failed", "unlock"}

\* The locations of a worker inside the lease, metadata written.
Leased == {"start", "bind", "resume", "repair", "ready", "append", "link",
           "save", "failed"}

TypeOK ==
    /\ journal \in Seq(Event)
    /\ snapshot \in Nat
    /\ bound \in 0..2
    /\ lease \in [owner: Workers \cup {None},
                  status: {"absent", "active", "closed_cleanly", "closed_after_failure"}]
    /\ lock \in Workers \cup {None}
    /\ pc \in [Procs -> Locations]
    /\ seen \in [Procs -> Nat]
    /\ pending \in [Procs -> Pending \cup {NoPending}]
    /\ loaded \in [Procs -> Nat]
    /\ tail \in [Procs -> AllKeys \cup {None}]
    /\ at \in [Procs -> Nat]
    /\ acked \subseteq [seq: Nat, key: AllKeys, payload: Payloads]

Init ==
    /\ journal = <<>>
    /\ snapshot = 0
    /\ bound = 0
    /\ lease = [owner |-> None, status |-> "absent"]
    /\ lock = None
    /\ pc = [p \in Procs |-> "down"]
    /\ seen = [p \in Procs |-> 0]
    /\ pending = [p \in Procs |-> NoPending]
    /\ loaded = [p \in Procs |-> 0]
    /\ tail = [p \in Procs |-> None]
    /\ at = [p \in Procs |-> 0]
    /\ acked = {}

Goto(p, l) == pc' = [pc EXCEPT ![p] = l]

\* The process ends: what it held in memory is gone.
Vanish(p) ==
    /\ Goto(p, "down")
    /\ seen' = [seen EXCEPT ![p] = 0]
    /\ pending' = [pending EXCEPT ![p] = NoPending]
    /\ loaded' = [loaded EXCEPT ![p] = 0]
    /\ tail' = [tail EXCEPT ![p] = None]
    /\ at' = [at EXCEPT ![p] = 0]

(***************************************************************************)
(* ExclusiveWriterLease                                                    *)
(***************************************************************************)

\* __enter__ takes the OS lock without waiting: a worker that finds it held
\* raises and ends, which changes nothing.
AcquireLock(w) ==
    /\ pc[w] = "down"
    /\ lock = None
    /\ lock' = w
    /\ Goto(w, "lease")
    /\ UNCHANGED <<durable, seen, pending, loaded, tail, at, acked>>

\* The earlier metadata is copied to lease-history, whatever it says, and
\* replaced: only the lock decides who writes.  The mode is the command's.
WriteLease(w) ==
    /\ pc[w] = "lease"
    /\ lease' = [owner |-> w, status |-> "active"]
    /\ \E mode \in {"start", "resume"} : Goto(w, mode)
    /\ UNCHANGED <<journal, snapshot, bound, lock, seen, pending, loaded, tail, at, acked>>

\* MUTANT of CloseLease: the lock is given back before the metadata is written.
CloseLeaseUnlocksFirst(w) ==
    \/ /\ pc[w] \in {"ready", "failed"} /\ lock = w
       /\ lock' = None
       /\ UNCHANGED <<durable, volatile, acked>>
    \/ /\ pc[w] \in {"ready", "failed"} /\ lock # w
       /\ lease' = [lease EXCEPT !.status = "closed_cleanly"]
       /\ Goto(w, "down")
       /\ UNCHANGED <<journal, snapshot, bound, lock, seen, pending, loaded, tail, at, acked>>

\* __exit__ writes the closing metadata, then gives the lock back.
CloseLease(w) ==
    /\ pc[w] \in {"ready", "failed"}
    /\ lease' = [lease EXCEPT !.status = IF pc[w] = "ready" THEN "closed_cleanly"
                                                            ELSE "closed_after_failure"]
    /\ Goto(w, "unlock")
    /\ UNCHANGED <<journal, snapshot, bound, lock, seen, pending, loaded, tail, at, acked>>

Unlock(w) ==
    /\ pc[w] = "unlock"
    /\ lock' = None
    /\ Vanish(w)
    /\ UNCHANGED <<durable, acked>>

(***************************************************************************)
(* MeasuredRunJournal.initialize: refused once an event exists.  Two files *)
(* that may never be overwritten are written before the first event.       *)
(***************************************************************************)

\* MUTANT of WriteRequest: a second start is not refused.
WriteRequestNoRefusal(w) ==
    /\ pc[w] = "start"
    /\ bound' = bound + 1
    /\ Goto(w, "bind")
    /\ UNCHANGED <<journal, snapshot, lease, lock, seen, pending, loaded, tail, at, acked>>

WriteRequest(w) ==
    /\ pc[w] = "start"
    /\ IF journal = <<>> /\ bound = 0
         THEN bound' = 1 /\ Goto(w, "bind")
         ELSE bound' = bound /\ Goto(w, "failed")
    /\ UNCHANGED <<journal, snapshot, lease, lock, seen, pending, loaded, tail, at, acked>>

WriteOwnerPaths(w) ==
    /\ pc[w] = "bind"
    /\ bound' = 2
    /\ \E v \in Payloads :
          pending' = [pending EXCEPT ![w] = [key |-> InitKey, payload |-> v]]
    /\ Goto(w, "append")
    /\ UNCHANGED <<journal, snapshot, lease, lock, seen, loaded, tail, at, acked>>

(***************************************************************************)
(* MeasuredRunJournal.load: rebuild the state from the events, then        *)
(* replace a snapshot that shows something else.                           *)
(***************************************************************************)

Load(p) ==
    IF journal = <<>>
      THEN Goto(p, "failed") /\ UNCHANGED seen
      ELSE /\ seen' = [seen EXCEPT ![p] = Len(journal)]
           /\ Goto(p, IF snapshot = Len(journal) THEN "ready" ELSE "repair")

\* MUTANT of ResumeLoad: the state is taken from state.json, not rebuilt.
ResumeFromSnapshot(w) ==
    /\ pc[w] = "resume"
    /\ snapshot # 0
    /\ seen' = [seen EXCEPT ![w] = snapshot]
    /\ Goto(w, "ready")
    /\ UNCHANGED <<durable, lock, pending, loaded, tail, at, acked>>

ResumeLoad(w) ==
    /\ pc[w] = "resume"
    /\ Load(w)
    /\ UNCHANGED <<durable, lock, pending, loaded, tail, at, acked>>

\* verify_run calls validate_resume_state, which loads and may append, with no
\* lease.
VerifyLoad(v) ==
    /\ pc[v] = "down"
    /\ Load(v)
    /\ UNCHANGED <<durable, lock, pending, loaded, tail, at, acked>>

RepairSnapshot(p) ==
    /\ pc[p] = "repair"
    /\ snapshot' = seen[p]
    /\ Goto(p, "ready")
    /\ UNCHANGED <<journal, bound, lease, lock, seen, pending, loaded, tail, at, acked>>

(***************************************************************************)
(* MeasuredRunJournal.save                                                 *)
(***************************************************************************)

\* The caller transforms the state it holds in memory and saves it.
BeginSave(p) ==
    /\ pc[p] = "ready"
    /\ \E k \in Keys, v \in Payloads :
          pending' = [pending EXCEPT ![p] = [key |-> k, payload |-> v]]
    /\ Goto(p, "append")
    /\ UNCHANGED <<durable, lock, seen, loaded, tail, at, acked>>

\* The events that carry the key of the pending transition.
SameKey(p) == {i \in DOMAIN journal : journal[i].key = pending[p].key}

\* MUTANT of AppendLoad: no search for the idempotency key.
AppendLoadNoSearch(p) ==
    /\ pc[p] = "append"
    /\ loaded' = [loaded EXCEPT ![p] = Len(journal)]
    /\ tail' = [tail EXCEPT ![p] = IF journal = <<>> THEN None
                                   ELSE journal[Len(journal)].key]
    /\ Goto(p, "link")
    /\ UNCHANGED <<durable, lock, seen, pending, at, acked>>

\* MUTANT of AppendLoad: a reused key is accepted whatever it now stands for.
AppendLoadAnyPayload(p) ==
    /\ pc[p] = "append"
    /\ loaded' = [loaded EXCEPT ![p] = Len(journal)]
    /\ tail' = [tail EXCEPT ![p] = IF journal = <<>> THEN None
                                   ELSE journal[Len(journal)].key]
    /\ \/ /\ SameKey(p) = {}
          /\ Goto(p, "link")
          /\ UNCHANGED at
       \/ \E i \in SameKey(p) :
            /\ at' = [at EXCEPT ![p] = i]
            /\ Goto(p, "save")
    /\ UNCHANGED <<durable, lock, seen, pending, acked>>

\* MUTANT of AppendLoad: the snapshot is replaced before the event exists.
AppendLoadSnapshotFirst(p) ==
    /\ pc[p] = "append"
    /\ loaded' = [loaded EXCEPT ![p] = Len(journal)]
    /\ tail' = [tail EXCEPT ![p] = IF journal = <<>> THEN None
                                   ELSE journal[Len(journal)].key]
    /\ SameKey(p) = {}
    /\ snapshot' = Len(journal) + 1
    /\ Goto(p, "link")
    /\ UNCHANGED <<journal, bound, lease, lock, seen, pending, at, acked>>

\* _append_event reads every event: a key seen before returns the old event if
\* it is the same transition and is an error otherwise.  The state the caller
\* gets back is then equal to the one it asked to save, so that seen stays.
AppendLoad(p) ==
    /\ pc[p] = "append"
    /\ loaded' = [loaded EXCEPT ![p] = Len(journal)]
    /\ tail' = [tail EXCEPT ![p] = IF journal = <<>> THEN None
                                   ELSE journal[Len(journal)].key]
    /\ \/ /\ SameKey(p) = {}
          /\ Goto(p, "link")
          /\ UNCHANGED at
       \/ \E i \in SameKey(p) :
            /\ at' = [at EXCEPT ![p] = i]
            /\ Goto(p, IF journal[i].payload = pending[p].payload THEN "save" ELSE "failed")
    /\ UNCHANGED <<durable, lock, seen, pending, acked>>

\* MUTANT of AppendLink: the event file is replaced, as atomic_write_json does.
AppendReplaces(p) ==
    /\ pc[p] = "link"
    /\ loaded[p] < MaxEvents
    /\ journal' = Append(SubSeq(journal, 1, loaded[p]),
                         [key |-> pending[p].key, payload |-> pending[p].payload,
                          prev |-> tail[p], author |-> p, base |-> seen[p]])
    /\ at' = [at EXCEPT ![p] = loaded[p] + 1]
    /\ seen' = [seen EXCEPT ![p] = loaded[p] + 1]
    /\ Goto(p, "save")
    /\ UNCHANGED <<snapshot, bound, lease, lock, pending, loaded, tail, acked>>

\* write_immutable_json links the event at the next sequence number, and fails
\* when another process took that name since the events were read.
AppendLink(p) ==
    /\ pc[p] = "link"
    /\ IF Len(journal) = loaded[p]
         THEN /\ Len(journal) < MaxEvents
              /\ journal' = Append(journal, [key |-> pending[p].key,
                                             payload |-> pending[p].payload,
                                             prev |-> tail[p],
                                             author |-> p,
                                             base |-> seen[p]])
              /\ at' = [at EXCEPT ![p] = loaded[p] + 1]
              /\ seen' = [seen EXCEPT ![p] = loaded[p] + 1]
              /\ Goto(p, "save")
         ELSE /\ Goto(p, "failed")
              /\ UNCHANGED <<journal, at, seen>>
    /\ UNCHANGED <<snapshot, bound, lease, lock, pending, loaded, tail, acked>>

\* The snapshot is made from the event that was appended or found.
WriteSnapshot(p) ==
    /\ pc[p] = "save"
    /\ snapshot' = at[p]
    /\ acked' = acked \cup {[seq |-> at[p], key |-> pending[p].key,
                             payload |-> pending[p].payload]}
    /\ Goto(p, "ready")
    /\ UNCHANGED <<journal, bound, lease, lock, seen, pending, loaded, tail, at>>

(***************************************************************************)
(* The end of a process.                                                   *)
(***************************************************************************)

VerifyEnd(v) ==
    /\ pc[v] \in {"ready", "failed"}
    /\ Vanish(v)
    /\ UNCHANGED <<durable, lock, acked>>

\* A crash loses memory; the operating system frees the lock; files stay.
Crash(p) ==
    /\ pc[p] # "down"
    /\ Vanish(p)
    /\ lock' = IF lock = p THEN None ELSE lock
    /\ UNCHANGED <<durable, acked>>

WorkerStep(w) ==
    \/ AcquireLock(w) \/ WriteLease(w) \/ CloseLease(w) \/ Unlock(w)
    \/ WriteRequest(w) \/ WriteOwnerPaths(w) \/ ResumeLoad(w)

AnyStep(p) ==
    \/ RepairSnapshot(p) \/ BeginSave(p) \/ AppendLoad(p) \/ AppendLink(p)
    \/ WriteSnapshot(p) \/ Crash(p)

Next ==
    \/ \E w \in Workers : WorkerStep(w)
    \/ \E v \in Verifiers : VerifyLoad(v) \/ VerifyEnd(v)
    \/ \E p \in Procs : AnyStep(p)

Spec == Init /\ [][Next]_vars

-----------------------------------------------------------------------------
(***************************************************************************)
(* Properties                                                              *)
(***************************************************************************)

\* The journal always loads: each event names its predecessor and no key is
\* used twice (the checks of _load_events), although `verify` appends to it
\* without the lock while a worker does.
ChainIntact ==
    /\ \A i \in DOMAIN journal :
          journal[i].prev = IF i = 1 THEN None ELSE journal[i - 1].key
    /\ \A i, j \in DOMAIN journal : journal[i].key = journal[j].key => i = j

\* A save that returned is in the journal for good, with the key and the state
\* the caller gave: a crash, a resume or another process never loses it.
AckedSavesDurable ==
    \A a \in acked : /\ a.seq \in DOMAIN journal
                     /\ journal[a.seq].key = a.key
                     /\ journal[a.seq].payload = a.payload

\* state.json never shows a state that the journal does not hold: the event is
\* written first, so that the snapshot can be rebuilt from it.
SnapshotNeverAhead == snapshot <= Len(journal)

\* While a worker is inside the lease, lease.json names it as the active one:
\* the closing metadata of its predecessor cannot land after its own.
LeaseNamesHolder ==
    \A w \in Workers : pc[w] \in Leased =>
        /\ lock = w
        /\ lease = [owner |-> w, status |-> "active"]

\* A worker appends to a state that takes in every transition of the workers
\* before it: what lies between the state it holds and its own event was
\* appended by `verify` commands alone.
WorkersSeeEachOther ==
    \A i \in DOMAIN journal : journal[i].author \in Workers =>
        \A j \in (journal[i].base + 1)..(i - 1) : journal[j].author \in Verifiers

\* Event files are immutable: no step changes or removes one.
EventsImmutable ==
    [][/\ Len(journal) <= Len(journal')
       /\ \A i \in DOMAIN journal : journal'[i] = journal[i]]_vars

=============================================================================
