-------------------------- MODULE RunJournalProofs --------------------------
(***************************************************************************)
(* Proofs about RunJournal for every set of processes, keys and states and *)
(* any number of events.                                                   *)
(***************************************************************************)
EXTENDS RunJournal, TLAPS

(***************************************************************************)
(* Type correctness.                                                       *)
(***************************************************************************)

\* Appending keeps the journal a sequence of events and leaves the earlier
\* events where they are.
LEMMA AppendEvent ==
    ASSUME NEW S, NEW j \in Seq(S), NEW e \in S
    PROVE  /\ Append(j, e) \in Seq(S)
           /\ Len(Append(j, e)) = Len(j) + 1
           /\ DOMAIN Append(j, e) = 1..(Len(j) + 1)
           /\ \A i \in 1..Len(j) : Append(j, e)[i] = j[i]
           /\ Append(j, e)[Len(j) + 1] = e
OBVIOUS

\* A worker only ever saves a real transition: what is pending when the event
\* files are read or written is never the empty placeholder.
PendingReady ==
    \A p \in Procs : pc[p] \in {"append", "link", "save"} => pending[p] \in Pending

TypeInv == TypeOK /\ PendingReady

USE DEF Procs, AllKeys

LEMMA TypeInit == Init => TypeInv
BY DEF Init, TypeInv, TypeOK, PendingReady, Locations, Event

\* load, by a worker or by `verify`, leaves the process at a location where
\* nothing is pending.
LEMMA LoadTyped ==
    ASSUME TypeOK, NEW p \in Procs, Load(p)
    PROVE  /\ seen' \in [Procs -> Nat]
           /\ \E l \in {"failed", "ready", "repair"} : pc' = [pc EXCEPT ![p] = l]
<1>1. CASE journal = <<>>
  BY <1>1 DEF Load, Goto, TypeOK
<1>2. CASE journal # <<>>
  <2>1. Len(journal) \in Nat
    BY DEF TypeOK
  <2> QED
    BY <1>2, <2>1 DEF Load, Goto, TypeOK
<1> QED
  BY <1>1, <1>2

LEMMA TypeNext == TypeInv /\ [Next]_vars => TypeInv'
<1> SUFFICES ASSUME TypeInv, [Next]_vars
             PROVE  TypeInv'
  OBVIOUS
<1> USE DEF TypeInv, TypeOK, PendingReady, Locations, Goto
<1>1. ASSUME NEW w \in Workers, WorkerStep(w)
      PROVE  TypeInv'
  <2>1. CASE AcquireLock(w)
    BY <2>1 DEF AcquireLock, durable
  <2>2. CASE WriteLease(w)
    BY <2>2 DEF WriteLease
  <2>3. CASE CloseLease(w)
    BY <2>3 DEF CloseLease
  <2>4. CASE Unlock(w)
    BY <2>4 DEF Unlock, Vanish, durable
  <2>5. CASE WriteRequest(w)
    <3>1. CASE journal = <<>> /\ bound = 0
      BY <2>5, <3>1 DEF WriteRequest
    <3>2. CASE ~(journal = <<>> /\ bound = 0)
      BY <2>5, <3>2 DEF WriteRequest
    <3> QED
      BY <3>1, <3>2
  <2>6. CASE WriteOwnerPaths(w)
    BY <2>6 DEF WriteOwnerPaths, Pending
  <2>7. CASE ResumeLoad(w)
    BY <2>7, LoadTyped DEF ResumeLoad, durable
  <2> QED
    BY <1>1, <2>1, <2>2, <2>3, <2>4, <2>5, <2>6, <2>7 DEF WorkerStep
<1>2. ASSUME NEW v \in Verifiers, VerifyLoad(v)
      PROVE  TypeInv'
  BY <1>2, LoadTyped DEF VerifyLoad, durable
<1>3. ASSUME NEW v \in Verifiers, VerifyEnd(v)
      PROVE  TypeInv'
  BY <1>3 DEF VerifyEnd, Vanish, durable
<1>4. ASSUME NEW p \in Procs, AnyStep(p)
      PROVE  TypeInv'
  <2>1. CASE RepairSnapshot(p)
    BY <2>1 DEF RepairSnapshot
  <2>2. CASE BeginSave(p)
    BY <2>2 DEF BeginSave, Pending, durable
  <2>3. CASE AppendLoad(p)
    <3>1. UNCHANGED <<durable, lock, seen, pending, acked>>
      BY <2>3 DEF AppendLoad
    <3>2. loaded' \in [Procs -> Nat]
      BY <2>3 DEF AppendLoad
    <3>3. tail' \in [Procs -> AllKeys \cup {None}]
      <4>1. CASE journal = <<>>
        BY <2>3, <4>1 DEF AppendLoad
      <4>2. CASE journal # <<>>
        <5>1. Len(journal) \in DOMAIN journal /\ journal[Len(journal)] \in Event
          BY <4>2
        <5> QED
          BY <2>3, <4>2, <5>1 DEF AppendLoad, Event
      <4> QED
        BY <4>1, <4>2
    <3>4. pending[p] \in Pending
      BY <2>3 DEF AppendLoad
    <3>5. CASE UNCHANGED at /\ Goto(p, "link")
      BY <3>1, <3>2, <3>3, <3>4, <3>5 DEF durable
    <3>6. ASSUME NEW i \in SameKey(p), at' = [at EXCEPT ![p] = i],
                 NEW l \in {"save", "failed"}, Goto(p, l)
          PROVE  TypeInv'
      <4>1. i \in Nat
        BY DEF SameKey
      <4> QED
        BY <3>1, <3>2, <3>3, <3>4, <3>6, <4>1 DEF durable
    <3> QED
      <4>1. CASE \E i \in SameKey(p) :
                    /\ at' = [at EXCEPT ![p] = i]
                    /\ Goto(p, IF journal[i].payload = pending[p].payload
                                 THEN "save" ELSE "failed")
        BY <3>6, <4>1
      <4> QED
        BY <2>3, <3>5, <4>1 DEF AppendLoad
  <2>4. CASE AppendLink(p)
    <3>1. CASE Len(journal) = loaded[p]
      <4> DEFINE e == [key |-> pending[p].key, payload |-> pending[p].payload,
                       prev |-> tail[p], author |-> p, base |-> seen[p]]
      <4>1. e \in Event
        BY <2>4 DEF AppendLink, Event, Pending
      <4>2. journal' = Append(journal, e)
        BY <2>4, <3>1 DEF AppendLink
      <4>3. journal' \in Seq(Event)
        BY <4>1, <4>2
      <4>4. loaded[p] + 1 \in Nat
        OBVIOUS
      <4>5. /\ at' = [at EXCEPT ![p] = loaded[p] + 1]
            /\ seen' = [seen EXCEPT ![p] = loaded[p] + 1]
            /\ pc' = [pc EXCEPT ![p] = "save"]
            /\ UNCHANGED <<snapshot, bound, lease, lock, pending, loaded, tail, acked>>
            /\ pending[p] \in Pending
        BY <2>4, <3>1 DEF AppendLink
      <4> QED
        BY <4>3, <4>4, <4>5
    <3>2. CASE Len(journal) # loaded[p]
      BY <2>4, <3>2 DEF AppendLink
    <3> QED
      BY <3>1, <3>2
  <2>5. CASE WriteSnapshot(p)
    BY <2>5 DEF WriteSnapshot, Pending
  <2>6. CASE Crash(p)
    BY <2>6 DEF Crash, Vanish, durable
  <2> QED
    BY <1>4, <2>1, <2>2, <2>3, <2>4, <2>5, <2>6 DEF AnyStep
<1>5. CASE UNCHANGED vars
  BY <1>5 DEF vars, durable, volatile
<1> QED
  BY <1>1, <1>2, <1>3, <1>4, <1>5 DEF Next

\* Every reachable state is well typed.
THEOREM TypeCorrect == Spec => []TypeOK
<1>1. TypeInv => TypeOK
  BY DEF TypeInv
<1> QED
  BY TypeInit, TypeNext, <1>1, PTL DEF Spec

-----------------------------------------------------------------------------
(***************************************************************************)
(* The lease.                                                              *)
(***************************************************************************)

\* A worker between taking and giving back the lock is its holder.  The lock,
\* not lease.json, is what makes LeaseNamesHolder inductive.
LockHeld ==
    \A w \in Workers : pc[w] \in Leased \cup {"lease", "unlock"} => lock = w

LeaseInv == LockHeld /\ LeaseNamesHolder

LEMMA LeaseInit == Init => LeaseInv
BY DEF Init, LeaseInv, LockHeld, LeaseNamesHolder, Leased

LEMMA LeaseNext == TypeInv /\ LeaseInv /\ [Next]_vars => LeaseInv'
<1> SUFFICES ASSUME TypeInv, LeaseInv, [Next]_vars
             PROVE  LeaseInv'
  OBVIOUS
<1> USE NoneIsFresh, ProcsDisjoint
    DEF TypeInv, TypeOK, LeaseInv, LockHeld, LeaseNamesHolder, Leased, Goto
<1>1. ASSUME NEW w \in Workers, WorkerStep(w)
      PROVE  LeaseInv'
  <2>1. CASE AcquireLock(w)
    BY <2>1 DEF AcquireLock, durable
  <2>2. CASE WriteLease(w)
    BY <2>2 DEF WriteLease
  <2>3. CASE CloseLease(w)
    BY <2>3 DEF CloseLease
  <2>4. CASE Unlock(w)
    BY <2>4 DEF Unlock, Vanish, durable
  <2>5. CASE WriteRequest(w)
    <3>1. CASE journal = <<>> /\ bound = 0
      BY <2>5, <3>1 DEF WriteRequest
    <3>2. CASE ~(journal = <<>> /\ bound = 0)
      BY <2>5, <3>2 DEF WriteRequest
    <3> QED
      BY <3>1, <3>2
  <2>6. CASE WriteOwnerPaths(w)
    BY <2>6 DEF WriteOwnerPaths
  <2>7. CASE ResumeLoad(w)
    <3>1. UNCHANGED <<lock, lease>> /\ pc[w] = "resume" /\ Load(w)
      BY <2>7 DEF ResumeLoad, durable
    <3>2. PICK l \in {"failed", "ready", "repair"} : pc' = [pc EXCEPT ![w] = l]
      BY <3>1, LoadTyped
    <3> QED
      BY <3>1, <3>2
  <2> QED
    BY <1>1, <2>1, <2>2, <2>3, <2>4, <2>5, <2>6, <2>7 DEF WorkerStep
<1>2. ASSUME NEW v \in Verifiers, VerifyLoad(v)
      PROVE  LeaseInv'
  <2>1. UNCHANGED <<lock, lease>> /\ Load(v)
    BY <1>2 DEF VerifyLoad, durable
  <2>2. PICK l \in {"failed", "ready", "repair"} : pc' = [pc EXCEPT ![v] = l]
    BY <2>1, LoadTyped
  <2> QED
    BY <2>1, <2>2
<1>3. ASSUME NEW v \in Verifiers, VerifyEnd(v)
      PROVE  LeaseInv'
  BY <1>3 DEF VerifyEnd, Vanish, durable
<1>4. ASSUME NEW p \in Procs, AnyStep(p)
      PROVE  LeaseInv'
  <2>1. CASE Crash(p)
    BY <2>1 DEF Crash, Vanish, durable
  <2>2. CASE ~Crash(p)
    <3>1. /\ UNCHANGED <<lock, lease>>
          /\ pc[p] \in Leased
          /\ \E l \in Leased : pc' = [pc EXCEPT ![p] = l]
      <4>1. CASE RepairSnapshot(p)
        BY <4>1 DEF RepairSnapshot
      <4>2. CASE BeginSave(p)
        BY <4>2 DEF BeginSave, durable
      <4>3. CASE AppendLoad(p)
        BY <4>3 DEF AppendLoad, durable
      <4>4. CASE AppendLink(p)
        BY <4>4 DEF AppendLink
      <4>5. CASE WriteSnapshot(p)
        BY <4>5 DEF WriteSnapshot
      <4> QED
        BY <1>4, <2>2, <4>1, <4>2, <4>3, <4>4, <4>5 DEF AnyStep
    <3> QED
      BY <3>1
  <2> QED
    BY <2>1, <2>2
<1>5. CASE UNCHANGED vars
  BY <1>5 DEF vars, durable, volatile
<1> QED
  BY <1>1, <1>2, <1>3, <1>4, <1>5 DEF Next

\* A worker inside the lease is the one that lease.json names, however the
\* workers before it ended.
THEOREM LeaseCorrect == Spec => []LeaseNamesHolder
<1>1. LeaseInv => LeaseNamesHolder
  BY DEF LeaseInv
<1> QED
  BY TypeInit, TypeNext, LeaseInit, LeaseNext, <1>1, PTL DEF Spec

-----------------------------------------------------------------------------
(***************************************************************************)
(* The journal.  The properties of the event files are not inductive by    *)
(* themselves: they rest on what each process knows of the journal between *)
(* reading it and linking the next event.                                  *)
(***************************************************************************)

\* A process that has not loaded the journal yet holds no state.
Unread == \A p \in Procs : pc[p] \in {"down", "lease", "start"} => seen[p] = 0

LEMMA UnreadInit == Init => Unread
BY DEF Init, Unread

LEMMA UnreadNext == TypeInv /\ Unread /\ [Next]_vars => Unread'
<1> SUFFICES ASSUME TypeInv, Unread, [Next]_vars
             PROVE  Unread'
  OBVIOUS
<1>1. ASSUME NEW p \in Procs, UNCHANGED seen, NEW l \in Locations,
             pc' = [pc EXCEPT ![p] = l],
             l \notin {"down", "lease", "start"} \/ pc[p] \in {"down", "lease", "start"}
      PROVE  Unread'
  BY <1>1 DEF Unread, TypeInv, TypeOK
<1>2. ASSUME NEW p \in Procs, Vanish(p)
      PROVE  Unread'
  BY <1>2 DEF Vanish, Goto, Unread, TypeInv, TypeOK
<1>3. ASSUME NEW p \in Procs, Load(p)
      PROVE  Unread'
  <2>1. PICK l \in {"failed", "ready", "repair"} : pc' = [pc EXCEPT ![p] = l]
    BY <1>3, LoadTyped DEF TypeInv
  <2>2. seen' = seen \/ seen' = [seen EXCEPT ![p] = Len(journal)]
    BY <1>3 DEF Load
  <2> QED
    BY <2>1, <2>2 DEF Unread, TypeInv, TypeOK
<1> USE DEF Goto, Locations
<1>4. ASSUME NEW w \in Workers, WorkerStep(w)
      PROVE  Unread'
  <2>1. CASE AcquireLock(w)
    BY <2>1, <1>1 DEF AcquireLock
  <2>2. CASE WriteLease(w)
    BY <2>2, <1>1 DEF WriteLease
  <2>3. CASE CloseLease(w)
    BY <2>3, <1>1 DEF CloseLease
  <2>4. CASE Unlock(w)
    BY <2>4, <1>2 DEF Unlock
  <2>5. CASE WriteRequest(w)
    BY <2>5, <1>1 DEF WriteRequest
  <2>6. CASE WriteOwnerPaths(w)
    BY <2>6, <1>1 DEF WriteOwnerPaths
  <2>7. CASE ResumeLoad(w)
    BY <2>7, <1>3 DEF ResumeLoad
  <2> QED
    BY <1>4, <2>1, <2>2, <2>3, <2>4, <2>5, <2>6, <2>7 DEF WorkerStep
<1>5. ASSUME NEW v \in Verifiers, VerifyLoad(v) \/ VerifyEnd(v)
      PROVE  Unread'
  BY <1>5, <1>2, <1>3 DEF VerifyLoad, VerifyEnd
<1>6. ASSUME NEW p \in Procs, AnyStep(p)
      PROVE  Unread'
  <2>1. CASE RepairSnapshot(p)
    BY <2>1, <1>1 DEF RepairSnapshot
  <2>2. CASE BeginSave(p)
    BY <2>2, <1>1 DEF BeginSave
  <2>3. CASE AppendLoad(p)
    BY <2>3, <1>1 DEF AppendLoad
  <2>4. CASE AppendLink(p)
    <3>1. CASE Len(journal) = loaded[p]
      <4>1. pc' = [pc EXCEPT ![p] = "save"] /\ seen' = [seen EXCEPT ![p] = loaded[p] + 1]
        BY <2>4, <3>1 DEF AppendLink
      <4> QED
        BY <4>1 DEF Unread, TypeInv, TypeOK
    <3>2. CASE Len(journal) # loaded[p]
      BY <2>4, <3>2, <1>1 DEF AppendLink
    <3> QED
      BY <3>1, <3>2
  <2>5. CASE WriteSnapshot(p)
    BY <2>5, <1>1 DEF WriteSnapshot
  <2>6. CASE Crash(p)
    BY <2>6, <1>2 DEF Crash
  <2> QED
    BY <1>6, <2>1, <2>2, <2>3, <2>4, <2>5, <2>6 DEF AnyStep
<1>7. CASE UNCHANGED vars
  BY <1>7 DEF vars, volatile, Unread
<1> QED
  BY <1>4, <1>5, <1>6, <1>7 DEF Next

\* A process about to link has seen a prefix of the journal in which its key
\* does not occur, and its tail is the last event of that prefix.
LinkView(p) ==
    /\ loaded[p] <= Len(journal)
    /\ tail[p] = IF loaded[p] = 0 THEN None ELSE journal[loaded[p]].key
    /\ \A i \in 1..loaded[p] : journal[i].key # pending[p].key

\* A process about to replace the snapshot holds an event of the journal.
SaveView(p) ==
    /\ at[p] \in 1..Len(journal)
    /\ journal[at[p]].key = pending[p].key
    /\ journal[at[p]].payload = pending[p].payload

\* Only `verify` commands append past the event that a worker's state is from.
SeenView(p) ==
    /\ seen[p] <= Len(journal)
    /\ p \in Workers =>
          \A j \in (seen[p] + 1)..Len(journal) : journal[j].author \in Verifiers

Holding == {"bind", "repair", "ready", "append", "link", "save"}

ViewOK(p) ==
    /\ pc[p] = "link" => LinkView(p)
    /\ pc[p] = "save" => SaveView(p)
    /\ pc[p] \in Holding => SeenView(p)

Views == \A p \in Procs : ViewOK(p)

JournalInv ==
    /\ ChainIntact
    /\ AckedSavesDurable
    /\ SnapshotNeverAhead
    /\ WorkersSeeEachOther
    /\ Views

LEMMA JournalInit == Init => JournalInv
BY DEF Init, JournalInv, ChainIntact, AckedSavesDurable, SnapshotNeverAhead,
       WorkersSeeEachOther, Views, ViewOK, Holding

\* A step that leaves the events alone and moves one process keeps the
\* invariant when what that process now knows, the snapshot and the
\* acknowledged saves are right.
LEMMA QuietStep ==
    ASSUME TypeInv, JournalInv, NEW p \in Procs,
           UNCHANGED journal,
           snapshot' <= Len(journal),
           \A a \in acked' \ acked : /\ a.seq \in DOMAIN journal
                                     /\ journal[a.seq].key = a.key
                                     /\ journal[a.seq].payload = a.payload,
           \A q \in Procs \ {p} : /\ pc'[q] = pc[q] /\ seen'[q] = seen[q]
                                  /\ pending'[q] = pending[q] /\ loaded'[q] = loaded[q]
                                  /\ tail'[q] = tail[q] /\ at'[q] = at[q],
           ViewOK(p)'
    PROVE  JournalInv'
<1> USE DEF JournalInv
<1>1. ChainIntact' /\ WorkersSeeEachOther' /\ SnapshotNeverAhead'
  BY DEF ChainIntact, WorkersSeeEachOther, SnapshotNeverAhead
<1>2. AckedSavesDurable'
  BY DEF AckedSavesDurable
<1>3. ASSUME NEW q \in Procs
      PROVE  ViewOK(q)'
  <2>1. CASE q = p
    BY <2>1
  <2>2. CASE q # p
    <3>1. ViewOK(q)
      BY DEF Views
    <3> QED
      BY <2>2, <3>1 DEF ViewOK, LinkView, SaveView, SeenView
  <2> QED
    BY <2>1, <2>2
<1> QED
  BY <1>1, <1>2, <1>3 DEF Views

\* A step of a process that leaves events, snapshot and saves alone and takes
\* it to a location where it holds nothing.
LEMMA IdleStep ==
    ASSUME TypeInv, JournalInv, NEW p \in Procs,
           UNCHANGED <<journal, snapshot, acked>>,
           pc' = [pc EXCEPT ![p] = "down"] \/ pc' = [pc EXCEPT ![p] = "lease"]
             \/ pc' = [pc EXCEPT ![p] = "start"] \/ pc' = [pc EXCEPT ![p] = "resume"]
             \/ pc' = [pc EXCEPT ![p] = "failed"] \/ pc' = [pc EXCEPT ![p] = "unlock"],
           \A q \in Procs \ {p} : /\ seen'[q] = seen[q]
                                  /\ pending'[q] = pending[q] /\ loaded'[q] = loaded[q]
                                  /\ tail'[q] = tail[q] /\ at'[q] = at[q]
    PROVE  JournalInv'
<1>1. ViewOK(p)'
  BY DEF ViewOK, Holding, TypeInv, TypeOK
<1>2. snapshot' <= Len(journal)
  BY DEF JournalInv, SnapshotNeverAhead
<1>3. \A q \in Procs \ {p} : pc'[q] = pc[q]
  BY DEF TypeInv, TypeOK
<1> QED
  BY <1>1, <1>2, <1>3, QuietStep

\* What a process knows when it loads the journal.
LEMMA LoadView ==
    ASSUME TypeInv, NEW p \in Procs, Load(p), UNCHANGED journal
    PROVE  ViewOK(p)'
<1>1. CASE journal = <<>>
  BY <1>1 DEF Load, Goto, ViewOK, Holding, TypeInv, TypeOK
<1>2. CASE journal # <<>>
  <2>1. seen'[p] = Len(journal) /\ Len(journal) \in Nat
    BY <1>2 DEF Load, TypeInv, TypeOK
  <2>2. SeenView(p)'
    BY <2>1 DEF SeenView
  <2>3. pc'[p] \in {"ready", "repair"}
    BY <1>2 DEF Load, Goto, TypeInv, TypeOK
  <2> QED
    BY <2>2, <2>3 DEF ViewOK
<1> QED
  BY <1>1, <1>2

\* The event a process links extends the chain, has a new key, and follows
\* everything that a worker did.
LEMMA LinkStep ==
    ASSUME TypeInv, LeaseInv, JournalInv, NEW p \in Procs, AppendLink(p),
           Len(journal) = loaded[p]
    PROVE  JournalInv'
<1> DEFINE n == Len(journal)
           e == [key |-> pending[p].key, payload |-> pending[p].payload,
                 prev |-> tail[p], author |-> p, base |-> seen[p]]
<1>1. /\ pc[p] = "link"
      /\ journal' = Append(journal, e)
      /\ at' = [at EXCEPT ![p] = n + 1]
      /\ seen' = [seen EXCEPT ![p] = n + 1]
      /\ pc' = [pc EXCEPT ![p] = "save"]
      /\ UNCHANGED <<snapshot, lock, pending, loaded, tail, acked>>
  BY DEF AppendLink, Goto
<1>2. /\ journal \in Seq(Event) /\ e \in Event /\ n \in Nat
      /\ p \in Procs /\ seen[p] \in Nat
  BY <1>1 DEF TypeInv, TypeOK, PendingReady, Event, Pending
<1>3. /\ Len(journal') = n + 1
      /\ DOMAIN journal' = 1..(n + 1)
      /\ \A i \in 1..n : journal'[i] = journal[i]
      /\ journal'[n + 1] = e
  BY <1>1, <1>2, AppendEvent
<1>4. LinkView(p) /\ SeenView(p)
  BY <1>1 DEF JournalInv, Views, ViewOK, Holding
<1>5. DOMAIN journal = 1..n
  BY <1>2
<1>6. ChainIntact'
  <2>1. \A i \in 1..(n + 1) : journal'[i].prev = IF i = 1 THEN None ELSE journal'[i - 1].key
    <3> TAKE i \in 1..(n + 1)
    <3>1. CASE i \in 1..n
      <4>1. journal[i].prev = IF i = 1 THEN None ELSE journal[i - 1].key
        BY <1>5, <3>1 DEF JournalInv, ChainIntact
      <4>2. i # 1 => i - 1 \in 1..n
        BY <1>2, <3>1
      <4> QED
        BY <1>3, <3>1, <4>1, <4>2
    <3>2. CASE i = n + 1
      <4>1. journal'[i].prev = tail[p]
        BY <1>3, <3>2
      <4>2. tail[p] = IF n = 0 THEN None ELSE journal[n].key
        BY <1>4 DEF LinkView
      <4>3. n # 0 => n \in 1..n /\ i - 1 = n /\ i # 1
        BY <1>2, <3>2
      <4>4. n = 0 => i = 1
        BY <1>2, <3>2
      <4> QED
        BY <1>3, <4>1, <4>2, <4>3, <4>4
    <3> QED
      BY <1>2, <3>1, <3>2
  <2>2. \A i \in 1..n : journal'[i].key # journal'[n + 1].key
    BY <1>3, <1>4 DEF LinkView
  <2>3. \A i, j \in 1..n : journal'[i].key = journal'[j].key => i = j
    BY <1>3, <1>5 DEF JournalInv, ChainIntact
  <2>4. \A i \in 1..(n + 1) : i \in 1..n \/ i = n + 1
    BY <1>2
  <2>5. \A i, j \in 1..(n + 1) : journal'[i].key = journal'[j].key => i = j
    BY <2>2, <2>3, <2>4
  <2> QED
    BY <1>3, <2>1, <2>5 DEF ChainIntact
<1>7. AckedSavesDurable'
  <2>1. 1..n \subseteq 1..(n + 1)
    BY <1>2
  <2> QED
    BY <1>1, <1>3, <1>5, <2>1 DEF JournalInv, AckedSavesDurable
<1>8. SnapshotNeverAhead'
  BY <1>1, <1>2, <1>3 DEF JournalInv, SnapshotNeverAhead, TypeInv, TypeOK
<1>9. WorkersSeeEachOther'
  <2> SUFFICES ASSUME NEW i \in 1..(n + 1), journal'[i].author \in Workers,
                      NEW j \in (journal'[i].base + 1)..(i - 1)
               PROVE  journal'[j].author \in Verifiers
    BY <1>3 DEF WorkersSeeEachOther
  <2>1. CASE i \in 1..n
    <3>1. journal'[i] = journal[i] /\ journal[i] \in Event
      BY <1>2, <1>3, <1>5, <2>1
    <3>2. journal[i].base \in Nat
      BY <3>1 DEF Event
    <3>3. j \in 1..n
      BY <1>2, <2>1, <3>1, <3>2
    <3>4. journal[j].author \in Verifiers
      BY <1>5, <2>1, <3>1 DEF JournalInv, WorkersSeeEachOther
    <3> QED
      BY <1>3, <3>3, <3>4
  <2>2. CASE i = n + 1
    <3>1. p \in Workers /\ journal'[i].base = seen[p]
      BY <1>3, <2>2
    <3>2. j \in (seen[p] + 1)..n /\ j \in 1..n
      BY <1>2, <2>2, <3>1
    <3> QED
      BY <1>3, <1>4, <3>1, <3>2 DEF SeenView
  <2> QED
    BY <1>2, <2>1, <2>2
<1>10. ASSUME NEW q \in Procs
       PROVE  ViewOK(q)'
  <2>1. CASE q = p
    <3>1. SaveView(p)'
      BY <1>1, <1>2, <1>3 DEF SaveView, TypeInv, TypeOK
    <3>2. SeenView(p)'
      BY <1>1, <1>2, <1>3 DEF SeenView, TypeInv, TypeOK
    <3>3. pc'[p] = "save"
      BY <1>1 DEF TypeInv, TypeOK
    <3> QED
      BY <2>1, <3>1, <3>2, <3>3 DEF ViewOK
  <2>2. CASE q # p
    <3>1. /\ pc'[q] = pc[q] /\ seen'[q] = seen[q] /\ pending'[q] = pending[q]
          /\ loaded'[q] = loaded[q] /\ tail'[q] = tail[q] /\ at'[q] = at[q]
          /\ loaded[q] \in Nat /\ at[q] \in Nat /\ seen[q] \in Nat
      BY <1>1, <2>2 DEF TypeInv, TypeOK
    <3>2. ViewOK(q)
      BY DEF JournalInv, Views
    <3>3. LinkView(q) => LinkView(q)'
      <4>1. loaded[q] <= n => \A i \in 1..loaded[q] : i \in 1..n
        BY <1>2, <3>1
      <4>2. loaded[q] <= n /\ loaded[q] # 0 => loaded[q] \in 1..n
        BY <1>2, <3>1
      <4>3. loaded[q] <= n => loaded[q] <= n + 1
        BY <1>2, <3>1
      <4> QED
        BY <1>3, <3>1, <4>1, <4>2, <4>3 DEF LinkView
    <3>4. SaveView(q) => SaveView(q)'
      BY <1>2, <1>3, <3>1 DEF SaveView
    <3>5. pc[q] \in Holding /\ SeenView(q) => SeenView(q)'
      <4> SUFFICES ASSUME pc[q] \in Holding, SeenView(q)
                   PROVE  SeenView(q)'
        OBVIOUS
      <4>1. seen[q] <= n + 1
        BY <1>2, <3>1 DEF SeenView
      <4>2. q \in Workers => p \in Verifiers
        <5>1. \A w \in Workers : pc[w] \in Holding => lock = w
          BY DEF LeaseInv, LockHeld, Leased, Holding
        <5> QED
          BY <1>1, <2>2, <5>1 DEF Holding
      <4>3. ASSUME q \in Workers, NEW j \in (seen[q] + 1)..(n + 1)
            PROVE  journal'[j].author \in Verifiers
        <5>1. CASE j = n + 1
          BY <1>3, <4>2, <4>3, <5>1
        <5>2. CASE j \in (seen[q] + 1)..n
          <6>1. j \in 1..n
            BY <1>2, <3>1, <5>2
          <6> QED
            BY <1>3, <4>3, <5>2, <6>1 DEF SeenView
        <5> QED
          BY <1>2, <3>1, <5>1, <5>2
      <4> QED
        BY <1>3, <3>1, <4>1, <4>3 DEF SeenView
    <3> QED
      BY <3>1, <3>2, <3>3, <3>4, <3>5 DEF ViewOK
  <2> QED
    BY <2>1, <2>2
<1> QED
  BY <1>6, <1>7, <1>8, <1>9, <1>10 DEF JournalInv, Views

\* Loading the journal, for a resume or for a verification.
LEMMA LoadStep ==
    ASSUME TypeInv, JournalInv, NEW p \in Procs, Load(p),
           UNCHANGED <<journal, snapshot, acked, pending, loaded, tail, at>>
    PROVE  JournalInv'
<1>1. ViewOK(p)'
  BY LoadView
<1>2. snapshot' <= Len(journal)
  BY DEF JournalInv, SnapshotNeverAhead
<1>3. \A q \in Procs \ {p} : pc'[q] = pc[q] /\ seen'[q] = seen[q]
  <2>1. PICK l \in {"failed", "ready", "repair"} : pc' = [pc EXCEPT ![p] = l]
    BY LoadTyped DEF TypeInv
  <2>2. seen' = seen \/ seen' = [seen EXCEPT ![p] = Len(journal)]
    BY DEF Load
  <2> QED
    BY <2>1, <2>2 DEF TypeInv, TypeOK
<1> QED
  BY <1>1, <1>2, <1>3, QuietStep

\* Reading the events before the link: the search for the key gives either the
\* view a link needs, or an event to acknowledge, or an error.
LEMMA ReadStep ==
    ASSUME TypeInv, JournalInv, NEW p \in Procs, AppendLoad(p)
    PROVE  JournalInv'
<1>1. /\ pc[p] = "append"
      /\ loaded' = [loaded EXCEPT ![p] = Len(journal)]
      /\ tail' = [tail EXCEPT ![p] = IF journal = <<>> THEN None ELSE journal[Len(journal)].key]
      /\ UNCHANGED <<journal, snapshot, seen, pending, acked>>
  BY DEF AppendLoad, durable
<1>2. snapshot' <= Len(journal)
  BY <1>1 DEF JournalInv, SnapshotNeverAhead
<1>3. SeenView(p)'
  <2>1. SeenView(p)
    BY <1>1 DEF JournalInv, Views, ViewOK, Holding
  <2> QED
    BY <1>1, <2>1 DEF SeenView
<1>4. DOMAIN journal = 1..Len(journal) /\ Len(journal) \in Nat
  BY DEF TypeInv, TypeOK
<1>5. CASE SameKey(p) = {} /\ pc' = [pc EXCEPT ![p] = "link"] /\ UNCHANGED at
  <2>1. pc'[p] = "link" /\ loaded'[p] = Len(journal)
    BY <1>1, <1>5 DEF TypeInv, TypeOK
  <2>2. tail'[p] = IF loaded'[p] = 0 THEN None ELSE journal[loaded'[p]].key
    <3>1. journal = <<>> <=> Len(journal) = 0
      BY DEF TypeInv, TypeOK
    <3> QED
      BY <1>1, <2>1, <3>1 DEF TypeInv, TypeOK
  <2>3. \A i \in 1..Len(journal) : journal[i].key # pending[p].key
    BY <1>4, <1>5 DEF SameKey
  <2>4. LinkView(p)'
    BY <1>1, <1>4, <2>1, <2>2, <2>3 DEF LinkView
  <2>5. ViewOK(p)'
    BY <1>3, <2>1, <2>4 DEF ViewOK
  <2>6. \A q \in Procs \ {p} : /\ pc'[q] = pc[q] /\ loaded'[q] = loaded[q]
                               /\ tail'[q] = tail[q] /\ at'[q] = at[q]
    BY <1>1, <1>5 DEF TypeInv, TypeOK
  <2> QED
    BY <1>1, <1>2, <2>5, <2>6, QuietStep
<1>6. ASSUME NEW i \in SameKey(p), at' = [at EXCEPT ![p] = i],
             journal[i].payload = pending[p].payload, pc' = [pc EXCEPT ![p] = "save"]
      PROVE  JournalInv'
  <2>1. pc'[p] = "save" /\ at'[p] = i
    BY <1>6 DEF TypeInv, TypeOK
  <2>2. SaveView(p)'
    BY <1>1, <1>4, <1>6, <2>1 DEF SaveView, SameKey
  <2>3. ViewOK(p)'
    BY <1>3, <2>1, <2>2 DEF ViewOK
  <2>4. \A q \in Procs \ {p} : /\ pc'[q] = pc[q] /\ loaded'[q] = loaded[q]
                               /\ tail'[q] = tail[q] /\ at'[q] = at[q]
    BY <1>1, <1>6 DEF TypeInv, TypeOK
  <2> QED
    BY <1>1, <1>2, <2>3, <2>4, QuietStep
<1>7. ASSUME NEW i \in SameKey(p), at' = [at EXCEPT ![p] = i],
             pc' = [pc EXCEPT ![p] = "failed"]
      PROVE  JournalInv'
  <2>1. \A q \in Procs \ {p} : /\ loaded'[q] = loaded[q]
                               /\ tail'[q] = tail[q] /\ at'[q] = at[q]
    BY <1>1, <1>7 DEF TypeInv, TypeOK
  <2> QED
    BY <1>1, <1>7, <2>1, IdleStep
<1>8. \/ SameKey(p) = {} /\ pc' = [pc EXCEPT ![p] = "link"] /\ UNCHANGED at
      \/ \E i \in SameKey(p) :
            /\ at' = [at EXCEPT ![p] = i]
            /\ pc' = [pc EXCEPT ![p] = IF journal[i].payload = pending[p].payload
                                         THEN "save" ELSE "failed"]
  BY DEF AppendLoad, Goto
<1> QED
  BY <1>5, <1>6, <1>7, <1>8

\* A process that ends, however it ends.
LEMMA VanishStep ==
    ASSUME TypeInv, JournalInv, NEW p \in Procs, Vanish(p),
           UNCHANGED <<journal, snapshot, acked>>
    PROVE  JournalInv'
<1>1. pc' = [pc EXCEPT ![p] = "down"]
  BY DEF Vanish, Goto
<1>2. \A q \in Procs \ {p} : /\ seen'[q] = seen[q]
                             /\ pending'[q] = pending[q] /\ loaded'[q] = loaded[q]
                             /\ tail'[q] = tail[q] /\ at'[q] = at[q]
  BY DEF Vanish, TypeInv, TypeOK
<1> QED
  BY <1>1, <1>2, IdleStep

\* A step that changes nothing.
LEMMA StutterStep == JournalInv /\ UNCHANGED vars => JournalInv'
BY DEF JournalInv, ChainIntact, AckedSavesDurable, SnapshotNeverAhead, WorkersSeeEachOther,
       Views, ViewOK, LinkView, SaveView, SeenView, vars, durable, volatile

\* A step of the save protocol, of loading or of the lease keeps the invariant.
LEMMA JournalNext ==
    TypeInv /\ LeaseInv /\ Unread /\ JournalInv /\ [Next]_vars => JournalInv'
<1> SUFFICES ASSUME TypeInv, LeaseInv, Unread, JournalInv, [Next]_vars
             PROVE  JournalInv'
  OBVIOUS
<1>1. ASSUME NEW w \in Workers, WorkerStep(w)
      PROVE  JournalInv'
  <2>1. CASE AcquireLock(w)
    BY <2>1, IdleStep DEF AcquireLock, Goto, durable
  <2>2. CASE WriteLease(w)
    BY <2>2, IdleStep DEF WriteLease, Goto
  <2>3. CASE CloseLease(w)
    BY <2>3, IdleStep DEF CloseLease, Goto
  <2>4. CASE Unlock(w)
    BY <2>4, VanishStep DEF Unlock, durable
  <2>5. CASE WriteRequest(w)
    <3>1. CASE journal = <<>> /\ bound = 0
      <4>1. pc' = [pc EXCEPT ![w] = "bind"]
            /\ UNCHANGED <<journal, snapshot, seen, pending, loaded, tail, at, acked>>
        BY <2>5, <3>1 DEF WriteRequest, Goto
      <4>2. pc'[w] = "bind" /\ \A q \in Procs \ {w} : pc'[q] = pc[q]
        BY <4>1 DEF TypeInv, TypeOK
      <4>3. snapshot' <= Len(journal)
        BY <4>1 DEF JournalInv, SnapshotNeverAhead
      <4>4. SeenView(w)'
        <5>1. seen[w] = 0 /\ Len(journal) = 0
          BY <2>5, <3>1 DEF WriteRequest, Unread
        <5> QED
          BY <4>1, <5>1 DEF SeenView
      <4>5. ViewOK(w)'
        BY <4>2, <4>4 DEF ViewOK
      <4> QED
        BY <4>1, <4>2, <4>3, <4>5, QuietStep
    <3>2. CASE ~(journal = <<>> /\ bound = 0)
      BY <2>5, <3>2, IdleStep DEF WriteRequest, Goto
    <3> QED
      BY <3>1, <3>2
  <2>6. CASE WriteOwnerPaths(w)
    <3>1. /\ pc[w] = "bind" /\ pc' = [pc EXCEPT ![w] = "append"]
          /\ UNCHANGED <<journal, snapshot, seen, loaded, tail, at, acked>>
          /\ \E v \in Payloads :
                pending' = [pending EXCEPT ![w] = [key |-> InitKey, payload |-> v]]
      BY <2>6 DEF WriteOwnerPaths, Goto
    <3>2. /\ pc'[w] = "append"
          /\ \A q \in Procs \ {w} : pc'[q] = pc[q] /\ pending'[q] = pending[q]
      BY <3>1 DEF TypeInv, TypeOK
    <3>3. snapshot' <= Len(journal)
      BY <3>1 DEF JournalInv, SnapshotNeverAhead
    <3>4. ViewOK(w)'
      BY <3>1, <3>2 DEF ViewOK, JournalInv, Views, Holding, SeenView
    <3> QED
      BY <3>1, <3>2, <3>3, <3>4, QuietStep
  <2>7. CASE ResumeLoad(w)
    BY <2>7, LoadStep DEF ResumeLoad, durable
  <2> QED
    BY <1>1, <2>1, <2>2, <2>3, <2>4, <2>5, <2>6, <2>7 DEF WorkerStep
<1>2. ASSUME NEW v \in Verifiers, VerifyLoad(v)
      PROVE  JournalInv'
  BY <1>2, LoadStep DEF VerifyLoad, durable
<1>3. ASSUME NEW v \in Verifiers, VerifyEnd(v)
      PROVE  JournalInv'
  BY <1>3, VanishStep DEF VerifyEnd, durable
<1>4. ASSUME NEW p \in Procs, AnyStep(p)
      PROVE  JournalInv'
  <2>0. SeenView(p) \/ pc[p] \notin Holding
    BY DEF JournalInv, Views, ViewOK
  <2>1. CASE RepairSnapshot(p)
    <3>1. /\ pc[p] = "repair" /\ pc' = [pc EXCEPT ![p] = "ready"]
          /\ snapshot' = seen[p]
          /\ UNCHANGED <<journal, seen, pending, loaded, tail, at, acked>>
      BY <2>1 DEF RepairSnapshot, Goto
    <3>2. pc'[p] = "ready" /\ \A q \in Procs \ {p} : pc'[q] = pc[q]
      BY <3>1 DEF TypeInv, TypeOK
    <3>3. SeenView(p) /\ SeenView(p)'
      BY <2>0, <3>1 DEF Holding, SeenView
    <3>4. ViewOK(p)' /\ snapshot' <= Len(journal)
      BY <3>1, <3>2, <3>3 DEF ViewOK, SeenView
    <3> QED
      BY <3>1, <3>2, <3>4, QuietStep
  <2>2. CASE BeginSave(p)
    <3>1. /\ pc[p] = "ready" /\ pc' = [pc EXCEPT ![p] = "append"]
          /\ UNCHANGED <<journal, snapshot, seen, loaded, tail, at, acked>>
          /\ \A q \in Procs \ {p} : pending'[q] = pending[q]
      BY <2>2 DEF BeginSave, Goto, durable, TypeInv, TypeOK
    <3>2. pc'[p] = "append" /\ \A q \in Procs \ {p} : pc'[q] = pc[q]
      BY <3>1 DEF TypeInv, TypeOK
    <3>3. ViewOK(p)' /\ snapshot' <= Len(journal)
      BY <2>0, <3>1, <3>2 DEF ViewOK, Holding, SeenView, JournalInv, SnapshotNeverAhead
    <3> QED
      BY <3>1, <3>2, <3>3, QuietStep
  <2>3. CASE AppendLoad(p)
    BY <2>3, ReadStep
  <2>4. CASE AppendLink(p)
    <3>1. CASE Len(journal) = loaded[p]
      BY <2>4, <3>1, LinkStep
    <3>2. CASE Len(journal) # loaded[p]
      BY <2>4, <3>2, IdleStep DEF AppendLink, Goto
    <3> QED
      BY <3>1, <3>2
  <2>5. CASE WriteSnapshot(p)
    <3>1. /\ pc[p] = "save" /\ pc' = [pc EXCEPT ![p] = "ready"]
          /\ snapshot' = at[p]
          /\ acked' = acked \cup {[seq |-> at[p], key |-> pending[p].key,
                                   payload |-> pending[p].payload]}
          /\ UNCHANGED <<journal, seen, pending, loaded, tail, at>>
      BY <2>5 DEF WriteSnapshot, Goto
    <3>2. pc'[p] = "ready" /\ \A q \in Procs \ {p} : pc'[q] = pc[q]
      BY <3>1 DEF TypeInv, TypeOK
    <3>3. SaveView(p)
      BY <3>1 DEF JournalInv, Views, ViewOK
    <3>4. ViewOK(p)'
      BY <2>0, <3>1, <3>2 DEF ViewOK, Holding, SeenView
    <3>5. \A a \in acked' \ acked : /\ a.seq \in DOMAIN journal
                                    /\ journal[a.seq].key = a.key
                                    /\ journal[a.seq].payload = a.payload
      <4>1. DOMAIN journal = 1..Len(journal)
        BY DEF TypeInv, TypeOK
      <4> QED
        BY <3>1, <3>3, <4>1 DEF SaveView
    <3>6. snapshot' <= Len(journal)
      BY <3>1, <3>3 DEF SaveView, TypeInv, TypeOK
    <3> QED
      BY <3>1, <3>2, <3>4, <3>5, <3>6, QuietStep
  <2>6. CASE Crash(p)
    BY <2>6, VanishStep DEF Crash, durable
  <2> QED
    BY <1>4, <2>1, <2>2, <2>3, <2>4, <2>5, <2>6 DEF AnyStep
<1>5. CASE UNCHANGED vars
  BY <1>5, StutterStep
<1> QED
  BY <1>1, <1>2, <1>3, <1>4, <1>5 DEF Next

LEMMA JournalSound ==
    JournalInv => ChainIntact /\ AckedSavesDurable /\ SnapshotNeverAhead /\ WorkersSeeEachOther
BY DEF JournalInv

\* However workers crash and resume, and whatever `verify` commands append
\* without the lock, the event chain loads.
THEOREM ChainStaysIntact == Spec => []ChainIntact
BY TypeInit, TypeNext, LeaseInit, LeaseNext, UnreadInit, UnreadNext,
   JournalInit, JournalNext, JournalSound, PTL DEF Spec

\* No event of an acknowledged save is ever missing from the chain.
THEOREM AckedStays == Spec => []AckedSavesDurable
BY TypeInit, TypeNext, LeaseInit, LeaseNext, UnreadInit, UnreadNext,
   JournalInit, JournalNext, JournalSound, PTL DEF Spec

\* The snapshot shows nothing that the events do not hold.
THEOREM SnapshotBehind == Spec => []SnapshotNeverAhead
BY TypeInit, TypeNext, LeaseInit, LeaseNext, UnreadInit, UnreadNext,
   JournalInit, JournalNext, JournalSound, PTL DEF Spec

\* A worker appends to a state that takes in every transition of the workers
\* before it; only `verify` commands append in between.
THEOREM WorkersInOrder == Spec => []WorkersSeeEachOther
BY TypeInit, TypeNext, LeaseInit, LeaseNext, UnreadInit, UnreadNext,
   JournalInit, JournalNext, JournalSound, PTL DEF Spec

\* No step changes or removes an event file.
THEOREM EventsStay == Spec => EventsImmutable
<1> DEFINE Kept == /\ Len(journal) <= Len(journal')
                   /\ \A i \in DOMAIN journal : journal'[i] = journal[i]
<1>1. ASSUME TypeInv, [Next]_vars
      PROVE  [Kept]_vars
  <2>1. ASSUME UNCHANGED journal
        PROVE  Kept
    BY <1>1, <2>1 DEF TypeInv, TypeOK
  <2>2. ASSUME NEW p \in Procs, AppendLink(p), Len(journal) = loaded[p]
        PROVE  Kept
    <3> DEFINE e == [key |-> pending[p].key, payload |-> pending[p].payload,
                     prev |-> tail[p], author |-> p, base |-> seen[p]]
    <3>1. journal \in Seq(Event) /\ e \in Event /\ journal' = Append(journal, e)
      BY <1>1, <2>2 DEF AppendLink, TypeInv, TypeOK, PendingReady, Event, Pending
    <3>2. Len(journal) \in Nat /\ DOMAIN journal = 1..Len(journal)
      BY <3>1
    <3> HIDE DEF e
    <3> QED
      BY <3>1, <3>2, AppendEvent
  <2>3. ASSUME Next, ~(\E p \in Procs : AppendLink(p) /\ Len(journal) = loaded[p])
        PROVE  UNCHANGED journal
    BY <2>3 DEF Next, WorkerStep, AnyStep, AcquireLock, WriteLease, CloseLease, Unlock,
                WriteRequest, WriteOwnerPaths, ResumeLoad, VerifyLoad, VerifyEnd,
                RepairSnapshot, BeginSave, AppendLoad, AppendLink, WriteSnapshot, Crash,
                durable
  <2> QED
    BY <1>1, <2>1, <2>2, <2>3
<1> QED
  BY TypeInit, TypeNext, <1>1, PTL DEF Spec, EventsImmutable

=============================================================================
