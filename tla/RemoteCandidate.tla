-------------------------- MODULE RemoteCandidate --------------------------
(***************************************************************************)
(* The supervisor of one A2 candidate on the remote machine                *)
(* (src/myis_research/armindex/a2_remote_candidate.py): it launches the    *)
(* retrieval worker, attaches to one that an earlier supervisor left, reaps*)
(* a stale or cancelled one, and makes the output of a dead one durable.   *)
(* Supervisors are started over SSH, one for each call of RemoteExecutor,  *)
(* and can be cut off at any point; the worker has a session of its own    *)
(* and lives on.                                                           *)
(*                                                                         *)
(* A worker stands for a process identifier with its start time, which is  *)
(* never used again.  A zombie counts as dead (_proc_start_tick).  The     *)
(* recovery counter and the terminal fields of the identity are left out:  *)
(* nothing reads them back but to copy them.                               *)
(***************************************************************************)
EXTENDS Naturals, FiniteSets

CONSTANTS
    Supervisors,  \* supervising processes on the remote machine
    Workers,      \* worker processes; bounds the launches
    None

ASSUME NoneIsFresh == None \notin Supervisors \cup Workers

VARIABLES
    \* files of the candidate
    identity,     \* process.identity.json: the worker it names
    beat,         \* heartbeat.json: the worker it is about
    cancel,       \* cancel.request.json exists
    stdout,       \* what worker.stdout holds
    result,       \* result.json exists
    \* the operating system
    lock,         \* holder of supervisor.lock
    live,         \* running workers
    launched,     \* workers that were ever launched
    \* supervisors
    pc,
    mine,         \* the worker a supervisor has in hand
    \* history
    strays        \* workers whose supervisor died before it wrote their identity

files == <<identity, beat, cancel, stdout, result>>
vars == <<files, lock, live, launched, pc, mine, strays>>

\* "foreign" is a JSON object that is not a result of this candidate: the
\* worker prints {"status":"FAILED_CLOSED"} when it fails.
Outputs == {"empty", "garbled", "foreign", "whole"}

Locations == {"idle", "look", "reap", "check", "launch", "spawned", "watch", "stop"}

TypeOK ==
    /\ identity \in Workers \cup {None}
    /\ beat \in Workers \cup {None}
    /\ cancel \in BOOLEAN
    /\ stdout \in Outputs
    /\ result \in BOOLEAN
    /\ lock \in Supervisors \cup {None}
    /\ live \in SUBSET launched
    /\ launched \in SUBSET Workers
    /\ pc \in [Supervisors -> Locations]
    /\ mine \in [Supervisors -> Workers \cup {None}]
    /\ strays \in SUBSET launched

Init ==
    /\ identity = None /\ beat = None
    /\ cancel = FALSE /\ result = FALSE
    /\ stdout = "empty"
    /\ lock = None
    /\ live = {} /\ launched = {} /\ strays = {}
    /\ pc = [s \in Supervisors |-> "idle"]
    /\ mine = [s \in Supervisors |-> None]

-----------------------------------------------------------------------------
Goto(s, where, worker) ==
    /\ pc' = [pc EXCEPT ![s] = where]
    /\ mine' = [mine EXCEPT ![s] = worker]

\* The supervisor returns or raises: _candidate_lock is released.
Leave(s) == Goto(s, "idle", None) /\ lock' = None

\* The recorded worker is dead and its output is a result.
Recoverable == identity \notin live \cup {None} /\ stdout = "whole"

\* MUTANT of Enter: the lock is not exclusive.
EnterShared(s) ==
    /\ pc[s] = "idle"
    /\ lock' = s
    /\ Goto(s, "look", None)
    /\ UNCHANGED <<files, live, launched, strays>>

\* The lock is not waited for: a supervisor that does not get it raises, and
\* has done nothing.
Enter(s) ==
    /\ pc[s] = "idle" /\ lock = None
    /\ lock' = s
    /\ Goto(s, "look", None)
    /\ UNCHANGED <<files, live, launched, strays>>

\* A durable result is returned as it is.
ReturnResult(s) ==
    /\ pc[s] = "look" /\ result
    /\ Leave(s)
    /\ UNCHANGED <<files, live, launched, strays>>

NoIdentity(s) ==
    /\ pc[s] = "look" /\ ~result /\ identity = None
    /\ Goto(s, "check", None)
    /\ UNCHANGED <<files, lock, live, launched, strays>>

\* The recorded worker runs.  A heartbeat about it may be fresh or stale; a
\* heartbeat about another is never fresh.
FindLive(s) ==
    /\ pc[s] = "look" /\ ~result /\ identity \in live
    /\ \/ ~cancel /\ beat = identity /\ Goto(s, "check", identity)
       \/ Goto(s, "reap", identity)
    /\ UNCHANGED <<files, lock, live, launched, strays>>

\* The recorded worker is dead: its output is made the result, or shows that
\* it left none, or cannot be validated, which raises.
FindDead(s) ==
    /\ pc[s] = "look" /\ ~result /\ identity \notin live \cup {None}
    /\ \/ /\ stdout = "whole"
          /\ result' = TRUE /\ beat' = identity
          /\ Leave(s)
       \/ /\ stdout = "foreign"
          /\ Leave(s)
          /\ UNCHANGED <<result, beat>>
       \/ /\ stdout \in {"empty", "garbled"}
          /\ Goto(s, "check", None)
          /\ UNCHANGED <<result, beat, lock>>
    /\ UNCHANGED <<identity, cancel, stdout, live, launched, strays>>

\* SIGTERM, then SIGKILL.  A worker that is killed may be cut off while it
\* prints.
Kill(w) ==
    /\ live' = live \ {w}
    /\ stdout' \in IF w \in live THEN {stdout, "garbled"} ELSE {stdout}

\* MUTANT of Reap: a stale worker is forgotten without being terminated.
ReapNobody(s) ==
    /\ pc[s] = "reap"
    /\ Goto(s, "check", None)
    /\ UNCHANGED <<files, lock, live, launched, strays>>

\* A worker found stale or cancelled.  It may have ended since it was found
\* alive; its output is not looked at again.
Reap(s) ==
    /\ pc[s] = "reap"
    /\ \/ /\ Kill(mine[s])
          /\ Goto(s, "check", None)
          /\ UNCHANGED lock
       \/ /\ Leave(s)      \* not gone after both grace periods, or at the signal
          /\ UNCHANGED <<live, stdout>>
    /\ UNCHANGED <<identity, beat, cancel, result, launched, strays>>

Cancelled(s) ==
    /\ pc[s] = "check" /\ cancel
    /\ Leave(s)
    /\ UNCHANGED <<files, live, launched, strays>>

Attach(s) ==
    /\ pc[s] = "check" /\ ~cancel /\ mine[s] # None
    /\ Goto(s, "watch", mine[s])
    /\ UNCHANGED <<files, lock, live, launched, strays>>

\* MUTANT of Cleared: a cancellation is noticed only by the watch.
ClearedAnyway(s) ==
    /\ pc[s] = "check" /\ mine[s] = None
    /\ Goto(s, "launch", None)
    /\ UNCHANGED <<files, lock, live, launched, strays>>

\* There is no cancellation: the supervisor goes on to the launch, and does not
\* look again before it.
Cleared(s) ==
    /\ pc[s] = "check" /\ ~cancel /\ mine[s] = None
    /\ Goto(s, "launch", None)
    /\ UNCHANGED <<files, lock, live, launched, strays>>

\* worker.stdout is opened for writing, which empties it, and Popen starts
\* the worker, or raises (always, once the bound Workers is reached).
Launch(s) ==
    /\ pc[s] = "launch"
    /\ stdout' = "empty"
    /\ \/ /\ Leave(s)
          /\ UNCHANGED <<live, launched>>
       \/ \E w \in Workers \ launched :
            /\ live' = live \cup {w}
            /\ launched' = launched \cup {w}
            /\ Goto(s, "spawned", w)
            /\ UNCHANGED lock
    /\ UNCHANGED <<identity, beat, cancel, result, strays>>

\* A worker that is gone already has no start time to record: this raises.
WriteIdentity(s) ==
    /\ pc[s] = "spawned"
    /\ \/ /\ mine[s] \in live
          /\ identity' = mine[s]
          /\ Goto(s, "watch", mine[s])
          /\ UNCHANGED lock
       \/ /\ mine[s] \notin live
          /\ Leave(s)
          /\ UNCHANGED identity
    /\ UNCHANGED <<beat, cancel, stdout, result, live, launched, strays>>

Heartbeat(s) ==
    /\ pc[s] = "watch" /\ mine[s] \in live /\ ~cancel
    /\ beat' = mine[s]
    /\ UNCHANGED <<identity, cancel, stdout, result, lock, live, launched, pc, mine, strays>>

\* MUTANT of GiveUp: no time limit.
GiveUpOnCancel(s) ==
    /\ pc[s] = "watch" /\ mine[s] \in live /\ cancel
    /\ Goto(s, "stop", mine[s])
    /\ UNCHANGED <<files, lock, live, launched, strays>>

\* The worker runs and is cancelled, or has reached its time limit.
GiveUp(s) ==
    /\ pc[s] = "watch" /\ mine[s] \in live
    /\ Goto(s, "stop", mine[s])
    /\ UNCHANGED <<files, lock, live, launched, strays>>

\* It is reaped, or resists; both raise.
Stop(s) ==
    /\ pc[s] = "stop"
    /\ \/ Kill(mine[s])
       \/ mine[s] \in live /\ UNCHANGED <<live, stdout>>
    /\ Leave(s)
    /\ UNCHANGED <<identity, beat, cancel, result, launched, strays>>

\* The watched worker is gone: its output becomes the result, with the
\* terminal identity and heartbeat, or this raises.
Collect(s) ==
    /\ pc[s] = "watch" /\ mine[s] \notin live
    /\ \/ /\ stdout = "whole"
          /\ result' = TRUE /\ identity' = mine[s] /\ beat' = mine[s]
       \/ /\ stdout # "whole"
          /\ UNCHANGED <<result, identity, beat>>
    /\ Leave(s)
    /\ UNCHANGED <<cancel, stdout, live, launched, strays>>

-----------------------------------------------------------------------------
\* A supervisor is cut off.
Crash(s) ==
    /\ pc[s] # "idle"
    /\ strays' = IF pc[s] = "spawned" THEN strays \cup {mine[s]} ELSE strays
    /\ Leave(s)
    /\ UNCHANGED <<files, live, launched>>

\* The worker prints its one line and exits, or dies before or while it
\* prints.  Workers that share the file write over each other from its start.
WorkerExits(w) ==
    /\ w \in live
    /\ live' = live \ {w}
    /\ stdout' \in {stdout, "garbled", "foreign", "whole"}
    /\ UNCHANGED <<identity, beat, cancel, result, lock, launched, pc, mine, strays>>

\* The script of RemoteExecutor.cancel_and_reap leaves its request; no code
\* removes it.
RequestCancel ==
    /\ ~cancel
    /\ cancel' = TRUE
    /\ UNCHANGED <<identity, beat, stdout, result, lock, live, launched, pc, mine, strays>>

SupervisorStep(s) ==
    \/ ReturnResult(s) \/ NoIdentity(s) \/ FindLive(s) \/ FindDead(s)
    \/ Reap(s) \/ Cancelled(s) \/ Attach(s) \/ Cleared(s) \/ Launch(s) \/ WriteIdentity(s)
    \/ Heartbeat(s) \/ GiveUp(s) \/ Stop(s) \/ Collect(s)

Next ==
    \/ \E s \in Supervisors : Enter(s) \/ SupervisorStep(s) \/ Crash(s)
    \/ \E w \in Workers : WorkerExits(w)
    \/ RequestCancel

\* A supervisor that runs takes its next step; nothing is assumed of the
\* worker, of the executor that cancels, or of whoever starts supervisors.
Fairness == \A s \in Supervisors : WF_vars(SupervisorStep(s))

Spec == Init /\ [][Next]_vars /\ Fairness

-----------------------------------------------------------------------------
\* Apart from a worker whose supervisor died between Popen and the identity
\* file, no two workers of a candidate run at the same time, and the one that
\* runs can be found again: the identity file or the lock's holder names it.
OneWorker ==
    /\ Cardinality(live \ strays) <= 1
    /\ \A w \in live \ strays :
         w = identity \/ (lock # None /\ w = mine[lock] /\ pc[lock] = "spawned")

\* Once result.json exists it stays, and no worker is launched for the
\* candidate any more, whatever supervisors and their crashes interleave.
ResultFinal == [][result => result' /\ live' \subseteq live]_vars

\* Nobody who runs can produce a result any more.
Lost ==
    /\ ~result /\ live = {}
    /\ \A s \in Supervisors : pc[s] \in {"idle", "look"} \/ (pc[s] = "check" /\ cancel)
    /\ \/ identity # None /\ stdout = "foreign"
       \/ cancel /\ ~Recoverable

\* The candidate's fate is settled once: a recorded result is never taken
\* back, and a candidate whose worker failed with an output, or which was
\* cancelled without one, never runs again.
Fate == INSTANCE CandidateFate WITH
    fate <- IF result THEN "recorded" ELSE IF Lost THEN "lost" ELSE "open"
FateSettledOnce == Fate!Spec

\* A supervisor that was started returns or raises, by its time limit at the
\* latest, even when the worker hangs.
SupervisorEnds == \A s \in Supervisors : pc[s] # "idle" ~> pc[s] = "idle"

\* The supervisor recovers "without launching a second worker"
\* (a2_remote_candidate.py, module docstring): two never run at once.
NeverTwoWorkers == Cardinality(live) <= 1

=============================================================================
