----------------------- MODULE RemoteCandidateProofs -----------------------
(***************************************************************************)
(* Proofs about RemoteCandidate, for any numbers of supervisors and of     *)
(* launches.                                                               *)
(***************************************************************************)
EXTENDS RemoteCandidate, FiniteSetTheorems, TLAPS

USE DEF Outputs, Locations

\* The actions of one supervisor, one disjunct for each.
LEMMA NextCases ==
    ASSUME Next
    PROVE  \/ \E s \in Supervisors :
                \/ Enter(s) \/ ReturnResult(s) \/ NoIdentity(s) \/ FindLive(s)
                \/ FindDead(s) \/ Reap(s) \/ Cancelled(s) \/ Attach(s) \/ Cleared(s) \/ Launch(s)
                \/ WriteIdentity(s) \/ Heartbeat(s) \/ GiveUp(s) \/ Stop(s)
                \/ Collect(s) \/ Crash(s)
           \/ \E w \in Workers : WorkerExits(w)
           \/ RequestCancel
BY DEF Next, SupervisorStep

-----------------------------------------------------------------------------
(***************************************************************************)
(* Types.                                                                  *)
(***************************************************************************)
TypeInv ==
    /\ TypeOK
    /\ \A s \in Supervisors : pc[s] = "spawned" => mine[s] \in launched

LEMMA TypeInit == Init => TypeInv
BY DEF Init, TypeOK, TypeInv

LEMMA TypeNext == TypeInv /\ [Next]_vars => TypeInv'
<1> SUFFICES ASSUME TypeInv, [Next]_vars
             PROVE  TypeInv'
  OBVIOUS
<1> USE DEF TypeOK, TypeInv
<1>1. ASSUME NEW s \in Supervisors,
             Enter(s) \/ ReturnResult(s) \/ NoIdentity(s) \/ FindLive(s) \/ Cancelled(s)
             \/ Attach(s) \/ Cleared(s) \/ Heartbeat(s) \/ GiveUp(s)
      PROVE  TypeInv'
  BY <1>1 DEF Enter, ReturnResult, NoIdentity, FindLive, Cancelled, Attach, Cleared, Heartbeat,
              GiveUp, Goto, Leave, files
<1>2. ASSUME NEW s \in Supervisors, FindDead(s) \/ Reap(s) \/ Stop(s) \/ Collect(s)
      PROVE  TypeInv'
  BY <1>2 DEF FindDead, Reap, Stop, Collect, Kill, Goto, Leave
<1>3. ASSUME NEW s \in Supervisors, Launch(s) \/ WriteIdentity(s)
      PROVE  TypeInv'
  BY <1>3 DEF Launch, WriteIdentity, Goto, Leave
<1>4. ASSUME NEW s \in Supervisors, Crash(s)
      PROVE  TypeInv'
  BY <1>4 DEF Crash, Goto, Leave, files
<1>5. ASSUME NEW w \in Workers, WorkerExits(w)
      PROVE  TypeInv'
  BY <1>5 DEF WorkerExits
<1>6. CASE RequestCancel
  BY <1>6 DEF RequestCancel
<1>7. CASE UNCHANGED vars
  BY <1>7 DEF vars, files
<1> QED
  BY <1>1, <1>2, <1>3, <1>4, <1>5, <1>6, <1>7, NextCases

\* The state of the candidate's files, of its workers and of its supervisors
\* stays in its types.
THEOREM TypeCorrect == Spec => []TypeOK
<1>1. TypeInv => TypeOK
  BY DEF TypeInv
<1> QED
  BY TypeInit, TypeNext, <1>1, PTL DEF Spec

-----------------------------------------------------------------------------
(***************************************************************************)
(* One worker.  The lock makes one supervisor busy at a time; what it has  *)
(* in hand and what the identity file says never drift apart.              *)
(***************************************************************************)
\* The workers that some supervisor has been able to record.
Known == live \ strays

ClaimInv ==
    /\ \A s \in Supervisors : pc[s] # "idle" => lock = s
    /\ \A w \in Known : w = identity \/ \E s \in Supervisors : pc[s] = "spawned" /\ mine[s] = w
    /\ \A s \in Supervisors : pc[s] = "spawned" => identity \notin Known
    /\ \A s \in Supervisors : pc[s] = "launch" \/ (pc[s] = "check" /\ mine[s] = None) => Known = {}
    /\ \A s \in Supervisors :
          pc[s] \in {"reap", "watch", "stop"} \/ (pc[s] = "check" /\ mine[s] # None)
              => mine[s] = identity
    /\ identity \in launched \cup {None}
    /\ \A s \in Supervisors : result => pc[s] \in {"idle", "look"}

LEMMA ClaimInit == Init => ClaimInv
BY DEF Init, ClaimInv, Known

LEMMA ClaimNext == TypeInv /\ ClaimInv /\ [Next]_vars => ClaimInv'
<1> SUFFICES ASSUME TypeInv, ClaimInv, [Next]_vars
             PROVE  ClaimInv'
  OBVIOUS
<1>0. /\ None \notin Workers /\ None \notin Supervisors
      /\ TypeOK /\ \A s \in Supervisors : pc[s] = "spawned" => mine[s] \in launched
  BY NoneIsFresh DEF TypeInv
<1>1. ASSUME NEW s \in Supervisors, Enter(s) \/ ReturnResult(s) \/ Cancelled(s)
      PROVE  ClaimInv'
  BY <1>0, <1>1 DEF Enter, ReturnResult, Cancelled, Goto, Leave, files, ClaimInv, Known, TypeOK
<1>2. ASSUME NEW s \in Supervisors, NoIdentity(s)
      PROVE  ClaimInv'
  BY <1>0, <1>2 DEF NoIdentity, Goto, files, ClaimInv, Known, TypeOK
<1>3. ASSUME NEW s \in Supervisors, FindLive(s)
      PROVE  ClaimInv'
  BY <1>0, <1>3 DEF FindLive, Goto, files, ClaimInv, Known, TypeOK
<1>4. ASSUME NEW s \in Supervisors, FindDead(s)
      PROVE  ClaimInv'
  BY <1>0, <1>4 DEF FindDead, Goto, Leave, ClaimInv, Known, TypeOK
<1>5. ASSUME NEW s \in Supervisors, Reap(s)
      PROVE  ClaimInv'
  BY <1>0, <1>5 DEF Reap, Kill, Goto, Leave, ClaimInv, Known, TypeOK
<1>6. ASSUME NEW s \in Supervisors, Attach(s) \/ Cleared(s) \/ Heartbeat(s) \/ GiveUp(s)
      PROVE  ClaimInv'
  BY <1>0, <1>6 DEF Attach, Cleared, Heartbeat, GiveUp, Goto, files, ClaimInv, Known, TypeOK
<1>7. ASSUME NEW s \in Supervisors, Launch(s)
      PROVE  ClaimInv'
  BY <1>0, <1>7 DEF Launch, Goto, Leave, ClaimInv, Known, TypeOK
<1>8. ASSUME NEW s \in Supervisors, WriteIdentity(s)
      PROVE  ClaimInv'
  BY <1>0, <1>8 DEF WriteIdentity, Goto, Leave, ClaimInv, Known, TypeOK
<1>9. ASSUME NEW s \in Supervisors, Stop(s)
      PROVE  ClaimInv'
  BY <1>0, <1>9 DEF Stop, Kill, Goto, Leave, ClaimInv, Known, TypeOK
<1>10. ASSUME NEW s \in Supervisors, Collect(s)
       PROVE  ClaimInv'
  BY <1>0, <1>10 DEF Collect, Goto, Leave, ClaimInv, Known, TypeOK
<1>11. ASSUME NEW s \in Supervisors, Crash(s)
       PROVE  ClaimInv'
  BY <1>0, <1>11 DEF Crash, Goto, Leave, files, ClaimInv, Known, TypeOK
<1>12. ASSUME NEW w \in Workers, WorkerExits(w)
       PROVE  ClaimInv'
  BY <1>0, <1>12 DEF WorkerExits, ClaimInv, Known, TypeOK
<1>13. CASE RequestCancel
  BY <1>13 DEF RequestCancel, ClaimInv, Known
<1>14. CASE UNCHANGED vars
  BY <1>14 DEF vars, files, ClaimInv, Known
<1> QED
  BY <1>1, <1>2, <1>3, <1>4, <1>5, <1>6, <1>7, <1>8, <1>9, <1>10, <1>11, <1>12, <1>13, <1>14,
     NextCases

LEMMA ClaimSound == TypeInv /\ ClaimInv => OneWorker
<1> SUFFICES ASSUME TypeInv, ClaimInv
             PROVE  OneWorker
  OBVIOUS
<1>1. ASSUME NEW w \in Known
      PROVE  w = identity \/ (lock # None /\ w = mine[lock] /\ pc[lock] = "spawned")
  BY <1>1, NoneIsFresh DEF ClaimInv
<1>2. ASSUME NEW v \in Known, NEW w \in Known
      PROVE  v = w
  BY <1>1, <1>2 DEF ClaimInv, TypeInv, TypeOK
<1>3. Cardinality(Known) <= 1
  <2>1. CASE Known = {}
    BY <2>1, FS_EmptySet
  <2>2. CASE Known # {}
    <3>1. PICK w \in Known : TRUE
      BY <2>2
    <3>2. Known = {w}
      BY <1>2, <3>1
    <3> QED
      BY <3>2, FS_Singleton
  <2> QED
    BY <2>1, <2>2
<1> QED
  BY <1>1, <1>3 DEF OneWorker, Known

\* However supervisors are cut off and started again, no two workers that an
\* identity was or will be written for run at the same time.
THEOREM OneWorkerRuns == Spec => []OneWorker
BY TypeInit, TypeNext, ClaimInit, ClaimNext, ClaimSound, PTL DEF Spec

\* A result stays, and with it the candidate: nothing is launched after it.
THEOREM ResultStays == Spec => ResultFinal
<1>1. ASSUME TypeInv, ClaimInv, [Next]_vars
      PROVE  [result => result' /\ live' \subseteq live]_vars
  <2>1. ASSUME NEW s \in Supervisors, Launch(s)
        PROVE  ~result
    BY <1>1, <2>1 DEF Launch, ClaimInv
  <2>2. ASSUME NEW s \in Supervisors,
               \/ Enter(s) \/ ReturnResult(s) \/ NoIdentity(s) \/ FindLive(s)
               \/ FindDead(s) \/ Reap(s) \/ Cancelled(s) \/ Attach(s) \/ Cleared(s)
               \/ WriteIdentity(s) \/ Heartbeat(s) \/ GiveUp(s) \/ Stop(s)
               \/ Collect(s) \/ Crash(s)
        PROVE  result => result' /\ live' \subseteq live
    BY <2>2 DEF Enter, ReturnResult, NoIdentity, FindLive, FindDead, Reap, Cancelled, Attach, Cleared,
                WriteIdentity, Heartbeat, GiveUp, Stop, Collect, Crash, Kill, files
  <2>3. ASSUME \/ \E w \in Workers : WorkerExits(w)
               \/ RequestCancel
        PROVE  result => result' /\ live' \subseteq live
    BY <2>3 DEF WorkerExits, RequestCancel
  <2> QED
    BY <1>1, <2>1, <2>2, <2>3, NextCases
<1> QED
  BY TypeInit, TypeNext, ClaimInit, ClaimNext, <1>1, PTL DEF Spec, ResultFinal

-----------------------------------------------------------------------------
(***************************************************************************)
(* The fate of the candidate.                                              *)
(***************************************************************************)
TheFate == IF result THEN "recorded" ELSE IF Lost THEN "lost" ELSE "open"

LEMMA FateInit == Init => Fate!Init
BY NoneIsFresh DEF Init, Fate!Init, Lost

\* Nobody finds the way back from a lost candidate.
LEMMA LostStays == TypeInv /\ Lost /\ [Next]_vars => Lost'
<1> SUFFICES ASSUME TypeInv, Lost, [Next]_vars
             PROVE  Lost'
  OBVIOUS
<1> USE NoneIsFresh DEF TypeInv, TypeOK, Lost, Recoverable
<1>1. ASSUME NEW s \in Supervisors, Enter(s) \/ ReturnResult(s) \/ NoIdentity(s)
      PROVE  Lost'
  BY <1>1 DEF Enter, ReturnResult, NoIdentity, Goto, Leave, files
<1>2. ASSUME NEW s \in Supervisors, FindDead(s)
      PROVE  Lost'
  BY <1>2 DEF FindDead, Goto, Leave
<1>3. ASSUME NEW s \in Supervisors, Cancelled(s) \/ Crash(s)
      PROVE  Lost'
  BY <1>3 DEF Cancelled, Crash, Goto, Leave, files
<1>4. ASSUME NEW s \in Supervisors,
             \/ FindLive(s) \/ Reap(s) \/ Attach(s) \/ Cleared(s) \/ Launch(s) \/ WriteIdentity(s)
             \/ Heartbeat(s) \/ GiveUp(s) \/ Stop(s) \/ Collect(s)
      PROVE  FALSE
  BY <1>4 DEF FindLive, Reap, Attach, Cleared, Launch, WriteIdentity, Heartbeat, GiveUp, Stop, Collect
<1>5. ASSUME NEW w \in Workers, WorkerExits(w)
      PROVE  FALSE
  BY <1>5 DEF WorkerExits
<1>6. CASE RequestCancel
  BY <1>6 DEF RequestCancel
<1>7. CASE UNCHANGED vars
  BY <1>7 DEF vars, files
<1> QED
  BY <1>1, <1>2, <1>3, <1>4, <1>5, <1>6, <1>7, NextCases

LEMMA FateNext ==
    TypeInv /\ [Next]_vars /\ (result => result') => [Fate!Next]_TheFate
<1> SUFFICES ASSUME TypeInv, [Next]_vars, result => result'
             PROVE  Fate!Next \/ TheFate' = TheFate
  BY DEF TheFate
<1>1. CASE result
  BY <1>1 DEF TheFate
<1>2. CASE ~result /\ Lost
  <2>1. Lost' /\ ~result'
    BY <1>2, LostStays DEF Lost
  <2> QED
    BY <1>2, <2>1 DEF TheFate
<1>3. CASE ~result /\ ~Lost
  BY <1>3 DEF TheFate, Fate!Next, Fate!Settles
<1> QED
  BY <1>1, <1>2, <1>3

\* The supervisor, its files and its workers implement the abstract fate: a
\* candidate is settled once, recorded or lost, and stays so.
THEOREM FateRefined == Spec => FateSettledOnce
<1>1. [Next]_vars => (result => result')
  <2> SUFFICES ASSUME [Next]_vars, result
               PROVE  result'
    OBVIOUS
  <2> QED
    BY NextCases DEF vars, files, Enter, ReturnResult, NoIdentity, FindLive, FindDead, Reap,
       Cancelled, Attach, Cleared, Launch, WriteIdentity, Heartbeat, GiveUp, Stop, Collect, Crash,
       WorkerExits, RequestCancel
<1> QED
  BY TypeInit, TypeNext, ClaimInit, ClaimNext, FateInit, FateNext, <1>1, PTL
     DEF Spec, FateSettledOnce, Fate!Spec, TheFate

=============================================================================
