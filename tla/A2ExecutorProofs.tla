-------------------------- MODULE A2ExecutorProofs --------------------------
(***************************************************************************)
(* Proofs about A2Executor, for any executors, candidates, arms and        *)
(* admissions, and any number of starts.                                   *)
(***************************************************************************)
EXTENDS A2Executor, FiniteSetTheorems, TLAPS

\* The actions, one disjunct for each.
LEMMA NextCases ==
    ASSUME Next
    PROVE  \/ \E e \in Executors :
                \/ \E adm \in Admissions \cup {None} : Start(e, adm)
                \/ LoadLedger(e) \/ NoLedger(e) \/ WriteGenesis(e) \/ TakeLock(e)
                \/ \E c \in Candidates :
                     CallReturns(e, c) \/ Collect(e, c) \/ WriteReceipt(e, c)
                \/ AppendRow(e) \/ Unwind(e) \/ Pause(e)
                \/ MatchedComplete(e) \/ Decide(e) \/ Continue(e) \/ Evaluate(e)
                \/ Crash(e)
           \/ \E c \in Candidates : RemoteSettles(c)
BY DEF Next, ExecutorStep

\* What the definitions of the model say of the candidates' numbers.
LEMMA Numbers ==
    /\ Candidates \subseteq Nat \ {0}
    /\ \A c \in Candidates : \A d \in 1..c : d \in Candidates
    /\ Matched \subseteq Candidates /\ Reserves = Candidates \ Matched
    /\ \A c \in Reserves, d \in Matched : d < c
    /\ \A c \in Matched : \A d \in 1..c : d \in Matched
BY SizesOK DEF Candidates, Matched, Reserves, Total

-----------------------------------------------------------------------------
(***************************************************************************)
(* Types.                                                                  *)
(***************************************************************************)
TypeInv ==
    /\ TypeOK
    /\ \A e \in Executors : pc[e] \in {"decide", "continue"} => mem[e].adm # None

LEMMA BlankTyped == Blank \in Memory
BY DEF Blank, Memory

LEMMA DispatchTyped ==
    ASSUME NEW e \in Executors, NEW m \in Memory, Dispatch(e, m), TypeOK
    PROVE  /\ mem' \in [Executors -> Memory]
           /\ called' \in SUBSET Candidates
           /\ \E active \in SUBSET Candidates :
                mem' = [mem EXCEPT ![e] = [m EXCEPT !.active = active]]
<1> DEFINE active == m.active \cup Submittable(m)
<1>1. active \in SUBSET Candidates /\ Submittable(m) \in SUBSET Candidates
  <2>1. Pending(m) \in SUBSET Candidates
    BY Numbers DEF Pending, Stage
  <2> QED
    BY <2>1 DEF Submittable, Memory
<1>2. [m EXCEPT !.active = active] \in Memory
  BY <1>1 DEF Memory
<1>3. mem' = [mem EXCEPT ![e] = [m EXCEPT !.active = active]]
  BY DEF Dispatch, Memory
<1> QED
  BY <1>1, <1>2, <1>3 DEF Dispatch, TypeOK

\* The memory of an executor, changed in a field.
LEMMA MemTyped ==
    ASSUME TypeOK, NEW e \in Executors
    PROVE  /\ mem[e] \in Memory
           /\ \A n \in Nat, h \in Seq(Entry) :
                [mem[e] EXCEPT !.seq = n, !.previous = h] \in Memory
           /\ \A h \in Seq(Entry) :
                [mem[e] EXCEPT !.seq = @ + 1, !.previous = h] \in Memory
           /\ [mem[e] EXCEPT !.seq = @ + 1] \in Memory
           /\ [mem[e] EXCEPT !.stage = 2] \in Memory
           /\ \A c \in Candidates :
                /\ [mem[e] EXCEPT !.good = @ \cup {c}] \in Memory
                /\ [mem[e] EXCEPT !.bad = @ \cup {c}] \in Memory
                /\ [mem[e] EXCEPT !.active = @ \ {c}, !.bad = @ \ {c}] \in Memory
                /\ [mem[e] EXCEPT !.active = @ \ {c}, !.good = @ \ {c},
                                  !.results = @ \cup {c}] \in Memory
                /\ [mem[e] EXCEPT !.done = @ \cup {c}, !.results = @ \ {c}] \in Memory
                /\ [mem[e] EXCEPT !.results = @ \ {c}] \in Memory
<1>1. mem[e] \in Memory
  BY DEF TypeOK
<1>2. ASSUME NEW n \in Nat, NEW h \in Seq(Entry)
      PROVE  /\ [mem[e] EXCEPT !.seq = n, !.previous = h] \in Memory
             /\ [mem[e] EXCEPT !.seq = @ + 1, !.previous = h] \in Memory
  <2>1. ASSUME NEW k \in Nat
        PROVE  [mem[e] EXCEPT !.seq = k] \in Memory
    BY <1>1 DEF Memory
  <2>2. mem[e].seq + 1 \in Nat
    BY <1>1 DEF Memory
  <2>3. ASSUME NEW m \in Memory
        PROVE  [m EXCEPT !.previous = h] \in Memory
    BY DEF Memory
  <2>4. [[mem[e] EXCEPT !.seq = n] EXCEPT !.previous = h] \in Memory
    BY <2>1, <2>3
  <2>5. [[mem[e] EXCEPT !.seq = @ + 1] EXCEPT !.previous = h] \in Memory
    BY <2>1, <2>2, <2>3
  <2> QED
    BY <2>4, <2>5
<1>3. [mem[e] EXCEPT !.seq = @ + 1] \in Memory
  BY <1>1 DEF Memory
<1>4. [mem[e] EXCEPT !.stage = 2] \in Memory
  BY <1>1 DEF Memory
<1>5. ASSUME NEW c \in Candidates
      PROVE  /\ [mem[e] EXCEPT !.good = @ \cup {c}] \in Memory
             /\ [mem[e] EXCEPT !.bad = @ \cup {c}] \in Memory
  BY <1>1, <1>5 DEF Memory
<1>6. ASSUME NEW c \in Candidates
      PROVE  /\ [mem[e] EXCEPT !.active = @ \ {c}, !.bad = @ \ {c}] \in Memory
             /\ [mem[e] EXCEPT !.active = @ \ {c}, !.good = @ \ {c},
                               !.results = @ \cup {c}] \in Memory
  BY <1>1, <1>6 DEF Memory
<1>7. ASSUME NEW c \in Candidates
      PROVE  /\ [mem[e] EXCEPT !.done = @ \cup {c}, !.results = @ \ {c}] \in Memory
             /\ [mem[e] EXCEPT !.results = @ \ {c}] \in Memory
  BY <1>1, <1>7 DEF Memory
<1> QED
  BY <1>1, <1>2, <1>3, <1>4, <1>5, <1>6, <1>7

LEMMA RowTyped ==
    ASSUME NEW m \in Memory, NEW status \in {"RUNNING", "PAUSED"}
    PROVE  NewRow(m, status) \in Row
<1>1. IsFiniteSet(Candidates)
  BY SizesOK, FS_Interval DEF Candidates, Total
<1>2. IsFiniteSet(m.done)
  BY <1>1, FS_Subset DEF Memory
<1>3. Cardinality(m.done) \in Nat
  BY <1>2, FS_CardinalityType
<1> QED
  BY <1>3 DEF NewRow, Row, Memory

\* The hash of a row is a chain of entries.
LEMMA HashTyped ==
    ASSUME NEW row \in Row
    PROVE  Hash(row) \in Seq(Entry)
<1>1. [seq |-> row.seq, status |-> row.status, done |-> row.done] \in Entry
  BY DEF Row, Entry
<1>2. row.previous \in Seq(Entry)
  BY DEF Row
<1> QED
  BY <1>1, <1>2 DEF Hash

LEMMA FinishTyped ==
    ASSUME NEW e \in Executors, NEW how \in Ended, Finish(e, how), TypeOK
    PROVE  /\ pc' \in [Executors -> Locations]
           /\ mem' \in [Executors -> Memory]
           /\ lock' \in Executors \cup {None}
BY BlankTyped DEF Finish, Goto, TypeOK, Locations, Ended

LEMMA TypeInit == Init => TypeInv
BY BlankTyped DEF Init, TypeInv, TypeOK, ReceiptKinds, Locations, Ended

LEMMA TypeNext == TypeInv /\ [Next]_vars => TypeInv'
<1> SUFFICES ASSUME TypeInv, [Next]_vars
             PROVE  TypeInv'
  OBVIOUS
<1>0. TypeOK
  BY DEF TypeInv
<1> USE DEF durable, world
<1>1. ASSUME NEW e \in Executors, NEW adm \in Admissions \cup {None}, Start(e, adm)
      PROVE  TypeInv'
  <2>1. [Blank EXCEPT !.done = Recorded, !.adm = adm] \in Memory
    BY BlankTyped DEF Memory, Recorded, Blank
  <2> QED
    BY <1>0, <1>1, <2>1 DEF Start, Goto, TypeInv, TypeOK, Locations, Ended
<1>2. ASSUME NEW e \in Executors, LoadLedger(e)
      PROVE  TypeInv'
  <2> DEFINE last == ledger[Len(ledger)]
  <2>1. Len(ledger) \in Nat /\ last \in Row
    BY <1>0, <1>2 DEF TypeOK, LoadLedger
  <2>2. /\ Hash(last) \in Seq(Entry)
        /\ [mem[e] EXCEPT !.seq = Len(ledger), !.previous = Hash(last)] \in Memory
    BY <1>0, <2>1, MemTyped, HashTyped
  <2>3. CASE Resumable(mem[e])
    BY <1>0, <1>2, <2>2, <2>3 DEF LoadLedger, Goto, TypeInv, TypeOK, Locations, Ended
  <2>4. CASE ~Resumable(mem[e])
    BY <1>0, <1>2, <2>4, FinishTyped DEF LoadLedger, Finish, Goto, TypeInv, TypeOK, Ended
  <2> QED
    BY <2>3, <2>4
<1>3. ASSUME NEW e \in Executors, NoLedger(e)
      PROVE  TypeInv'
  BY <1>0, <1>3 DEF NoLedger, Goto, TypeInv, TypeOK, Locations, Ended
<1>4. ASSUME NEW e \in Executors, WriteGenesis(e)
      PROVE  TypeInv'
  <2>1. NewRow(mem[e], "RUNNING") \in Row
    BY <1>0, RowTyped DEF TypeOK
  <2>2. ledger' \in Seq(Row)
    BY <1>0, <1>4, <2>1 DEF WriteGenesis, TypeOK
  <2>3. [mem[e] EXCEPT !.seq = 1, !.previous = Hash(NewRow(mem[e], "RUNNING"))] \in Memory
    BY <1>0, <2>1, MemTyped, HashTyped
  <2> QED
    BY <1>0, <1>4, <2>2, <2>3 DEF WriteGenesis, Goto, TypeInv, TypeOK, Locations, Ended
<1>5. ASSUME NEW e \in Executors, TakeLock(e)
      PROVE  TypeInv'
  <2>1. CASE lock = None
    <3>1. Dispatch(e, mem[e]) /\ lock' = e /\ Goto(e, "run")
      BY <1>5, <2>1 DEF TakeLock
    <3>2. mem[e] \in Memory
      BY <1>0 DEF TypeOK
    <3> QED
      BY <1>0, <1>5, <3>1, <3>2, DispatchTyped DEF TakeLock, Goto, TypeInv, TypeOK, Locations, Ended
  <2>2. CASE lock # None
    <3>1. Finish(e, "raised")
      BY <1>5, <2>2 DEF TakeLock
    <3> QED
      BY <1>0, <1>5, <2>2, <3>1, FinishTyped DEF TakeLock, Finish, Goto, TypeInv, TypeOK, Ended
  <2> QED
    BY <2>1, <2>2
<1>6. ASSUME NEW e \in Executors, NEW c \in Candidates, CallReturns(e, c)
      PROVE  TypeInv'
  <2>1. mem' \in [Executors -> Memory]
    <3>1. CASE mem' = [mem EXCEPT ![e].good = @ \cup {c}]
      BY <1>0, <3>1, MemTyped DEF TypeOK
    <3>2. CASE mem' = [mem EXCEPT ![e].bad = @ \cup {c}]
      BY <1>0, <3>2, MemTyped DEF TypeOK
    <3> QED
      BY <1>6, <3>1, <3>2 DEF CallReturns
  <2>2. \A f \in Executors : mem'[f].adm = mem[f].adm
    <3>1. mem[e] \in Memory
      BY <1>0, MemTyped
    <3>2. CASE mem' = [mem EXCEPT ![e].good = @ \cup {c}]
      BY <1>0, <3>1, <3>2 DEF TypeOK, Memory
    <3>3. CASE mem' = [mem EXCEPT ![e].bad = @ \cup {c}]
      BY <1>0, <3>1, <3>3 DEF TypeOK, Memory
    <3> QED
      BY <1>6, <3>2, <3>3 DEF CallReturns
  <2> QED
    BY <1>0, <1>6, <2>1, <2>2 DEF CallReturns, TypeInv, TypeOK
<1>7. ASSUME NEW e \in Executors, NEW c \in Candidates, Collect(e, c)
      PROVE  TypeInv'
  <2> DEFINE m == [mem[e] EXCEPT !.active = @ \ {c}, !.good = @ \ {c}, !.results = @ \cup {c}]
  <2>1. mem[e] \in Memory
    BY <1>0 DEF TypeOK
  <2>2. m \in Memory /\ [mem[e] EXCEPT !.active = @ \ {c}, !.bad = @ \ {c}] \in Memory
    BY <1>0, MemTyped
  <2>3. CASE Dispatch(e, m) /\ UNCHANGED pc
    <3> HIDE DEF m
    <3>1. pc[e] = "run"
      BY <1>7 DEF Collect
    <3> QED
      BY <1>0, <1>7, <2>2, <2>3, <3>1, DispatchTyped DEF Collect, TypeInv, TypeOK
  <2>4. CASE /\ mem' = [mem EXCEPT ![e].active = @ \ {c}, ![e].bad = @ \ {c}]
             /\ Goto(e, "unwind") /\ UNCHANGED called
    BY <1>0, <1>7, <2>1, <2>2, <2>4 DEF Collect, Goto, TypeInv, TypeOK, Locations, Ended
  <2> QED
    BY <1>7, <2>3, <2>4 DEF Collect
<1>8. ASSUME NEW e \in Executors, NEW c \in Candidates, WriteReceipt(e, c)
      PROVE  TypeInv'
  <2>1. mem[e] \in Memory
    BY <1>0 DEF TypeOK
  <2>2. /\ [mem[e] EXCEPT !.done = @ \cup {c}, !.results = @ \ {c}] \in Memory
        /\ [mem[e] EXCEPT !.results = @ \ {c}] \in Memory
    BY <1>0, MemTyped
  <2>3. Kind(c) \in ReceiptKinds
    BY DEF Kind, ReceiptKinds
  <2> QED
    BY <1>0, <1>8, <2>1, <2>2, <2>3
       DEF WriteReceipt, Goto, TypeInv, TypeOK, Locations, Ended
<1>9. ASSUME NEW e \in Executors, AppendRow(e)
      PROVE  TypeInv'
  <2>1. mem[e] \in Memory /\ NewRow(mem[e], "RUNNING") \in Row
    BY <1>0, RowTyped DEF TypeOK
  <2>2. /\ [mem[e] EXCEPT !.seq = @ + 1] \in Memory
        /\ [mem[e] EXCEPT !.seq = @ + 1, !.previous = Hash(NewRow(mem[e], "RUNNING"))] \in Memory
    BY <1>0, <2>1, MemTyped, HashTyped
  <2>3. ledger' \in Seq(Row)
    <3>1. CASE ledger' = Append(ledger, NewRow(mem[e], "RUNNING"))
      BY <1>0, <2>1, <3>1 DEF TypeOK
    <3>2. CASE UNCHANGED ledger
      BY <1>0, <3>2 DEF TypeOK
    <3> QED
      BY <1>9, <3>1, <3>2 DEF AppendRow
  <2> QED
    BY <1>0, <1>9, <2>1, <2>2, <2>3 DEF AppendRow, Goto, TypeInv, TypeOK, Locations, Ended
<1>10. ASSUME NEW e \in Executors, Unwind(e)
       PROVE  TypeInv'
  <2>1. \A c \in Candidates : fate'[c] \in {"open", "recorded", "lost"}
    BY <1>0, <1>10 DEF Unwind, TypeOK
  <2>2. CASE Goto(e, "pause") /\ UNCHANGED <<mem, lock>>
    BY <1>0, <1>10, <2>1, <2>2 DEF Unwind, Goto, TypeInv, TypeOK, Locations, Ended
  <2>3. CASE Finish(e, "raised")
    BY <1>0, <1>10, <2>1, <2>3, FinishTyped DEF Unwind, Finish, Goto, TypeInv, TypeOK, Ended
  <2> QED
    BY <1>10, <2>2, <2>3 DEF Unwind
<1>11. ASSUME NEW e \in Executors, Pause(e)
       PROVE  TypeInv'
  <2>1. NewRow(mem[e], "PAUSED") \in Row
    BY <1>0, RowTyped DEF TypeOK
  <2>2. ledger' \in Seq(Row)
    BY <1>0, <1>11, <2>1 DEF Pause, TypeOK
  <2>3. Finish(e, "raised")
    BY <1>11 DEF Pause
  <2> QED
    BY <1>0, <1>11, <2>2, <2>3, FinishTyped DEF Pause, Finish, Goto, TypeInv, TypeOK, Ended
<1>12. ASSUME NEW e \in Executors, MatchedComplete(e)
       PROVE  TypeInv'
  <2>1. CASE mem[e].adm = None
    BY <1>0, <1>12, <2>1, FinishTyped DEF MatchedComplete, Finish, Goto, TypeInv, TypeOK, Ended
  <2>2. CASE mem[e].adm # None
    BY <1>0, <1>12, <2>2 DEF MatchedComplete, Goto, TypeInv, TypeOK, Locations, Ended
  <2> QED
    BY <2>1, <2>2
<1>13. ASSUME NEW e \in Executors, Decide(e)
       PROVE  TypeInv'
  <2>1. PICK v \in Verdict :
          /\ verdict' = v
          /\ \/ /\ decision' = [adm |-> mem[e].adm, active |-> v.active]
                /\ Goto(e, "continue") /\ UNCHANGED <<mem, lock>>
             \/ Finish(e, "raised") /\ UNCHANGED decision
    BY <1>13 DEF Decide
  <2>2. mem[e].adm \in Admissions /\ v.active \in SUBSET ReserveArms
    BY <1>0, <1>13 DEF Decide, TypeInv, TypeOK, Memory, Verdict
  <2>3. CASE /\ decision' = [adm |-> mem[e].adm, active |-> v.active]
             /\ Goto(e, "continue") /\ UNCHANGED <<mem, lock>>
    <3>1. decision' \in Decision
      BY <2>2, <2>3 DEF Decision
    <3> QED
      BY <1>0, <1>13, <2>1, <2>3, <3>1 DEF Decide, Goto, TypeInv, TypeOK, Locations, Ended
  <2>4. CASE Finish(e, "raised") /\ UNCHANGED decision
    BY <1>0, <1>13, <2>1, <2>4, FinishTyped DEF Decide, Finish, Goto, TypeInv, TypeOK, Ended
  <2> QED
    BY <2>1, <2>3, <2>4
<1>14. ASSUME NEW e \in Executors, Continue(e)
       PROVE  TypeInv'
  <2> DEFINE m == [mem[e] EXCEPT !.stage = 2]
  <2>1. m \in Memory
    BY <1>0, MemTyped
  <2>2. CASE Goto(e, "run") /\ Dispatch(e, m) /\ UNCHANGED lock
    <3> HIDE DEF m
    <3> QED
      BY <1>0, <1>14, <2>1, <2>2, DispatchTyped
         DEF Continue, Goto, TypeInv, TypeOK, Locations, Ended
  <2>3. CASE Finish(e, "raised") /\ UNCHANGED called
    BY <1>0, <1>14, <2>3, FinishTyped DEF Continue, Finish, Goto, TypeInv, TypeOK, Ended
  <2> QED
    BY <1>14, <2>2, <2>3 DEF Continue
<1>15. ASSUME NEW e \in Executors, Evaluate(e)
       PROVE  TypeInv'
  <2>1. \E how \in Ended : Finish(e, how)
    BY <1>15 DEF Evaluate, Ended
  <2> QED
    BY <1>0, <1>15, <2>1, FinishTyped DEF Evaluate, Finish, Goto, TypeInv, TypeOK, Ended
<1>16. ASSUME NEW e \in Executors, Crash(e)
       PROVE  TypeInv'
  BY <1>0, <1>16, FinishTyped DEF Crash, Finish, Goto, TypeInv, TypeOK, Ended
<1>17. ASSUME NEW c \in Candidates, RemoteSettles(c)
       PROVE  TypeInv'
  BY <1>0, <1>17 DEF RemoteSettles, TypeInv, TypeOK
<1>18. CASE UNCHANGED vars
  BY <1>18 DEF vars, TypeInv, TypeOK
<1> QED
  BY <1>1, <1>2, <1>3, <1>4, <1>5, <1>6, <1>7, <1>8, <1>9, <1>10, <1>11, <1>12, <1>13, <1>14,
     <1>15, <1>16, <1>17, <1>18, NextCases

\* The receipts, the ledger, the decision and what each executor holds stay in
\* their types.
THEOREM TypeCorrect == Spec => []TypeOK
<1>1. TypeInv => TypeOK
  BY DEF TypeInv
<1> QED
  BY TypeInit, TypeNext, <1>1, PTL DEF Spec

-----------------------------------------------------------------------------
(***************************************************************************)
(* The receipts.  What an executor completed is recorded and has no gap,   *)
(* even if others recorded more since it read the receipts; the matched    *)
(* set is complete from the decision on, and the reserve stage has one.    *)
(***************************************************************************)
NoGap(S) == \A c \in S : \A d \in 1..c : d \in S

Held(m, where) ==
    /\ m.done \subseteq Recorded /\ NoGap(m.done)
    /\ m.stage = 2 \/ where \in {"decide", "continue"} => Matched \subseteq m.done
    /\ m.stage = 2 \/ where = "continue" => decision # None

CommitInv ==
    /\ TypeInv
    /\ CommitsInOrder
    /\ OneDecision
    /\ \A e \in Executors : Held(mem[e], pc[e])

\* A step of e that leaves receipts and decision alone keeps the invariant if
\* it keeps what e holds.
LEMMA StepOfOne ==
    ASSUME CommitInv, TypeInv', UNCHANGED <<receipts, decision>>,
           NEW e \in Executors, Held(mem'[e], pc'[e]),
           \A f \in Executors \ {e} : mem'[f] = mem[f] /\ pc'[f] = pc[f]
    PROVE  CommitInv'
<1>1. Recorded' = Recorded
  BY DEF Recorded
<1>2. CommitsInOrder' /\ OneDecision'
  BY <1>1 DEF CommitInv, CommitsInOrder, OneDecision
<1>3. \A f \in Executors : Held(mem[f], pc[f])'
  BY <1>1 DEF CommitInv, Held
<1> QED
  BY <1>2, <1>3 DEF CommitInv

\* One that ends holds nothing.
LEMMA FinishHeld ==
    ASSUME TypeOK, NEW e \in Executors, NEW how \in Ended, Finish(e, how)
    PROVE  /\ Held(mem'[e], pc'[e])
           /\ \A f \in Executors \ {e} : mem'[f] = mem[f] /\ pc'[f] = pc[f]
<1>1. mem'[e] = Blank /\ pc'[e] = how
  BY DEF Finish, Goto, TypeOK
<1>2. how \notin {"decide", "continue"} /\ Blank.done = {} /\ Blank.stage = 1
  BY DEF Ended, Blank
<1>3. Held(mem'[e], pc'[e])
  BY <1>1, <1>2 DEF Held, NoGap
<1> QED
  BY <1>3 DEF Finish, Goto, TypeOK

\* Setting arms to work changes nothing of what is held.
LEMMA DispatchHeld ==
    ASSUME TypeOK, NEW e \in Executors, NEW m \in Memory, Dispatch(e, m)
    PROVE  /\ mem'[e].done = m.done /\ mem'[e].stage = m.stage
           /\ \A f \in Executors \ {e} : mem'[f] = mem[f]
<1>1. PICK active \in SUBSET Candidates : mem' = [mem EXCEPT ![e] = [m EXCEPT !.active = active]]
  BY DispatchTyped
<1>2. mem'[e] = [m EXCEPT !.active = active] /\ \A f \in Executors \ {e} : mem'[f] = mem[f]
  BY <1>1 DEF TypeOK
<1> QED
  BY <1>2 DEF Memory

\* The candidate that may be committed is the next: no gap before it.
LEMMA NextLeavesNoGap ==
    ASSUME TypeOK, NEW e \in Executors, Held(mem[e], pc[e]),
           NEW c \in Candidates, MayCommit(mem[e], c)
    PROVE  NoGap(mem[e].done \cup {c})
<1>1. mem[e] \in Memory
  BY MemTyped
<1>2. ASSUME NEW d \in 1..c, d # c
      PROVE  d \in mem[e].done
  <2>1. d \in Candidates /\ d < c /\ c \in Nat /\ d \in Nat
    BY <1>2, Numbers
  <2>2. d \notin Pending(mem[e])
    BY <2>1 DEF MayCommit, IsNext
  <2>3. CASE mem[e].stage = 1
    BY <1>2, <2>1, <2>2, <2>3, Numbers DEF Pending, Stage, MayCommit, IsNext
  <2>4. CASE mem[e].stage = 2
    BY <2>1, <2>2, <2>4, Numbers DEF Pending, Stage, Held
  <2> QED
    BY <1>1, <2>3, <2>4 DEF Memory
<1> QED
  BY <1>2 DEF Held, NoGap

\* A receipt, once there, stays; the ledger only grows by rows of what an
\* executor completed; a decision is never changed.
LEMMA NothingIsUndone ==
    ASSUME TypeInv, [Next]_vars
    PROVE  /\ Recorded \subseteq Recorded'
           /\ \/ UNCHANGED ledger
              \/ \E e \in Executors, status \in {"RUNNING", "PAUSED"} :
                   ledger' = Append(ledger, NewRow(mem[e], status))
           /\ decision \in {None, decision'}
<1> USE DEF durable, world
<1>1. ASSUME NEW e \in Executors, NEW c \in Candidates, WriteReceipt(e, c)
      PROVE  Recorded \subseteq Recorded' /\ UNCHANGED <<ledger, decision>>
  BY <1>1 DEF WriteReceipt, Recorded, Kind, TypeInv, TypeOK
<1>2. ASSUME NEW e \in Executors, Decide(e)
      PROVE  UNCHANGED <<receipts, ledger>> /\ decision \in {None, decision'}
  BY <1>2 DEF Decide
<1>3. ASSUME NEW e \in Executors, WriteGenesis(e) \/ AppendRow(e) \/ Pause(e)
      PROVE  /\ UNCHANGED <<receipts, decision>>
             /\ \/ UNCHANGED ledger
                \/ \E status \in {"RUNNING", "PAUSED"} :
                     ledger' = Append(ledger, NewRow(mem[e], status))
  BY <1>3 DEF WriteGenesis, AppendRow, Pause
<1>4. ASSUME NEW e \in Executors,
             \/ \E adm \in Admissions \cup {None} : Start(e, adm)
             \/ LoadLedger(e) \/ NoLedger(e) \/ TakeLock(e)
             \/ \E c \in Candidates : CallReturns(e, c) \/ Collect(e, c)
             \/ Unwind(e) \/ MatchedComplete(e) \/ Continue(e) \/ Evaluate(e)
             \/ Crash(e)
      PROVE  UNCHANGED <<receipts, ledger, decision>>
  BY <1>4 DEF Start, LoadLedger, NoLedger, TakeLock, CallReturns, Collect, Unwind,
              MatchedComplete, Continue, Evaluate, Crash
<1>5. ASSUME NEW c \in Candidates, RemoteSettles(c)
      PROVE  UNCHANGED <<receipts, ledger, decision>>
  BY <1>5 DEF RemoteSettles
<1>6. UNCHANGED receipts => Recorded = Recorded'
  BY DEF Recorded
<1>7. CASE Next
  BY <1>1, <1>2, <1>3, <1>4, <1>5, <1>6, <1>7, NextCases
<1>8. CASE UNCHANGED vars
  BY <1>6, <1>8 DEF vars
<1> QED
  BY <1>7, <1>8

LEMMA CommitInit == Init => CommitInv
<1> SUFFICES ASSUME Init
             PROVE  CommitInv
  OBVIOUS
<1>1. TypeInv
  BY TypeInit
<1>2. Recorded = {} /\ decision = None
  BY DEF Init, Recorded
<1>3. CommitsInOrder /\ OneDecision
  BY <1>2 DEF CommitsInOrder, OneDecision
<1>4. \A e \in Executors : mem[e].done = {} /\ mem[e].stage = 1 /\ pc[e] = "idle"
  BY DEF Init, Blank
<1>5. \A e \in Executors : Held(mem[e], pc[e])
  BY <1>4 DEF Held, NoGap
<1> QED
  BY <1>1, <1>3, <1>5 DEF CommitInv

LEMMA CommitNext == CommitInv /\ [Next]_vars => CommitInv'
<1> SUFFICES ASSUME CommitInv, [Next]_vars
             PROVE  CommitInv'
  OBVIOUS
<1>0. TypeOK /\ TypeInv' /\ \A e \in Executors : Held(mem[e], pc[e]) /\ mem[e] \in Memory
  BY TypeNext, MemTyped DEF CommitInv, TypeInv
<1> USE DEF durable, world
<1>1. ASSUME NEW e \in Executors, NEW how \in Ended, Finish(e, how), UNCHANGED <<receipts, decision>>
      PROVE  CommitInv'
  BY <1>0, <1>1, FinishHeld, StepOfOne
<1>2. ASSUME NEW e \in Executors, UNCHANGED <<receipts, decision>>,
             mem'[e].done = mem[e].done, mem'[e].stage = mem[e].stage,
             pc'[e] \in {"decide", "continue"} => pc'[e] = pc[e],
             \A f \in Executors \ {e} : mem'[f] = mem[f] /\ pc'[f] = pc[f]
      PROVE  CommitInv'
  <2>1. Held(mem'[e], pc'[e])
    BY <1>0, <1>2 DEF Held, NoGap
  <2> QED
    BY <1>0, <1>2, <2>1, StepOfOne
<1>3. ASSUME NEW e \in Executors, NEW adm \in Admissions \cup {None}, Start(e, adm)
      PROVE  CommitInv'
  <2> DEFINE m == [Blank EXCEPT !.done = Recorded, !.adm = adm]
  <2>1. m.done = Recorded /\ m.stage = 1
    BY DEF Blank
  <2>2. mem'[e] = m /\ pc'[e] = "ledger"
    BY <1>0, <1>3 DEF Start, Goto, TypeOK
  <2>3. NoGap(Recorded)
    BY DEF CommitInv, CommitsInOrder, NoGap
  <2> HIDE DEF m
  <2>4. Held(m, "ledger")
    BY <2>1, <2>3 DEF Held
  <2>5. \A f \in Executors \ {e} : mem'[f] = mem[f] /\ pc'[f] = pc[f]
    BY <1>0, <1>3 DEF Start, Goto, TypeOK
  <2> QED
    BY <1>0, <1>3, <2>2, <2>4, <2>5, StepOfOne DEF Start
<1>4. ASSUME NEW e \in Executors, LoadLedger(e)
      PROVE  CommitInv'
  <2>1. CASE Resumable(mem[e])
    <3>1. /\ mem' = [mem EXCEPT ![e].seq = Len(ledger),
                               ![e].previous = Hash(ledger[Len(ledger)])]
          /\ Goto(e, "lock") /\ UNCHANGED <<receipts, decision>>
      BY <1>4, <2>1 DEF LoadLedger
    <3>2. /\ mem'[e].done = mem[e].done /\ mem'[e].stage = mem[e].stage
          /\ \A f \in Executors \ {e} : mem'[f] = mem[f]
      BY <1>0, <3>1 DEF TypeOK, Memory
    <3> QED
      BY <1>0, <1>2, <3>1, <3>2 DEF Goto, TypeOK
  <2>2. CASE ~Resumable(mem[e])
    BY <1>1, <1>4, <2>2 DEF LoadLedger, Ended
  <2> QED
    BY <2>1, <2>2
<1>5. ASSUME NEW e \in Executors, NoLedger(e) \/ WriteGenesis(e)
      PROVE  CommitInv'
  <2>1. CASE NoLedger(e)
    BY <1>0, <1>2, <2>1 DEF NoLedger, Goto, TypeOK
  <2>2. CASE WriteGenesis(e)
    BY <1>0, <1>2, <2>2 DEF WriteGenesis, Goto, TypeOK, Memory
  <2> QED
    BY <1>5, <2>1, <2>2
<1>6. ASSUME NEW e \in Executors, TakeLock(e)
      PROVE  CommitInv'
  <2>1. CASE lock = None
    <3>1. Dispatch(e, mem[e]) /\ Goto(e, "run") /\ UNCHANGED <<receipts, decision>>
      BY <1>6, <2>1 DEF TakeLock
    <3>2. /\ mem'[e].done = mem[e].done /\ mem'[e].stage = mem[e].stage
          /\ \A f \in Executors \ {e} : mem'[f] = mem[f]
      BY <1>0, <3>1, DispatchHeld
    <3> QED
      BY <1>0, <1>2, <3>1, <3>2 DEF Goto, TypeOK
  <2>2. CASE lock # None
    BY <1>1, <1>6, <2>2 DEF TakeLock, Ended
  <2> QED
    BY <2>1, <2>2
<1>7. ASSUME NEW e \in Executors, NEW c \in Candidates, CallReturns(e, c)
      PROVE  CommitInv'
  <2>1. CASE mem' = [mem EXCEPT ![e].good = @ \cup {c}]
    BY <1>0, <1>2, <1>7, <2>1 DEF CallReturns, TypeOK, Memory
  <2>2. CASE mem' = [mem EXCEPT ![e].bad = @ \cup {c}]
    BY <1>0, <1>2, <1>7, <2>2 DEF CallReturns, TypeOK, Memory
  <2> QED
    BY <1>7, <2>1, <2>2 DEF CallReturns
<1>8. ASSUME NEW e \in Executors, NEW c \in Candidates, Collect(e, c)
      PROVE  CommitInv'
  <2> DEFINE m == [mem[e] EXCEPT !.active = @ \ {c}, !.good = @ \ {c}, !.results = @ \cup {c}]
  <2>1. CASE Dispatch(e, m) /\ UNCHANGED pc
    <3>1. m \in Memory
      BY <1>0, MemTyped
    <3>2. m.done = mem[e].done /\ m.stage = mem[e].stage
      BY <1>0 DEF Memory
    <3> HIDE DEF m
    <3>3. /\ mem'[e].done = mem[e].done /\ mem'[e].stage = mem[e].stage
          /\ \A f \in Executors \ {e} : mem'[f] = mem[f]
      BY <1>0, <2>1, <3>1, <3>2, DispatchHeld
    <3> QED
      BY <1>2, <1>8, <2>1, <3>3 DEF Collect
  <2>2. CASE /\ mem' = [mem EXCEPT ![e].active = @ \ {c}, ![e].bad = @ \ {c}]
             /\ Goto(e, "unwind")
    BY <1>0, <1>2, <1>8, <2>2 DEF Collect, Goto, TypeOK, Memory
  <2> QED
    BY <1>8, <2>1, <2>2 DEF Collect
<1>9. ASSUME NEW e \in Executors, NEW c \in Candidates, WriteReceipt(e, c)
      PROVE  CommitInv'
  <2>1. CASE UNCHANGED receipts /\ mem' = [mem EXCEPT ![e].results = @ \ {c}] /\ Goto(e, "unwind")
    BY <1>0, <1>2, <1>9, <2>1 DEF WriteReceipt, Goto, TypeOK, Memory
  <2>2. CASE /\ receipts[c] \in {"none", Kind(c)}
             /\ receipts' = [receipts EXCEPT ![c] = Kind(c)]
             /\ mem' = [mem EXCEPT ![e].done = @ \cup {c}, ![e].results = @ \ {c}]
             /\ Goto(e, "row")
    <3>1. MayCommit(mem[e], c) /\ UNCHANGED decision
      BY <1>9 DEF WriteReceipt
    <3>2. Recorded' = Recorded \cup {c} /\ receipts'[c] = Kind(c)
      BY <1>0, <2>2 DEF Recorded, TypeOK, Kind
    <3>3. NoGap(mem[e].done \cup {c}) /\ mem[e].done \subseteq Recorded
      BY <1>0, <3>1, NextLeavesNoGap DEF Held
    <3>4. CommitsInOrder'
      BY <3>2, <3>3 DEF CommitInv, CommitsInOrder, NoGap
    <3>5. decision # None => Matched \subseteq Recorded'
      BY <3>2 DEF CommitInv, OneDecision
    <3>6. c \in Reserves => /\ decision # None
                            /\ Kind(c) = "measured" <=> ArmOf[c] \in decision.active
      <4>1. c \in Reserves => mem[e].stage = 2
        BY <1>0, <3>1 DEF MayCommit, IsNext, Pending, Stage, Memory, Reserves
      <4> QED
        BY <1>0, <4>1 DEF Held, Kind, Activated
    <3>7. \A d \in Candidates \ {c} : receipts'[d] = receipts[d]
      BY <1>0, <2>2 DEF TypeOK
    <3>8. OneDecision'
      BY <3>1, <3>2, <3>5, <3>6, <3>7 DEF CommitInv, OneDecision, Recorded
    <3>9. /\ mem'[e].done = mem[e].done \cup {c} /\ mem'[e].stage = mem[e].stage
          /\ pc'[e] = "row"
          /\ \A f \in Executors \ {e} : mem'[f] = mem[f] /\ pc'[f] = pc[f]
      BY <1>0, <2>2 DEF Goto, TypeOK, Memory
    <3>10. ASSUME NEW f \in Executors
           PROVE  Held(mem[f], pc[f])'
      <4>1. CASE f = e
        BY <1>0, <3>1, <3>2, <3>3, <3>9, <4>1 DEF Held
      <4>2. CASE f # e
        BY <1>0, <3>1, <3>2, <3>9, <4>2 DEF Held
      <4> QED
        BY <4>1, <4>2
    <3> QED
      BY <1>0, <3>4, <3>8, <3>10 DEF CommitInv
  <2> QED
    BY <1>9, <2>1, <2>2 DEF WriteReceipt
<1>10. ASSUME NEW e \in Executors, AppendRow(e)
       PROVE  CommitInv'
  <2> DEFINE row == NewRow(mem[e], "RUNNING")
  <2>1. /\ UNCHANGED <<receipts, decision>>
        /\ Goto(e, "run") \/ Goto(e, "unwind")
        /\ \/ mem' = [mem EXCEPT ![e].seq = @ + 1, ![e].previous = Hash(row)]
           \/ mem' = [mem EXCEPT ![e].seq = @ + 1]
    BY <1>10 DEF AppendRow
  <2>2. /\ mem'[e].done = mem[e].done /\ mem'[e].stage = mem[e].stage
        /\ \A f \in Executors \ {e} : mem'[f] = mem[f]
    <3> HIDE DEF row
    <3> QED
      BY <1>0, <2>1 DEF TypeOK, Memory
  <2> QED
    BY <1>0, <1>2, <2>1, <2>2 DEF Goto, TypeOK
<1>11. ASSUME NEW e \in Executors, Unwind(e)
       PROVE  CommitInv'
  <2>1. CASE Goto(e, "pause") /\ UNCHANGED <<mem, lock>>
    BY <1>0, <1>2, <1>11, <2>1 DEF Unwind, Goto, TypeOK
  <2>2. CASE Finish(e, "raised")
    BY <1>1, <1>11, <2>2 DEF Unwind, Ended
  <2> QED
    BY <1>11, <2>1, <2>2 DEF Unwind
<1>12. ASSUME NEW e \in Executors, Pause(e)
       PROVE  CommitInv'
  BY <1>1, <1>12 DEF Pause, Ended
<1>13. ASSUME NEW e \in Executors, MatchedComplete(e)
       PROVE  CommitInv'
  <2>1. CASE mem[e].adm = None
    BY <1>1, <1>13, <2>1 DEF MatchedComplete, Ended
  <2>2. CASE mem[e].adm # None
    <3>1. Goto(e, "decide") /\ UNCHANGED <<receipts, decision, mem>> /\ mem[e].stage = 1
      BY <1>13, <2>2 DEF MatchedComplete
    <3>2. Matched \subseteq mem[e].done
      BY <1>13, <3>1 DEF MatchedComplete, Pending, Stage
    <3>3. Held(mem'[e], pc'[e])
      BY <1>0, <3>1, <3>2 DEF Held, Goto, TypeOK
    <3> QED
      BY <1>0, <3>1, <3>3, StepOfOne DEF Goto, TypeOK
  <2> QED
    BY <2>1, <2>2
<1>14. ASSUME NEW e \in Executors, Decide(e)
       PROVE  CommitInv'
  <2>1. CASE Finish(e, "raised") /\ UNCHANGED decision
    BY <1>1, <1>14, <2>1 DEF Decide, Ended
  <2>2. CASE /\ decision' \in Decision /\ decision \in {None, decision'}
             /\ Goto(e, "continue") /\ UNCHANGED <<receipts, mem>>
    <3>1. decision' # None
      BY <2>2, NoneIsFresh
    <3>2. pc[e] = "decide" /\ Matched \subseteq mem[e].done /\ mem[e].done \subseteq Recorded
      BY <1>0, <1>14 DEF Decide, Held
    <3>3. Recorded' = Recorded
      BY <2>2 DEF Recorded
    <3>4. CommitsInOrder'
      BY <3>3 DEF CommitInv, CommitsInOrder
    <3>5. OneDecision'
      BY <2>2, <3>1, <3>2, <3>3 DEF CommitInv, OneDecision
    <3>6. /\ pc'[e] = "continue"
          /\ \A f \in Executors \ {e} : pc'[f] = pc[f]
      BY <1>0, <2>2 DEF Goto, TypeOK
    <3>7. ASSUME NEW f \in Executors
          PROVE  Held(mem[f], pc[f])'
      <4>1. CASE f = e
        BY <1>0, <2>2, <3>1, <3>2, <3>3, <4>1 DEF Held
      <4>2. CASE f # e
        BY <1>0, <2>2, <3>1, <3>3, <3>6, <4>2 DEF Held
      <4> QED
        BY <4>1, <4>2
    <3> QED
      BY <1>0, <3>4, <3>5, <3>7 DEF CommitInv
  <2>3. \/ Finish(e, "raised") /\ UNCHANGED decision
        \/ /\ decision' \in Decision /\ decision \in {None, decision'}
           /\ Goto(e, "continue") /\ UNCHANGED <<receipts, mem>>
    <3>1. mem[e].adm \in Admissions
      BY <1>0, <1>14 DEF Decide, CommitInv, TypeInv, Memory
    <3> QED
      BY <1>14, <3>1 DEF Decide, Decision, Verdict
  <2> QED
    BY <2>1, <2>2, <2>3
<1>15. ASSUME NEW e \in Executors, Continue(e)
       PROVE  CommitInv'
  <2> DEFINE m == [mem[e] EXCEPT !.stage = 2]
  <2>1. CASE Goto(e, "run") /\ Dispatch(e, m)
    <3>1. m \in Memory
      BY <1>0, MemTyped
    <3>2. m.done = mem[e].done /\ m.stage = 2
      BY <1>0 DEF Memory
    <3> HIDE DEF m
    <3>3. /\ mem'[e].done = mem[e].done /\ mem'[e].stage = 2
          /\ \A f \in Executors \ {e} : mem'[f] = mem[f]
      BY <1>0, <2>1, <3>1, <3>2, DispatchHeld
    <3>4. pc[e] = "continue" /\ UNCHANGED <<receipts, decision>>
      BY <1>15 DEF Continue
    <3>5. Held(mem'[e], pc'[e])
      BY <1>0, <3>3, <3>4 DEF Held
    <3>6. \A f \in Executors \ {e} : pc'[f] = pc[f]
      BY <1>0, <2>1 DEF Goto, TypeOK
    <3> QED
      BY <1>0, <3>3, <3>4, <3>5, <3>6, StepOfOne
  <2>2. CASE Finish(e, "raised")
    BY <1>1, <1>15, <2>2 DEF Continue, Ended
  <2> QED
    BY <1>15, <2>1, <2>2 DEF Continue
<1>16. ASSUME NEW e \in Executors, Evaluate(e) \/ Crash(e)
       PROVE  CommitInv'
  BY <1>1, <1>16 DEF Evaluate, Crash, Ended
<1>17. ASSUME UNCHANGED <<receipts, decision, mem, pc>>
       PROVE  CommitInv'
  <2>1. Recorded' = Recorded
    BY <1>17 DEF Recorded
  <2> QED
    BY <1>0, <1>17, <2>1 DEF CommitInv, CommitsInOrder, OneDecision, Held
<1>18. CASE Next
  <2>1. \A c \in Candidates : RemoteSettles(c) => CommitInv'
    BY <1>17 DEF RemoteSettles
  <2> QED
    BY <1>3, <1>4, <1>5, <1>6, <1>7, <1>8, <1>9, <1>10, <1>11, <1>12, <1>13, <1>14,
       <1>15, <1>16, <1>18, <2>1, NextCases
<1>19. CASE UNCHANGED vars
  BY <1>17, <1>19 DEF vars
<1> QED
  BY <1>18, <1>19

\* A row counts what its executor completed, all of it recorded.
LEMMA LedgerNext ==
    CommitInv /\ LedgerNeverAhead /\ [Next]_vars => LedgerNeverAhead'
<1> SUFFICES ASSUME CommitInv, LedgerNeverAhead, [Next]_vars
             PROVE  LedgerNeverAhead'
  OBVIOUS
<1>0. TypeInv /\ TypeOK /\ TypeOK'
  BY TypeNext DEF CommitInv, TypeInv
<1>1. /\ IsFiniteSet(Recorded') /\ Cardinality(Recorded) \in Nat /\ Cardinality(Recorded') \in Nat
      /\ Cardinality(Recorded) <= Cardinality(Recorded')
  <2>1. IsFiniteSet(Candidates)
    BY SizesOK, FS_Interval DEF Candidates, Total
  <2>2. IsFiniteSet(Recorded) /\ IsFiniteSet(Recorded')
    BY <2>1, FS_Subset DEF Recorded
  <2> QED
    BY <1>0, <2>2, NothingIsUndone, FS_Subset, FS_CardinalityType
<1>2. \A i \in DOMAIN ledger : ledger[i].done \in Nat
  <2>1. \A i \in DOMAIN ledger : ledger[i] \in Row
    BY <1>0 DEF TypeOK
  <2> QED
    BY <2>1 DEF Row
<1>3. CASE UNCHANGED ledger
  BY <1>1, <1>2, <1>3 DEF LedgerNeverAhead
<1>4. ASSUME NEW e \in Executors, NEW status \in {"RUNNING", "PAUSED"},
             ledger' = Append(ledger, NewRow(mem[e], status))
      PROVE  LedgerNeverAhead'
  <2>1. mem[e].done \subseteq Recorded'
    BY <1>0, NothingIsUndone DEF CommitInv, Held
  <2>2. Cardinality(mem[e].done) <= Cardinality(Recorded')
    BY <1>1, <2>1, FS_Subset
  <2> DEFINE row == NewRow(mem[e], status)
  <2>3. /\ row \in Row /\ row.done = Cardinality(mem[e].done)
        /\ ledger' = Append(ledger, row) /\ ledger \in Seq(Row)
    BY <1>0, <1>4, RowTyped, MemTyped DEF NewRow, TypeOK
  <2> HIDE DEF row
  <2>4. ASSUME NEW i \in DOMAIN ledger'
        PROVE  ledger'[i] = row \/ (i \in DOMAIN ledger /\ ledger'[i] = ledger[i])
    <3>1. /\ Len(ledger') = Len(ledger) + 1 /\ DOMAIN ledger' = 1..(Len(ledger) + 1)
          /\ DOMAIN ledger = 1..Len(ledger) /\ Len(ledger) \in Nat
      BY <2>3
    <3>2. /\ \A j \in 1..Len(ledger) : ledger'[j] = ledger[j]
          /\ ledger'[Len(ledger) + 1] = row
      BY <2>3, <3>1
    <3>3. i \in 1..(Len(ledger) + 1)
      BY <2>4, <3>1, Zenon
    <3>4. i \in 1..Len(ledger) \/ i = Len(ledger) + 1
      BY <3>1, <3>3
    <3> QED
      BY <3>1, <3>2, <3>4, Zenon
  <2> QED
    BY <1>1, <1>2, <2>2, <2>3, <2>4 DEF LedgerNeverAhead
<1> QED
  BY <1>0, <1>3, <1>4, NothingIsUndone

-----------------------------------------------------------------------------
(***************************************************************************)
(* The ledger keeps up: an executor that may write a receipt goes on from  *)
(* receipts that a row counts, its own or that of the executor it took     *)
(* them over from, however stale they are.                                 *)
(***************************************************************************)
Counts(n) == \E i \in DOMAIN ledger : n <= ledger[i].done

Counted(m, where) ==
    where \in {"lock", "run", "decide", "continue"} => Counts(Cardinality(m.done))

KeepInv ==
    /\ CommitInv
    /\ LedgerKeepsUp
    /\ \A e \in Executors : Counted(mem[e], pc[e])

\* A row that is appended is there, and those before it stay.
LEMMA AppendCounts ==
    ASSUME TypeOK, NEW row \in Row, ledger' = Append(ledger, row)
    PROVE  /\ \A n \in Nat : Counts(n) => Counts(n)'
           /\ \A n \in Nat : n <= row.done => Counts(n)'
<1>1. /\ Len(ledger) \in Nat /\ DOMAIN ledger = 1..Len(ledger)
      /\ DOMAIN ledger' = 1..(Len(ledger) + 1)
      /\ \A i \in 1..Len(ledger) : ledger'[i] = ledger[i]
      /\ ledger'[Len(ledger) + 1] = row
  BY DEF TypeOK
<1>2. \A n \in Nat : Counts(n) => Counts(n)'
  <2> SUFFICES ASSUME NEW n \in Nat, NEW i \in DOMAIN ledger, n <= ledger[i].done
               PROVE  \E j \in DOMAIN ledger' : n <= ledger'[j].done
    BY DEF Counts
  <2>1. i \in DOMAIN ledger' /\ ledger'[i] = ledger[i]
    BY <1>1
  <2> QED
    BY <2>1
<1>3. \A n \in Nat : n <= row.done => Counts(n)'
  <2>1. Len(ledger) + 1 \in DOMAIN ledger'
    BY <1>1
  <2> QED
    BY <1>1, <2>1 DEF Counts
<1> QED
  BY <1>2, <1>3

LEMMA CountsStay ==
    ASSUME TypeInv, [Next]_vars
    PROVE  \A n \in Nat : Counts(n) => Counts(n)'
<1>1. CASE UNCHANGED ledger
  BY <1>1 DEF Counts
<1>2. ASSUME NEW e \in Executors, NEW status \in {"RUNNING", "PAUSED"},
             ledger' = Append(ledger, NewRow(mem[e], status))
      PROVE  \A n \in Nat : Counts(n) => Counts(n)'
  <2>1. NewRow(mem[e], status) \in Row
    BY RowTyped, MemTyped DEF TypeInv
  <2> QED
    BY <1>2, <2>1, AppendCounts DEF TypeInv
<1> QED
  BY <1>1, <1>2, NothingIsUndone

LEMMA DoneIsCounted ==
    ASSUME NEW m \in Memory
    PROVE  IsFiniteSet(m.done) /\ Cardinality(m.done) \in Nat
<1>1. IsFiniteSet(Candidates)
  BY SizesOK, FS_Interval DEF Candidates, Total
<1>2. m.done \subseteq Candidates
  BY DEF Memory
<1> QED
  BY <1>1, <1>2, FS_Subset, FS_CardinalityType

\* The candidate that comes next: those before it are done, and counted.
LEMMA NextIsCounted ==
    ASSUME TypeOK, NEW e \in Executors, Held(mem[e], pc[e]),
           NEW c \in Candidates, MayCommit(mem[e], c)
    PROVE  c - 1 \in Nat /\ c - 1 <= Cardinality(mem[e].done)
<1>1. c \in Nat \ {0} /\ mem[e] \in Memory
  BY Numbers, MemTyped
<1>2. 1..(c - 1) \subseteq mem[e].done
  BY <1>1, NextLeavesNoGap DEF NoGap
<1>3. Cardinality(1..(c - 1)) = c - 1
  BY <1>1, FS_Interval
<1> QED
  BY <1>1, <1>2, <1>3, DoneIsCounted, FS_Subset

LEMMA KeepInit == Init => KeepInv
<1> SUFFICES ASSUME Init
             PROVE  KeepInv
  OBVIOUS
<1>1. Recorded = {} /\ \A e \in Executors : pc[e] = "idle"
  BY DEF Init, Recorded
<1> QED
  BY <1>1, CommitInit DEF KeepInv, LedgerKeepsUp, Counted

LEMMA KeepNext == KeepInv /\ [Next]_vars => KeepInv'
<1> SUFFICES ASSUME KeepInv, [Next]_vars
             PROVE  KeepInv'
  OBVIOUS
<1>0. /\ TypeInv /\ TypeOK /\ CommitInv /\ CommitInv'
      /\ \A e \in Executors : Held(mem[e], pc[e]) /\ mem[e] \in Memory
      /\ \A e \in Executors : Cardinality(mem[e].done) \in Nat
  BY CommitNext, MemTyped, DoneIsCounted DEF KeepInv, CommitInv, TypeInv
<1> USE DEF durable, world
<1> DEFINE Places == {"lock", "run", "decide", "continue"}
           Others(e) == \A f \in Executors \ {e} : mem'[f] = mem[f] /\ pc'[f] = pc[f]
           CountedNow(e) == \E i \in DOMAIN ledger' : Cardinality(mem[e].done) <= ledger'[i].done
\* An executor that keeps its receipts, or writes none, stays counted.
<1>1. ASSUME NEW e \in Executors,
             \/ pc'[e] \notin Places
             \/ mem'[e].done = mem[e].done /\ (pc[e] \in Places \/ CountedNow(e))
      PROVE  Counted(mem[e], pc[e])'
  <2>1. Counted(mem[e], pc[e])
    BY DEF KeepInv
  <2> QED
    BY <1>0, <1>1, <2>1, CountsStay DEF Counted, Counts
<1>2. ASSUME NEW e \in Executors, Others(e), UNCHANGED receipts,
             \/ pc'[e] \notin Places
             \/ mem'[e].done = mem[e].done /\ (pc[e] \in Places \/ CountedNow(e))
      PROVE  KeepInv'
  <2>1. \A f \in Executors : Counted(mem[f], pc[f])'
    <3>1. Counted(mem[e], pc[e])'
      BY <1>1, <1>2
    <3>2. ASSUME NEW f \in Executors \ {e}
          PROVE  Counted(mem[f], pc[f])'
      BY <1>1, <1>2, <3>2 DEF Counted
    <3> QED
      BY <3>1, <3>2
  <2>2. LedgerKeepsUp'
    <3>1. Recorded' = Recorded
      BY <1>2 DEF Recorded
    <3>2. \A c \in Recorded : c - 1 \in Nat
      BY Numbers DEF Recorded
    <3> QED
      BY <1>0, <3>1, <3>2, CountsStay DEF KeepInv, LedgerKeepsUp, Counts
  <2> QED
    BY <1>0, <2>1, <2>2 DEF KeepInv
<1>3. ASSUME NEW e \in Executors, NEW how \in Ended, Finish(e, how), UNCHANGED receipts
      PROVE  KeepInv'
  <2>1. pc'[e] = how /\ Others(e)
    BY <1>0, <1>3 DEF Finish, Goto, TypeOK
  <2>2. how \notin Places
    BY DEF Ended
  <2> HIDE DEF Others
  <2> QED
    BY <1>2, <1>3, <2>1, <2>2
<1>4. ASSUME NEW e \in Executors, UNCHANGED receipts,
             mem'[e].done = mem[e].done, \A f \in Executors \ {e} : mem'[f] = mem[f],
             UNCHANGED pc \/ \E where \in {"run", "row", "unwind", "pause", "decide", "continue"} :
                                Goto(e, where),
             pc[e] \in Places \/ pc'[e] \notin Places \/ CountedNow(e)
      PROVE  KeepInv'
  <2>1. Others(e)
    BY <1>0, <1>4 DEF Goto, TypeOK
  <2> HIDE DEF Others, CountedNow, Places
  <2> QED
    BY <1>2, <1>4, <2>1
\* The start.
<1>5. ASSUME NEW e \in Executors, NEW adm \in Admissions \cup {None}, Start(e, adm)
      PROVE  KeepInv'
  <2>1. UNCHANGED receipts /\ pc'[e] = "ledger" /\ Others(e)
    BY <1>0, <1>5 DEF Start, Goto, TypeOK
  <2> HIDE DEF Others
  <2> QED
    BY <1>2, <2>1
<1>6. ASSUME NEW e \in Executors, LoadLedger(e)
      PROVE  KeepInv'
  <2>1. CASE Resumable(mem[e])
    <3>1. /\ mem' = [mem EXCEPT ![e].seq = Len(ledger),
                               ![e].previous = Hash(ledger[Len(ledger)])]
          /\ Goto(e, "lock") /\ UNCHANGED <<receipts, ledger>> /\ ledger # <<>>
      BY <1>6, <2>1 DEF LoadLedger
    <3>2. mem'[e].done = mem[e].done
      BY <1>0, <3>1 DEF TypeOK, Memory
    <3>3. Others(e)
      BY <1>0, <3>1 DEF Goto, TypeOK
    <3>4. /\ ledger[Len(ledger)].done = Cardinality(mem[e].done)
          /\ Len(ledger) \in DOMAIN ledger
      BY <1>0, <2>1, <3>1 DEF Resumable, TypeOK
    <3>5. CountedNow(e)
      BY <1>0, <3>1, <3>4
    <3> HIDE DEF Others, CountedNow, Places
    <3> QED
      BY <1>2, <3>1, <3>2, <3>3, <3>5
  <2>2. CASE ~Resumable(mem[e])
    BY <1>3, <1>6, <2>2 DEF LoadLedger, Ended
  <2> QED
    BY <2>1, <2>2
<1>7. ASSUME NEW e \in Executors, NoLedger(e)
      PROVE  KeepInv'
  <2>1. UNCHANGED receipts /\ pc'[e] = "genesis" /\ Others(e)
    BY <1>0, <1>7 DEF NoLedger, Goto, TypeOK
  <2> HIDE DEF Others
  <2> QED
    BY <1>2, <2>1
<1>8. ASSUME NEW e \in Executors, ledger' = Append(ledger, NewRow(mem[e], "RUNNING"))
      PROVE  CountedNow(e)
  <2> DEFINE row == NewRow(mem[e], "RUNNING")
  <2>1. row \in Row /\ row.done = Cardinality(mem[e].done)
    BY <1>0, RowTyped DEF NewRow
  <2> HIDE DEF row
  <2> QED
    BY <1>0, <1>8, <2>1, AppendCounts DEF Counts, row
<1>9. ASSUME NEW e \in Executors, WriteGenesis(e)
      PROVE  KeepInv'
  <2> DEFINE row == NewRow(mem[e], "RUNNING")
  <2>1. /\ ledger' = Append(ledger, row) /\ UNCHANGED receipts /\ Goto(e, "lock")
        /\ mem' = [mem EXCEPT ![e].seq = 1, ![e].previous = Hash(row)]
    BY <1>9 DEF WriteGenesis
  <2>2. CountedNow(e)
    BY <1>8, <2>1
  <2>3. mem'[e].done = mem[e].done /\ Others(e)
    <3> HIDE DEF row
    <3> QED
      BY <1>0, <2>1 DEF Goto, TypeOK, Memory
  <2> HIDE DEF Others, CountedNow, Places, row
  <2> QED
    BY <1>2, <2>1, <2>2, <2>3
<1>10. ASSUME NEW e \in Executors, TakeLock(e)
       PROVE  KeepInv'
  <2>1. CASE lock = None
    <3>1. /\ Dispatch(e, mem[e]) /\ Goto(e, "run") /\ UNCHANGED receipts
          /\ pc[e] \in Places
      BY <1>10, <2>1 DEF TakeLock
    <3>2. /\ mem'[e].done = mem[e].done
          /\ \A f \in Executors \ {e} : mem'[f] = mem[f]
      BY <1>0, <3>1, DispatchHeld
    <3> HIDE DEF Places, CountedNow
    <3> QED
      BY <1>4, <3>1, <3>2
  <2>2. CASE lock # None
    BY <1>3, <1>10, <2>2 DEF TakeLock, Ended
  <2> QED
    BY <2>1, <2>2
\* The stage.
<1>11. ASSUME NEW e \in Executors, NEW c \in Candidates, CallReturns(e, c)
       PROVE  KeepInv'
  <2>1. UNCHANGED <<receipts, pc>>
    BY <1>11 DEF CallReturns
  <2>2. /\ mem'[e].done = mem[e].done
        /\ \A f \in Executors \ {e} : mem'[f] = mem[f]
    <3>1. CASE mem' = [mem EXCEPT ![e].good = @ \cup {c}]
      BY <1>0, <3>1 DEF TypeOK, Memory
    <3>2. CASE mem' = [mem EXCEPT ![e].bad = @ \cup {c}]
      BY <1>0, <3>2 DEF TypeOK, Memory
    <3> QED
      BY <1>11, <3>1, <3>2 DEF CallReturns
  <2>3. pc[e] \in Places \/ pc'[e] \notin Places
    BY <2>1
  <2> HIDE DEF Places, CountedNow
  <2> QED
    BY <1>4, <2>1, <2>2, <2>3
<1>12. ASSUME NEW e \in Executors, NEW c \in Candidates, Collect(e, c)
       PROVE  KeepInv'
  <2> DEFINE m == [mem[e] EXCEPT !.active = @ \ {c}, !.good = @ \ {c}, !.results = @ \cup {c}]
  <2>1. UNCHANGED receipts /\ pc[e] \in Places
    BY <1>12 DEF Collect
  <2>2. CASE Dispatch(e, m) /\ UNCHANGED pc
    <3>1. m \in Memory
      BY <1>0, MemTyped
    <3>2. m.done = mem[e].done
      BY <1>0 DEF Memory
    <3> HIDE DEF m, Places, CountedNow
    <3>3. mem'[e].done = mem[e].done /\ \A f \in Executors \ {e} : mem'[f] = mem[f]
      BY <1>0, <2>2, <3>1, <3>2, DispatchHeld
    <3> QED
      BY <1>4, <2>1, <2>2, <3>3
  <2>3. CASE /\ mem' = [mem EXCEPT ![e].active = @ \ {c}, ![e].bad = @ \ {c}]
             /\ Goto(e, "unwind")
    <3>1. mem'[e].done = mem[e].done /\ \A f \in Executors \ {e} : mem'[f] = mem[f]
      BY <1>0, <2>3 DEF TypeOK, Memory
    <3> HIDE DEF m, Places, CountedNow
    <3> QED
      BY <1>4, <2>1, <2>3, <3>1
  <2> QED
    BY <1>12, <2>2, <2>3 DEF Collect
<1>13. ASSUME NEW e \in Executors, NEW c \in Candidates, WriteReceipt(e, c)
       PROVE  KeepInv'
  <2>1. /\ MayCommit(mem[e], c) /\ UNCHANGED ledger /\ pc[e] = "run"
        /\ Recorded' \subseteq Recorded \cup {c}
    BY <1>0, <1>13 DEF WriteReceipt, Recorded, TypeOK
  <2>2. pc'[e] \notin Places /\ Others(e)
    BY <1>0, <1>13 DEF WriteReceipt, Goto, TypeOK
  <2>3. \A f \in Executors : Counted(mem[f], pc[f])'
    <3>1. Counted(mem[e], pc[e])'
      BY <1>1, <2>2
    <3>2. ASSUME NEW f \in Executors \ {e}
          PROVE  Counted(mem[f], pc[f])'
      BY <1>1, <2>2, <3>2 DEF Counted
    <3> QED
      BY <3>1, <3>2
  <2>4. \E i \in DOMAIN ledger : c - 1 <= ledger[i].done
    <3>1. PICK i \in DOMAIN ledger : Cardinality(mem[e].done) <= ledger[i].done
      BY <2>1 DEF KeepInv, Counted, Counts
    <3>2. ledger[i].done \in Nat
      <4>1. ledger[i] \in Row
        BY <1>0 DEF TypeOK
      <4> QED
        BY <4>1 DEF Row
    <3>3. c - 1 \in Nat /\ c - 1 <= Cardinality(mem[e].done)
      BY <1>0, <2>1, NextIsCounted
    <3>4. c - 1 <= ledger[i].done
      BY <1>0, <3>1, <3>2, <3>3
    <3> QED
      BY <3>4
  <2>5. LedgerKeepsUp'
    BY <2>1, <2>4 DEF KeepInv, LedgerKeepsUp
  <2> QED
    BY <1>0, <2>3, <2>5 DEF KeepInv
<1>14. ASSUME NEW e \in Executors, AppendRow(e)
       PROVE  KeepInv'
  <2> DEFINE row == NewRow(mem[e], "RUNNING")
  <2>1. /\ UNCHANGED receipts
        /\ \/ ledger' = Append(ledger, row) /\ Goto(e, "run")
           \/ Goto(e, "unwind")
        /\ \/ mem' = [mem EXCEPT ![e].seq = @ + 1, ![e].previous = Hash(row)]
           \/ mem' = [mem EXCEPT ![e].seq = @ + 1]
    BY <1>14 DEF AppendRow
  <2>2. mem'[e].done = mem[e].done /\ \A f \in Executors \ {e} : mem'[f] = mem[f]
    <3> HIDE DEF row
    <3> QED
      BY <1>0, <2>1 DEF TypeOK, Memory
  <2>3. CountedNow(e) \/ pc'[e] \notin Places
    BY <1>0, <1>8, <2>1 DEF Goto, TypeOK
  <2> HIDE DEF row, Places, CountedNow
  <2> QED
    BY <1>4, <2>1, <2>2, <2>3
<1>15. ASSUME NEW e \in Executors, Unwind(e)
       PROVE  KeepInv'
  <2>1. UNCHANGED receipts
    BY <1>15 DEF Unwind
  <2>2. CASE Goto(e, "pause") /\ UNCHANGED mem
    <3>1. pc'[e] \notin Places
      BY <1>0, <2>2 DEF Goto, TypeOK
    <3> HIDE DEF Places, CountedNow
    <3> QED
      BY <1>4, <2>1, <2>2, <3>1
  <2>3. CASE Finish(e, "raised")
    BY <1>3, <2>1, <2>3 DEF Ended
  <2> QED
    BY <1>15, <2>2, <2>3 DEF Unwind
<1>16. ASSUME NEW e \in Executors, Pause(e) \/ Evaluate(e) \/ Crash(e)
       PROVE  KeepInv'
  BY <1>3, <1>16 DEF Pause, Evaluate, Crash, Ended
\* Between the stages.
<1>17. ASSUME NEW e \in Executors, MatchedComplete(e) \/ Decide(e)
       PROVE  KeepInv'
  <2>1. UNCHANGED receipts /\ pc[e] \in Places
    BY <1>17 DEF MatchedComplete, Decide
  <2>2. \/ Finish(e, "matched") \/ Finish(e, "raised")
        \/ (Goto(e, "decide") \/ Goto(e, "continue")) /\ UNCHANGED mem
    BY <1>17 DEF MatchedComplete, Decide
  <2>3. CASE Finish(e, "matched") \/ Finish(e, "raised")
    BY <1>3, <2>1, <2>3 DEF Ended
  <2>4. CASE (Goto(e, "decide") \/ Goto(e, "continue")) /\ UNCHANGED mem
    <3> HIDE DEF Places, CountedNow
    <3> QED
      BY <1>4, <2>1, <2>4
  <2> QED
    BY <2>2, <2>3, <2>4
<1>18. ASSUME NEW e \in Executors, Continue(e)
       PROVE  KeepInv'
  <2> DEFINE m == [mem[e] EXCEPT !.stage = 2]
  <2>1. UNCHANGED receipts /\ pc[e] \in Places
    BY <1>18 DEF Continue
  <2>2. CASE Goto(e, "run") /\ Dispatch(e, m)
    <3>1. m \in Memory /\ m.done = mem[e].done
      <4>1. m \in Memory
        BY <1>0, MemTyped
      <4>2. m.done = mem[e].done
        BY <1>0 DEF Memory
      <4> QED
        BY <4>1, <4>2
    <3> HIDE DEF m, Places, CountedNow
    <3>2. mem'[e].done = mem[e].done /\ \A f \in Executors \ {e} : mem'[f] = mem[f]
      BY <1>0, <2>2, <3>1, DispatchHeld
    <3> QED
      BY <1>4, <2>1, <2>2, <3>2
  <2>3. CASE Finish(e, "raised")
    BY <1>3, <2>1, <2>3 DEF Ended
  <2> QED
    BY <1>18, <2>2, <2>3 DEF Continue
<1>19. ASSUME UNCHANGED <<receipts, ledger, mem, pc>>
       PROVE  KeepInv'
  <2>1. Recorded' = Recorded
    BY <1>19 DEF Recorded
  <2> QED
    BY <1>0, <1>19, <2>1 DEF KeepInv, LedgerKeepsUp, Counted, Counts
<1>20. CASE Next
  <2>1. \A c \in Candidates : RemoteSettles(c) => KeepInv'
    BY <1>19 DEF RemoteSettles
  <2> QED
    BY <1>5, <1>6, <1>7, <1>9, <1>10, <1>11, <1>12, <1>13, <1>14, <1>15, <1>16, <1>17,
       <1>18, <1>20, <2>1, NextCases
<1>21. CASE UNCHANGED vars
  BY <1>19, <1>21 DEF vars
<1> QED
  BY <1>20, <1>21

-----------------------------------------------------------------------------
\* Whatever order the pool finishes in, and whoever crashes, receipts are
\* written in frozen order with no gap.
THEOREM ReceiptsInOrder == Spec => []CommitsInOrder
<1>1. CommitInv => CommitsInOrder
  BY DEF CommitInv
<1> QED
  BY CommitInit, CommitNext, <1>1, PTL DEF Spec

\* Reserve receipts exist only under the one decision taken over the complete
\* matched set, and are of the kind it decided.
THEOREM DecisionHolds == Spec => []OneDecision
<1>1. CommitInv => OneDecision
  BY DEF CommitInv
<1> QED
  BY CommitInit, CommitNext, <1>1, PTL DEF Spec

\* A decision, once taken, is never replaced.
THEOREM DecisionIsFinal == Spec => [][decision # None => decision' = decision]_decision
<1>1. CommitInv /\ [Next]_vars => [decision # None => decision' = decision]_decision
  BY NothingIsUndone DEF CommitInv
<1> QED
  BY CommitInit, CommitNext, <1>1, PTL DEF Spec

\* At most one receipt is ever without a row that counts it, whoever crashes or
\* goes on from old receipts.
THEOREM LedgerCatchesUp == Spec => []LedgerKeepsUp
<1>1. KeepInv => LedgerKeepsUp
  BY DEF KeepInv
<1> QED
  BY KeepInit, KeepNext, <1>1, PTL DEF Spec

\* No row of the ledger counts a receipt that is not there.
THEOREM LedgerFollows == Spec => []LedgerNeverAhead
<1>1. Init => LedgerNeverAhead
  BY DEF Init, LedgerNeverAhead
<1> QED
  BY CommitInit, CommitNext, LedgerNext, <1>1, PTL DEF Spec

=============================================================================
