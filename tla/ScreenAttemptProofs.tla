------------------------- MODULE ScreenAttemptProofs -------------------------
(***************************************************************************)
(* Theorems about an A1.2 attempt, for any arms, cells, merged roots and   *)
(* numbers of starts and of runs of finalize.  What the screens keep true  *)
(* is in ArmScreenProofs; here it is carried through the collection, the   *)
(* merge and finalize.                                                     *)
(***************************************************************************)
EXTENDS ScreenAttempt, ArmScreenProofs

-----------------------------------------------------------------------------
(***************************************************************************)
(* The screens, in every step of an attempt.                               *)
(***************************************************************************)
LEMMA NothingSettles ==
    ASSUME ScreenInv, UNCHANGED <<art, failure>>
    PROVE  Settled
BY FailedIsNotWhole DEF Settled

LEMMA ScreenStays ==
    ASSUME ScreenInv, UNCHANGED screenVars
    PROVE  ScreenInv' /\ Settled
<1>1. ScreenInv'
  BY DEF screenVars, ScreenInv, Shape, ArmInv, AtCell, GoneThrough, Passed, Files, Receipt, Full,
         Empty, Whole
<1> QED
  BY <1>1, NothingSettles DEF screenVars

LEMMA LaunchFailsKeeps ==
    ASSUME ScreenInv, LaunchFails
    PROVE  ScreenInv' /\ Settled
<1>1. PICK killed \in SUBSET {a \in RemoteArms : pc[a] \notin Ended} :
        pc' = [a \in Arms |-> IF a \in killed THEN "lost" ELSE pc[a]]
  BY DEF LaunchFails
<1>2. UNCHANGED <<art, failure, screen, at, held, starts>>
  BY DEF LaunchFails
<1>3. Shape /\ Shape'
  BY <1>1, <1>2 DEF ScreenInv, Shape, Locations, Ended
<1>4. ASSUME NEW a \in Arms
      PROVE  ArmInv(a)'
  <2>1. ArmInv(a) /\ at[a] \in Cells
    BY <1>3 DEF ScreenInv, Shape
  <2>2. CASE a \in killed
    <3>1. pc'[a] = "lost"
      BY <1>1, <2>2
    <3> QED
      BY <1>2, <2>1, <3>1 DEF ArmInv, AtCell, GoneThrough, Passed, Files, Receipt, Full, Empty,
                              Whole, Busy
  <2>3. CASE a \notin killed
    <3>1. pc'[a] = pc[a]
      BY <1>1, <2>3
    <3> QED
      BY <1>2, <2>1, <3>1 DEF ArmInv, AtCell, GoneThrough, Passed, Files, Receipt, Full, Empty,
                              Whole, Busy
  <2> QED
    BY <2>2, <2>3
<1> QED
  BY <1>2, <1>3, <1>4, NothingSettles DEF ScreenInv

\* Every step keeps what is true of the screens and settles cells only once.
LEMMA ScreensKeep ==
    ASSUME ScreenInv, [Next]_vars
    PROVE  ScreenInv' /\ Settled
<1>1. CASE Screens
  BY <1>1, RunnerKeeps, LocalArmOK DEF Screens
<1>2. CASE LaunchFails
  BY <1>2, LaunchFailsKeeps
<1>3. CASE \E a \in RemoteArms : LaunchArm(a)
  BY <1>3, RunnerKeeps DEF LaunchArm, RemoteArms
<1>4. CASE StageRemote \/ \E a \in RemoteArms : Collect(a)
  BY <1>4, ScreenStays DEF StageRemote, Collect
<1>5. CASE Finalize
  <2>1. UNCHANGED screenVars
    BY <1>5 DEF Finalize, MakeAttempt, WriteIdentity, WriteState, Merge, BeginCopy, EndCopy,
       Record, Complete, Teardown, BuildArchive, Return, FinalizeLost, StartFinalize
  <2> QED
    BY <2>1, ScreenStays
<1>6. CASE UNCHANGED vars
  BY <1>6, ScreenStays DEF vars
<1> QED
  BY <1>1, <1>2, <1>3, <1>4, <1>5, <1>6 DEF Next

LEMMA InitScreens == Init => ScreenInv
BY ScreenStarts DEF Init

\* A rerun never meets a file that it can neither validate nor replace.
THEOREM RerunsGoOn == Spec => []NoConflict
<1>1. ScreenInv => NoConflict
  BY DEF ScreenInv, ArmInv, NoConflict
<1> QED
  BY InitScreens, ScreensKeep, <1>1, PTL DEF Spec

\* A screen receipt is about the files that are there, which are whole.
THEOREM ReceiptsAreTrue == Spec => []ScreenIsTrue
<1>1. ScreenInv => ScreenIsTrue
  BY DEF ScreenInv, ArmInv, Receipt, ScreenIsTrue
<1> QED
  BY InitScreens, ScreensKeep, <1>1, PTL DEF Spec

\* Each cell implements the abstract fate: recorded or lost, once.
THEOREM CellsSettleOnce == Spec => CellSettledOnce
<1>1. Init => \A c \in Cells : CellFate(c)!Init
  BY RoleFacts DEF Init, ScreenInit, NoFiles, Whole, CellFate!Init
<1>2. ScreenInv /\ [Next]_vars => [\A c \in Cells : CellFate(c)!Step]_screenVars
  BY ScreensKeep DEF Settled, CellFate!Step, CellFate!Next, CellFate!Settles
<1> QED
  BY InitScreens, ScreensKeep, <1>1, <1>2, PTL DEF Spec, CellSettledOnce

-----------------------------------------------------------------------------
(***************************************************************************)
(* Collection and merge.  A copied cell that is whole is the committed     *)
(* cell, and stays so because a whole cell is never touched again.         *)
(***************************************************************************)
Copied(a) ==
    IF copies[a].there
    THEN \A c \in CellsOf(a) : Whole(copies[a].files[c]) => copies[a].files[c] = art[c]
    ELSE copies[a].screen = NoScreen

MergeInv ==
    /\ copies = [a \in RemoteArms |-> copies[a]]
    /\ merged = [r \in Roots |-> merged[r]]
    /\ froot \in Roots
    /\ \A a \in RemoteArms : Copied(a)
    /\ MergedIsWhole

LEMMA InitMerge == Init => MergeInv
BY DEF Init, MergeInv, NoCopy, Copied, MergedIsWhole

\* What was copied and merged is not affected by the screens.
LEMMA MergeStays ==
    ASSUME MergeInv, Settled, UNCHANGED <<copies, merged>>, froot' \in Roots
    PROVE  MergeInv'
<1>1. ASSUME NEW a \in RemoteArms
      PROVE  Copied(a)'
  <2>1. Copied(a)
    BY DEF MergeInv
  <2>2. ASSUME copies[a].there, NEW c \in CellsOf(a), Whole(copies[a].files[c])
        PROVE  copies[a].files[c] = art'[c]
    BY <2>1, <2>2 DEF Copied, Settled, CellsOf
  <2> QED
    BY <2>1, <2>2 DEF Copied
<1>2. MergedIsWhole'
  BY DEF MergeInv, MergedIsWhole, Settled
<1> QED
  BY <1>1, <1>2 DEF MergeInv

LEMMA CollectKeeps ==
    ASSUME MergeInv, NEW a \in RemoteArms, Collect(a)
    PROVE  MergeInv'
<1>1. UNCHANGED <<art, merged, froot>>
  BY DEF Collect, screenVars, finalizer
<1>2. PICK kept \in SUBSET CellsOf(a), receipt \in {NoScreen, screen[a]} :
        copies' = [copies EXCEPT ![a] =
            [files  |-> [c \in CellsOf(a) |-> IF c \in kept THEN art[c] ELSE NoFiles],
             screen |-> receipt,
             there  |-> TRUE]]
  BY DEF Collect
<1>3. copies' = [b \in RemoteArms |-> copies'[b]]
  BY <1>2 DEF MergeInv
<1>4. ~ Whole(NoFiles)
  BY RoleFacts DEF Whole, NoFiles
<1>5. Copied(a)'
  BY <1>1, <1>2, <1>4 DEF Copied, MergeInv, Whole
<1>6. ASSUME NEW b \in RemoteArms, b # a
      PROVE  Copied(b)'
  <2>1. copies'[b] = copies[b]
    BY <1>2, <1>6 DEF MergeInv
  <2> QED
    BY <1>1, <2>1 DEF Copied, MergeInv, Whole
<1> QED
  BY <1>1, <1>3, <1>5, <1>6 DEF MergeInv, MergedIsWhole

\* Every arm passed the checks, so each cell merged is the one committed.
LEMMA MergeKeeps ==
    ASSUME MergeInv, Merge
    PROVE  MergeInv'
<1>1. UNCHANGED <<art, copies, froot>>
  BY DEF Merge, screenVars, Step, Raise
<1>2. \A a \in RemoteArms : Copied(a)'
  BY <1>1 DEF MergeInv, Copied, Whole
<1>3. CASE UNCHANGED merged
  BY <1>1, <1>2, <1>3 DEF MergeInv, MergedIsWhole
<1>4. CASE /\ merged' = [merged EXCEPT ![froot] = [c \in Cells |-> Output(ArmOf[c]).files[c]]]
           /\ \A a \in Arms : Mergeable(a)
  <2>1. ASSUME NEW c \in Cells
        PROVE  Whole(Output(ArmOf[c]).files[c]) /\ Output(ArmOf[c]).files[c] = art[c]
    <3>1. ArmOf[c] \in Arms /\ c \in CellsOf(ArmOf[c])
      BY ArmOfOK DEF CellsOf
    <3>2. Output(ArmOf[c]).screen # NoScreen /\ Whole(Output(ArmOf[c]).files[c])
      BY <1>4, <3>1 DEF Mergeable
    <3>3. CASE ArmOf[c] = LocalArm
      BY <3>1, <3>2, <3>3 DEF Output
    <3>4. CASE ArmOf[c] # LocalArm
      <4>1. Copied(ArmOf[c])
        BY <3>1, <3>4 DEF MergeInv, RemoteArms
      <4>2. Whole(copies[ArmOf[c]].files[c]) /\ copies[ArmOf[c]].screen # NoScreen
        BY <3>2, <3>4 DEF Output
      <4> QED
        BY <3>1, <3>2, <3>4, <4>1, <4>2 DEF Output, Copied
    <3> QED
      BY <3>3, <3>4
  <2>2. \A c \in Cells : merged'[froot][c] = art[c] /\ Whole(art[c])
    BY <1>4, <2>1 DEF MergeInv
  <2>3. MergedIsWhole'
    BY <1>1, <1>4, <2>2 DEF MergeInv, MergedIsWhole, Whole
  <2> QED
    BY <1>1, <1>2, <1>4, <2>3 DEF MergeInv
<1> QED
  BY <1>3, <1>4 DEF Merge

LEMMA MergeInvKeeps ==
    ASSUME ScreenInv, MergeInv, [Next]_vars
    PROVE  MergeInv'
<1>1. CASE Merge
  BY <1>1, MergeKeeps
<1>2. CASE \E a \in RemoteArms : Collect(a)
  BY <1>2, CollectKeeps
<1>3. CASE \E root \in Roots : StartFinalize(root)
  BY <1>3, ScreensKeep, MergeStays DEF StartFinalize
<1>4. CASE UNCHANGED <<copies, merged, froot>>
  BY <1>4, ScreensKeep, MergeStays DEF MergeInv
<1>5. [Next]_vars => \/ Merge \/ (\E a \in RemoteArms : Collect(a))
                     \/ (\E root \in Roots : StartFinalize(root))
                     \/ UNCHANGED <<copies, merged, froot>>
  BY DEF Next, Screens, StageRemote, LaunchFails, LaunchArm, Finalize, MakeAttempt, WriteIdentity,
     WriteState, BeginCopy, EndCopy, Record, RecordedBy, Complete, Teardown, BuildArchive, Return,
     FinalizeLost, Step, Raise, finalizer, vars
<1> QED
  BY <1>1, <1>2, <1>3, <1>4, <1>5

\* No torn copy, half-archived cell or unfinished arm gets into a merged root.
THEOREM MergesAreWhole == Spec => []MergedIsWhole
<1>1. MergeInv => MergedIsWhole
  BY DEF MergeInv
<1> QED
  BY InitScreens, InitMerge, ScreensKeep, MergeInvKeeps, <1>1, PTL DEF Spec

-----------------------------------------------------------------------------
(***************************************************************************)
(* finalize.  From the copy on, the cells that the run has gone through    *)
(* are checkpointed by this run, with what it merged; and a run that is    *)
(* past one of its steps finds what that step wrote.                       *)
(***************************************************************************)
Cited(c) == checkpoints[c].by = run /\ checkpoints[c].result = merged[froot][c][2]

FinalShape ==
    /\ run \in Nat
    /\ fcell \in Cells
    /\ checkpoints = [c \in Cells |-> checkpoints[c]]
    /\ results = [c \in Cells |-> results[c]]
    /\ archive = [r \in Roots |-> archive[r]]

Opening == {"initialize", "identity", "state", "merge"}
Copying == {"copy", "copying", "record"}
Closing == {"complete", "teardown", "archive", "return"}

\* Where the run is, and what it has written so far.
Writing ==
    /\ fpc \in EndedRun \cup Opening \cup Copying \cup Closing
    /\ fpc \notin EndedRun => run # 0
    /\ fpc \in Opening => fcell = 1
    /\ fpc \in Copying \cup Closing => merged[froot] # NoMerge
    /\ fpc \in Copying => \A c \in Cells : c < fcell => Cited(c)
    /\ fpc = "record" => results[fcell] = merged[froot][fcell][2]
    /\ fpc \in Closing => \A c \in Cells : Cited(c)

\* The lifecycle, and what the last steps rely on.
Lifecycle ==
    /\ attempt # "identified" => status = "none"
    /\ fpc = "identity" => attempt = "made"
    /\ fpc = "state" => attempt = "identified" /\ status = "none"
    /\ fpc = "return" =>
         archive[froot] = [by |-> run, rankings |-> [c \in Cells |-> merged[froot][c][1]]]

FinalInv == FinalShape /\ Writing /\ Lifecycle /\ OneRunCompletes /\ ReturnBound

LEMMA OneIsACell == 1 \in Cells /\ Cells \subseteq Nat
BY CellCountOK, LocalArmOK, ArmsHaveCells DEF Cells, CellsOf

LEMMA InitFinal == Init => FinalInv
BY OneIsACell DEF Init, FinalInv, FinalShape, Writing, Lifecycle, OneRunCompletes, ReturnBound,
                  EndedRun, Opening, Copying, Closing

\* A step of the screens, the launcher or the collection is nothing to finalize.
LEMMA FinalStays ==
    ASSUME FinalInv, UNCHANGED <<merged, finalVars, finalizer>>
    PROVE  FinalInv'
BY DEF FinalInv, FinalShape, Writing, Lifecycle, OneRunCompletes, ReturnBound, Cited, finalVars,
       finalizer

\* A step that only moves on, or ends the run.
LEMMA EndKeeps ==
    ASSUME FinalInv, fpc' \in EndedRun,
           UNCHANGED <<merged, finalVars, run, fcell, froot>>
    PROVE  FinalInv'
BY DEF FinalInv, FinalShape, Writing, Lifecycle, OneRunCompletes, ReturnBound, finalVars,
       EndedRun, Opening, Copying, Closing

LEMMA StartKeeps ==
    ASSUME FinalInv, NEW root \in Roots, StartFinalize(root)
    PROVE  FinalInv'
<1>1. /\ run' = run + 1 /\ fcell' = 1 /\ fpc' = "initialize"
      /\ UNCHANGED <<merged, attempt, status, results, checkpoints, teardown, archive, returned>>
  BY DEF StartFinalize, finalVars
<1>2. run' \in Nat /\ run' # 0 /\ 1..run \subseteq 1..run'
  BY <1>1 DEF FinalInv, FinalShape
<1>3. OneRunCompletes'
  BY <1>1, <1>2 DEF FinalInv, OneRunCompletes
<1> QED
  BY <1>1, <1>2, <1>3, OneIsACell DEF FinalInv, FinalShape, Writing, Lifecycle, ReturnBound,
     EndedRun, Opening, Copying, Closing

LEMMA OpeningKeeps ==
    ASSUME FinalInv, MakeAttempt \/ WriteIdentity \/ WriteState
    PROVE  FinalInv'
<1>1. UNCHANGED <<merged, results, checkpoints, teardown, archive, returned, run, fcell, froot>>
  BY DEF MakeAttempt, WriteIdentity, WriteState, Step, Raise
<1>2. OneRunCompletes' /\ ReturnBound'
  BY <1>1 DEF FinalInv, Lifecycle, OneRunCompletes, ReturnBound, MakeAttempt, WriteIdentity,
     WriteState
<1>3. Writing'
  BY <1>1 DEF FinalInv, Writing, MakeAttempt, WriteIdentity, WriteState, Step, Raise, EndedRun,
     Opening, Copying, Closing
<1>4. Lifecycle'
  BY <1>1 DEF FinalInv, Lifecycle, MakeAttempt, WriteIdentity, WriteState, Step, Raise
<1> QED
  BY <1>1, <1>2, <1>3, <1>4 DEF FinalInv, FinalShape

LEMMA MergeMovesOn ==
    ASSUME FinalInv, MergeInv, Merge
    PROVE  FinalInv'
<1>1. CASE Raise /\ UNCHANGED merged
  BY <1>1, EndKeeps DEF Merge, Raise, Step, EndedRun, finalVars
<1>2. CASE /\ merged' = [merged EXCEPT ![froot] = [c \in Cells |-> Output(ArmOf[c]).files[c]]]
           /\ Step("copy")
  <2>1. merged'[froot] = [c \in Cells |-> Output(ArmOf[c]).files[c]]
    BY <1>2 DEF MergeInv
  <2>2. merged'[froot] # NoMerge
    BY <2>1, OneIsACell DEF NoMerge
  <2>3. UNCHANGED <<finalVars, run, fcell, froot>> /\ fpc = "merge" /\ fpc' = "copy"
    BY <1>2 DEF Merge, Step
  <2>4. ~ \E c \in Cells : c < 1
    BY DEF Cells
  <2> QED
    BY <2>2, <2>3, <2>4 DEF FinalInv, FinalShape, Writing, Lifecycle, OneRunCompletes, ReturnBound,
       finalVars, EndedRun, Opening, Copying, Closing
<1> QED
  BY <1>1, <1>2 DEF Merge

LEMMA CopyKeeps ==
    ASSUME FinalInv, BeginCopy \/ EndCopy
    PROVE  FinalInv'
<1>1. UNCHANGED <<merged, attempt, status, checkpoints, teardown, archive, returned,
                  run, fcell, froot>>
  BY DEF BeginCopy, EndCopy, Step
<1>2. results' = [c \in Cells |-> results'[c]]
  BY DEF BeginCopy, EndCopy, FinalInv, FinalShape
<1>3. fpc' = "record" => results'[fcell] = merged[froot][fcell][2]
  BY DEF BeginCopy, EndCopy, Step, FinalInv, FinalShape
<1>4. fpc \in Copying /\ fpc' \in {"copying", "record"}
  BY DEF BeginCopy, EndCopy, Step, Copying
<1> QED
  BY <1>1, <1>2, <1>3, <1>4 DEF FinalInv, FinalShape, Writing, Lifecycle, OneRunCompletes,
     ReturnBound, Cited, EndedRun, Opening, Copying, Closing

LEMMA RecordKeeps ==
    ASSUME FinalInv, Record
    PROVE  FinalInv'
<1>1. CASE Raise /\ UNCHANGED checkpoints
  BY <1>1, EndKeeps DEF Record, Raise, Step, EndedRun, finalVars
<1>2. CASE status = "RUNNING" /\ RecordedBy(run)
  <2>1. /\ UNCHANGED <<merged, attempt, status, results, teardown, archive, returned, run, froot>>
        /\ fpc = "record"
    BY <1>2 DEF Record, RecordedBy, Step
  <2>2. checkpoints' = [checkpoints EXCEPT ![fcell] = [result |-> results[fcell], by |-> run]]
    BY <1>2 DEF RecordedBy
  <2>3. \A c \in Cells : c = fcell \/ c < fcell => Cited(c)'
    BY <2>1, <2>2 DEF FinalInv, FinalShape, Writing, Copying, Cited
  <2>4. OneRunCompletes' /\ ReturnBound'
    BY <1>2, <2>1 DEF FinalInv, OneRunCompletes, ReturnBound
  <2>5. FinalShape' /\ Writing'
    <3>1. CASE fcell = CellCount /\ Step("complete")
      <4>1. \A c \in Cells : c = fcell \/ c < fcell
        BY <3>1, CellCountOK DEF Cells
      <4> QED
        BY <2>1, <2>2, <2>3, <3>1, <4>1 DEF FinalInv, FinalShape, Writing, Step, EndedRun,
           Opening, Copying, Closing
    <3>2. CASE fcell # CellCount /\ fcell' = fcell + 1 /\ fpc' = "copy"
      <4>1. fcell' \in Cells /\ \A c \in Cells : c < fcell' => c = fcell \/ c < fcell
        BY <3>2, CellCountOK DEF FinalInv, FinalShape, Cells
      <4> QED
        BY <2>1, <2>2, <2>3, <3>2, <4>1 DEF FinalInv, FinalShape, Writing, EndedRun,
           Opening, Copying, Closing
    <3> QED
      BY <1>2, <3>1, <3>2 DEF RecordedBy
  <2>6. Lifecycle'
    <3>1. fpc' \in {"complete", "copy"}
      BY <1>2 DEF RecordedBy, Step
    <3> QED
      BY <2>1, <3>1 DEF FinalInv, Lifecycle
  <2> QED
    BY <2>4, <2>5, <2>6 DEF FinalInv
<1> QED
  BY <1>1, <1>2 DEF Record

\* What is completed are the checkpoints of the run that completes it.
LEMMA CompleteKeeps ==
    ASSUME FinalInv, Complete
    PROVE  FinalInv'
<1>1. CASE Raise /\ UNCHANGED status
  BY <1>1, EndKeeps DEF Complete, Raise, Step, EndedRun, finalVars
<1>2. CASE status = "RUNNING" /\ status' = "COMPLETE" /\ Step("teardown")
  <2>1. /\ UNCHANGED <<merged, attempt, results, checkpoints, teardown, archive, returned,
                       run, fcell, froot>>
        /\ fpc = "complete" /\ fpc' = "teardown"
    BY <1>2 DEF Complete, Step
  <2>2. run \in 1..run /\ \A c \in Cells : checkpoints[c].by = run
    BY <2>1 DEF FinalInv, FinalShape, Writing, Closing, Cited, EndedRun
  <2>3. OneRunCompletes' /\ ReturnBound'
    BY <1>2, <2>1, <2>2 DEF FinalInv, OneRunCompletes, ReturnBound
  <2> QED
    BY <1>2, <2>1, <2>3 DEF FinalInv, FinalShape, Writing, Lifecycle, Cited, EndedRun, Opening,
       Copying, Closing
<1> QED
  BY <1>1, <1>2 DEF Complete

LEMMA TeardownKeeps ==
    ASSUME FinalInv, Teardown
    PROVE  FinalInv'
<1>1. CASE Raise /\ UNCHANGED teardown
  BY <1>1, EndKeeps DEF Teardown, Raise, Step, EndedRun, finalVars
<1>2. CASE teardown' = TRUE /\ Step("archive")
  BY <1>2 DEF Teardown, Step, FinalInv, FinalShape, Writing, Lifecycle, OneRunCompletes,
     ReturnBound, Cited, EndedRun, Opening, Copying, Closing
<1> QED
  BY <1>1, <1>2 DEF Teardown

LEMMA BuildKeeps ==
    ASSUME FinalInv, MergeInv, BuildArchive
    PROVE  FinalInv'
<1>1. CASE Raise /\ UNCHANGED archive
  BY <1>1, EndKeeps DEF BuildArchive, Raise, Step, EndedRun, finalVars
<1>2. CASE /\ archive' = [archive EXCEPT ![froot] =
                 [by |-> run, rankings |-> [c \in Cells |-> merged[froot][c][1]]]]
           /\ Step("return")
  <2>1. /\ archive' = [r \in Roots |-> archive'[r]]
        /\ archive'[froot] = [by |-> run, rankings |-> [c \in Cells |-> merged[froot][c][1]]]
    BY <1>2 DEF FinalInv, FinalShape, MergeInv
  <2>2. /\ UNCHANGED <<merged, attempt, status, results, checkpoints, teardown, returned,
                       run, fcell, froot>>
        /\ fpc = "archive" /\ fpc' = "return"
    BY <1>2 DEF BuildArchive, Step
  <2> QED
    BY <2>1, <2>2 DEF FinalInv, FinalShape, Writing, Lifecycle, OneRunCompletes, ReturnBound,
       Cited, EndedRun, Opening, Copying, Closing
<1> QED
  BY <1>1, <1>2 DEF BuildArchive

\* What is returned cites the checkpoints of this run; the ranking and the
\* receipt of a merged cell are those of one execution.
LEMMA ReturnKeeps ==
    ASSUME FinalInv, MergeInv, Return
    PROVE  FinalInv'
<1>1. CASE Raise /\ UNCHANGED returned
  BY <1>1, EndKeeps DEF Return, Raise, Step, EndedRun, finalVars
<1>2. CASE status = "COMPLETE" /\ teardown /\ returned' = archive[froot] /\ Step("pass")
  <2>1. /\ UNCHANGED <<merged, attempt, status, results, checkpoints, teardown, archive,
                       run, fcell, froot>>
        /\ fpc = "return" /\ fpc' = "pass"
    BY <1>2 DEF Return, Step
  <2>2. returned' = [by |-> run, rankings |-> [c \in Cells |-> merged[froot][c][1]]]
    BY <1>2, <2>1 DEF FinalInv, Lifecycle
  <2>3. \A c \in Cells : Cited(c) /\ merged[froot][c][2] = merged[froot][c][1]
    <3>1. merged[froot] # NoMerge /\ \A c \in Cells : Cited(c)
      BY <2>1 DEF FinalInv, Writing, Closing
    <3> QED
      BY <3>1, RoleFacts DEF MergeInv, MergedIsWhole, Whole
  <2>4. ReturnBound'
    BY <1>2, <2>1, <2>2, <2>3 DEF ReturnBound, Cited
  <2> QED
    BY <2>1, <2>4 DEF FinalInv, FinalShape, Writing, Lifecycle, OneRunCompletes, EndedRun,
       Opening, Copying, Closing
<1> QED
  BY <1>1, <1>2 DEF Return

LEMMA FinalKeeps ==
    ASSUME FinalInv, MergeInv, [Next]_vars
    PROVE  FinalInv'
<1>1. CASE Finalize
  <2>1. CASE FinalizeLost
    BY <2>1, EndKeeps DEF FinalizeLost, Step, EndedRun
  <2> QED
    BY <1>1, <2>1, OpeningKeeps, MergeMovesOn, CopyKeeps, RecordKeeps, CompleteKeeps,
       TeardownKeeps, BuildKeeps, ReturnKeeps, StartKeeps DEF Finalize
<1>2. CASE UNCHANGED <<merged, finalVars, finalizer>>
  BY <1>2, FinalStays
<1>3. [Next]_vars => Finalize \/ UNCHANGED <<merged, finalVars, finalizer>>
  BY DEF Next, Screens, StageRemote, LaunchFails, LaunchArm, Collect, vars
<1> QED
  BY <1>1, <1>2, <1>3

\* A completed attempt is the work of one run of finalize.
THEOREM OneRunPerAttempt == Spec => []OneRunCompletes
<1>1. FinalInv => OneRunCompletes
  BY DEF FinalInv
<1> QED
  BY InitScreens, InitMerge, InitFinal, ScreensKeep, MergeInvKeeps, FinalKeeps, <1>1, PTL DEF Spec

\* What is returned is bound to the checkpoints on record, and its rankings to
\* their receipts.
THEOREM ReturnsAreBound == Spec => []ReturnBound
<1>1. FinalInv => ReturnBound
  BY DEF FinalInv
<1> QED
  BY InitScreens, InitMerge, InitFinal, ScreensKeep, MergeInvKeeps, FinalKeeps, <1>1, PTL DEF Spec

-----------------------------------------------------------------------------
(***************************************************************************)
(* Types.                                                                  *)
(***************************************************************************)
Typed ==
    /\ staged \in BOOLEAN /\ launching \in BOOLEAN
    /\ attempt \in {"none", "made", "identified"}
    /\ status \in {"none", "RUNNING", "FAILED", "COMPLETE"}
    /\ results \in [Cells -> 0..Torn]
    /\ checkpoints \in [Cells -> [result : 0..MaxStarts, by : 0..MaxRuns]]
    /\ teardown \in BOOLEAN
    /\ run \in 0..MaxRuns

LEMMA Bounds ==
    /\ {0, Torn} \subseteq 0..Torn /\ 0..MaxStarts \subseteq 0..Torn
    /\ 0 \in 0..MaxStarts /\ 0 \in 0..MaxRuns
BY MaxStartsOK, MaxRunsOK DEF Torn

LEMMA InitTyped == Init => Typed
<1>1. ASSUME Init
      PROVE  checkpoints \in [Cells -> [result : 0..MaxStarts, by : 0..MaxRuns]]
  <2>1. checkpoints = [c \in Cells |-> [result |-> 0, by |-> 0]]
    BY <1>1 DEF Init
  <2>2. [result |-> 0, by |-> 0] \in [result : 0..MaxStarts, by : 0..MaxRuns]
    BY Bounds
  <2> QED
    BY <2>1, <2>2
<1> QED
  BY <1>1, Bounds DEF Init, Typed

\* What is copied into the lifecycle is a receipt that some execution wrote.
LEMMA MergedTyped ==
    ASSUME ScreenInv, MergeInv, FinalInv, fpc \in Copying
    PROVE  merged[froot][fcell][2] \in 0..MaxStarts
<1>1. merged[froot][fcell] = art[fcell] /\ fcell \in Cells
  BY DEF MergeInv, MergedIsWhole, FinalInv, FinalShape, Writing
<1>2. art[fcell] \in [Roles -> 0..MaxStarts] /\ 2 \in Roles
  BY <1>1, RoleFacts DEF ScreenInv, Shape
<1> QED
  BY <1>1, <1>2

LEMMA TypedKeeps ==
    ASSUME ScreenInv, MergeInv, FinalInv, Typed, [Next]_vars
    PROVE  Typed'
<1>1. CASE BeginCopy
  BY <1>1, Bounds DEF BeginCopy, Step, Typed
<1>2. CASE EndCopy
  <2>1. merged[froot][fcell][2] \in 0..Torn
    BY <1>2, MergedTyped, Bounds DEF EndCopy, Copying
  <2> QED
    BY <1>2, <2>1 DEF EndCopy, Step, Typed
<1>3. CASE Record
  <2>1. results[fcell] \in 0..MaxStarts
    BY <1>3, MergedTyped DEF Record, Copying, FinalInv, Writing
  <2>2. [result |-> results[fcell], by |-> run] \in [result : 0..MaxStarts, by : 0..MaxRuns]
    BY <2>1 DEF Typed
  <2>3. /\ checkpoints' = checkpoints
           \/ checkpoints' = [checkpoints EXCEPT ![fcell] =
                                [result |-> results[fcell], by |-> run]]
        /\ UNCHANGED run
    BY <1>3 DEF Record, RecordedBy, Raise, Step
  <2>4. checkpoints' \in [Cells -> [result : 0..MaxStarts, by : 0..MaxRuns]]
    BY <2>2, <2>3 DEF Typed
  <2> QED
    BY <1>3, <2>3, <2>4 DEF Record, Typed
<1>4. CASE \E root \in Roots : StartFinalize(root)
  BY <1>4, MaxRunsOK DEF StartFinalize, Typed, finalVars
<1>5. CASE MakeAttempt \/ WriteIdentity \/ WriteState \/ Complete \/ Teardown
  BY <1>5 DEF MakeAttempt, WriteIdentity, WriteState, Complete, Teardown, Raise, Step, Typed
<1>6. CASE Merge \/ BuildArchive \/ Return \/ FinalizeLost
  BY <1>6 DEF Merge, BuildArchive, Return, FinalizeLost, Raise, Step, Typed, finalVars
<1>7. CASE Screens \/ StageRemote \/ LaunchFails
            \/ \E a \in RemoteArms : LaunchArm(a) \/ Collect(a)
  BY <1>7 DEF Screens, StageRemote, LaunchFails, LaunchArm, Collect, Typed, finalVars, finalizer
<1>8. CASE UNCHANGED vars
  BY <1>8 DEF vars, Typed, finalVars, finalizer
<1> QED
  BY <1>1, <1>2, <1>3, <1>4, <1>5, <1>6, <1>7, <1>8 DEF Next, Finalize

\* What the screens, the lifecycle and finalize keep has the types declared.
THEOREM TypeCorrect == Spec => []TypeOK
<1>1. ScreenInv => ScreenTypeOK
  <2>1. ASSUME ScreenInv, NEW a \in Arms
        PROVE  screen[a] \in UNION {[S -> 0..MaxStarts] : S \in SUBSET Cells}
    <3>1. screen[a] \in {NoScreen} \cup [CellsOf(a) -> 0..MaxStarts]
      BY <2>1 DEF ScreenInv, ArmInv, Receipt
    <3>2. NoScreen \in [{} -> 0..MaxStarts]
      BY DEF NoScreen
    <3> QED
      BY <3>1, <3>2 DEF CellsOf
  <2> QED
    BY <2>1 DEF ScreenInv, Shape, ScreenTypeOK
<1>2. ScreenInv /\ FinalInv /\ Typed => TypeOK
  BY <1>1 DEF FinalInv, FinalShape, Typed, TypeOK
<1> QED
  BY InitScreens, InitMerge, InitFinal, InitTyped, ScreensKeep, MergeInvKeeps, FinalKeeps,
     TypedKeeps, <1>2, PTL DEF Spec

=============================================================================
