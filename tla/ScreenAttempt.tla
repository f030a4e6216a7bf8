--------------------------- MODULE ScreenAttempt ---------------------------
(***************************************************************************)
(* An A1.2 attempt from the launch of its arms to its safe return          *)
(* (src/myis_research/armindex/a1_2_remote_measured_launcher_v16.py): the  *)
(* screens of the arms are ArmScreen; the remote arms are launched over    *)
(* SSH and their outputs copied back; finalize merges the outputs, records *)
(* a checkpoint of each cell in the attempt's lifecycle                    *)
(* (a1_2_execution_lifecycle_v16.py), completes it, tears it down and      *)
(* builds the archive to return.                                           *)
(*                                                                         *)
(* finalize can be lost at any point and run again, over the same lifecycle*)
(* root, with the merged root and the archive path of before or with fresh *)
(* ones.  As in ArmScreen the operator is assumed to run one at a time.    *)
(***************************************************************************)
EXTENDS ArmScreen

CONSTANTS
    Roots,     \* merged roots, each with an archive path of its own
    MaxRuns    \* bound on the runs of finalize

ASSUME MaxRunsOK == MaxRuns \in Nat

VARIABLES
    staged,       \* the remote root exists
    launching,    \* the launcher is at work
    copies,       \* local copy of each remote arm: its files and screen receipt
    merged,       \* files of the cells in each merged root
    attempt,      \* directory of the lifecycle: none, made, with attempt.json
    status,       \* state.json
    results,      \* results/<cell>.json: execution of the receipt
    checkpoints,  \* checkpoints/<cell>.json
    teardown,     \* teardown.json exists
    archive,      \* the archive of each root
    returned,     \* production-safe-return.receipt: the archive it accepts
    run,          \* runs of finalize so far; numbers the one that runs
    fpc, fcell, froot

finalVars == <<attempt, status, results, checkpoints, teardown, archive, returned>>
finalizer == <<run, fpc, fcell, froot>>
vars == <<screenVars, staged, launching, copies, merged, finalVars, finalizer>>

RemoteArms == Arms \ {LocalArm}

Torn == MaxStarts + 1   \* a result whose copying was cut off
NoCopy == [files |-> [c \in {} |-> NoFiles], screen |-> NoScreen, there |-> FALSE]
NoMerge == [c \in {} |-> NoFiles]
NoArchive == [by |-> 0, rankings |-> NoScreen]

TypeOK ==
    /\ ScreenTypeOK
    /\ staged \in BOOLEAN /\ launching \in BOOLEAN
    /\ attempt \in {"none", "made", "identified"}
    /\ status \in {"none", "RUNNING", "FAILED", "COMPLETE"}
    /\ results \in [Cells -> 0..Torn]
    /\ checkpoints \in [Cells -> [result : 0..MaxStarts, by : 0..MaxRuns]]
    /\ teardown \in BOOLEAN
    /\ run \in 0..MaxRuns
    /\ fcell \in Cells

Init ==
    /\ ScreenInit
    /\ staged = FALSE /\ launching = FALSE
    /\ copies = [a \in RemoteArms |-> NoCopy]
    /\ merged = [r \in Roots |-> NoMerge]
    /\ attempt = "none" /\ status = "none"
    /\ results = [c \in Cells |-> 0]
    /\ checkpoints = [c \in Cells |-> [result |-> 0, by |-> 0]]
    /\ teardown = FALSE
    /\ archive = [r \in Roots |-> NoArchive]
    /\ returned = NoArchive
    /\ run = 0 /\ fpc = "idle" /\ fcell = 1
    /\ froot \in Roots

-----------------------------------------------------------------------------
(* The remote arms.                                                        *)

\* The remote root must not exist: there is one launch.
StageRemote ==
    /\ ~staged
    /\ staged' = TRUE /\ launching' = TRUE
    /\ UNCHANGED <<screenVars, copies, merged, finalVars, finalizer>>

LaunchArm(a) ==
    /\ launching /\ a \in RemoteArms /\ starts[a] = 0
    /\ Begin(a)
    /\ launching' = (\E b \in RemoteArms \ {a} : starts[b] = 0)
    /\ UNCHANGED <<staged, copies, merged, finalVars, finalizer>>

\* A failure on the way: the workers launched so far are signalled, through
\* the shell that started them, and some may survive that.
LaunchFails ==
    /\ launching
    /\ launching' = FALSE
    /\ \E killed \in SUBSET {a \in RemoteArms : pc[a] \notin Ended} :
         pc' = [a \in Arms |-> IF a \in killed THEN "lost" ELSE pc[a]]
    /\ UNCHANGED <<art, failure, screen, at, held, starts>>
    /\ UNCHANGED <<staged, copies, merged, finalVars, finalizer>>

\* The output of a remote arm is copied, once.  A copy that is cut off, or taken
\* before the screen receipt was there, lacks some cells; it stays where it is,
\* and nothing keeps it from finalize.
Collect(a) ==
    /\ ~copies[a].there /\ starts[a] > 0
    /\ \E kept \in SUBSET CellsOf(a), receipt \in {NoScreen, screen[a]} :
         copies' = [copies EXCEPT ![a] =
             [files  |-> [c \in CellsOf(a) |-> IF c \in kept THEN art[c] ELSE NoFiles],
              screen |-> receipt,
              there  |-> TRUE]]
    /\ UNCHANGED <<screenVars, staged, launching, merged, finalVars, finalizer>>

-----------------------------------------------------------------------------
(* finalize_distributed_production.                                        *)

Step(where) == fpc' = where /\ UNCHANGED <<run, fcell, froot>>
Raise == Step("raised")
EndedRun == {"idle", "pass", "raised", "lost"}

StartFinalize(root) ==
    /\ fpc \in EndedRun /\ run < MaxRuns
    /\ run' = run + 1 /\ froot' = root /\ fcell' = 1 /\ fpc' = "initialize"
    /\ UNCHANGED <<screenVars, staged, launching, copies, merged, finalVars>>

\* initialize_attempt: the directory, or the identity of one that is there.
MakeAttempt ==
    /\ fpc = "initialize"
    /\ \/ attempt = "none" /\ attempt' = "made" /\ Step("identity")
       \/ attempt = "made" /\ Raise /\ UNCHANGED attempt
       \/ attempt = "identified" /\ Step("merge") /\ UNCHANGED attempt
    /\ UNCHANGED <<status, results, checkpoints, teardown, archive, returned>>
    /\ UNCHANGED <<screenVars, staged, launching, copies, merged>>

WriteIdentity ==
    /\ fpc = "identity"
    /\ attempt' = "identified" /\ Step("state")
    /\ UNCHANGED <<status, results, checkpoints, teardown, archive, returned>>
    /\ UNCHANGED <<screenVars, staged, launching, copies, merged>>

WriteState ==
    /\ fpc = "state"
    /\ status' = "RUNNING" /\ Step("merge")
    /\ UNCHANGED <<attempt, results, checkpoints, teardown, archive, returned>>
    /\ UNCHANGED <<screenVars, staged, launching, copies, merged>>

\* The output an arm is merged from.
Output(a) ==
    IF a = LocalArm
    THEN [files |-> [c \in CellsOf(a) |-> art[c]], screen |-> screen[a]]
    ELSE [files |-> copies[a].files, screen |-> copies[a].screen]

\* MUTANT of Mergeable: only the screen receipt is looked at.
Screened(a) == Output(a).screen # NoScreen

\* The screen receipt is about the cells' files, and they bind each other.
Mergeable(a) ==
    LET out == Output(a) IN
    /\ out.screen # NoScreen
    /\ \A c \in CellsOf(a) : Whole(out.files[c]) /\ out.screen[c] = out.files[c][1]

\* The merged root appears as a whole.
Merge ==
    /\ fpc = "merge"
    /\ IF merged[froot] = NoMerge /\ \A a \in Arms : Mergeable(a)
       THEN /\ merged' = [merged EXCEPT ![froot] = [c \in Cells |-> Output(ArmOf[c]).files[c]]]
            /\ Step("copy")
       ELSE Raise /\ UNCHANGED merged
    /\ UNCHANGED <<screenVars, staged, launching, copies, finalVars>>

\* The receipt is copied into the lifecycle over what is there, in place.
BeginCopy ==
    /\ fpc = "copy"
    /\ results' = [results EXCEPT ![fcell] = Torn]
    /\ Step("copying")
    /\ UNCHANGED <<attempt, status, checkpoints, teardown, archive, returned>>
    /\ UNCHANGED <<screenVars, staged, launching, copies, merged>>

EndCopy ==
    /\ fpc = "copying"
    /\ results' = [results EXCEPT ![fcell] = merged[froot][fcell][2]]
    /\ Step("record")
    /\ UNCHANGED <<attempt, status, checkpoints, teardown, archive, returned>>
    /\ UNCHANGED <<screenVars, staged, launching, copies, merged>>

\* The checkpoint of the cell is recorded; the next cell, or completion.
RecordedBy(n) ==
    /\ checkpoints' = [checkpoints EXCEPT ![fcell] = [result |-> results[fcell], by |-> n]]
    /\ IF fcell = CellCount
       THEN Step("complete")
       ELSE fcell' = fcell + 1 /\ fpc' = "copy" /\ UNCHANGED <<run, froot>>

\* MUTANT of Record: a checkpoint that is there is accepted.
RecordAgain ==
    /\ fpc = "record"
    /\ IF status # "RUNNING"
       THEN Raise /\ UNCHANGED checkpoints
       ELSE RecordedBy(IF checkpoints[fcell].by = 0 THEN run ELSE checkpoints[fcell].by)
    /\ UNCHANGED <<attempt, status, results, teardown, archive, returned>>
    /\ UNCHANGED <<screenVars, staged, launching, copies, merged>>

\* record_cell_checkpoint: immutable, and stamped with the time, so that none
\* is recorded twice.
Record ==
    /\ fpc = "record"
    /\ IF status = "RUNNING" /\ checkpoints[fcell].by = 0
       THEN RecordedBy(run)
       ELSE Raise /\ UNCHANGED checkpoints
    /\ UNCHANGED <<attempt, status, results, teardown, archive, returned>>
    /\ UNCHANGED <<screenVars, staged, launching, copies, merged>>

\* complete_attempt: each checkpoint is compared with its receipt again.
Complete ==
    /\ fpc = "complete"
    /\ IF /\ status = "RUNNING"
          /\ \A c \in Cells : checkpoints[c].by # 0 /\ checkpoints[c].result = results[c]
       THEN status' = "COMPLETE" /\ Step("teardown")
       ELSE Raise /\ UNCHANGED status
    /\ UNCHANGED <<attempt, results, checkpoints, teardown, archive, returned>>
    /\ UNCHANGED <<screenVars, staged, launching, copies, merged>>

\* No process is registered here, so none is left running.
Teardown ==
    /\ fpc = "teardown"
    /\ IF ~teardown THEN teardown' = TRUE /\ Step("archive")
                    ELSE Raise /\ UNCHANGED teardown
    /\ UNCHANGED <<attempt, status, results, checkpoints, archive, returned>>
    /\ UNCHANGED <<screenVars, staged, launching, copies, merged>>

\* build_safe_return_archive, of the merged root and of this run's checkpoints.
BuildArchive ==
    /\ fpc = "archive"
    /\ IF archive[froot] = NoArchive
       THEN /\ archive' = [archive EXCEPT ![froot] =
                 [by |-> run, rankings |-> [c \in Cells |-> merged[froot][c][1]]]]
            /\ Step("return")
       ELSE Raise /\ UNCHANGED archive
    /\ UNCHANGED <<attempt, status, results, checkpoints, teardown, returned>>
    /\ UNCHANGED <<screenVars, staged, launching, copies, merged>>

\* validate_production_safe_return.
Return ==
    /\ fpc = "return"
    /\ IF status = "COMPLETE" /\ teardown /\ returned \in {NoArchive, archive[froot]}
       THEN returned' = archive[froot] /\ Step("pass")
       ELSE Raise /\ UNCHANGED returned
    /\ UNCHANGED <<attempt, status, results, checkpoints, teardown, archive>>
    /\ UNCHANGED <<screenVars, staged, launching, copies, merged>>

FinalizeLost ==
    /\ fpc \notin EndedRun
    /\ Step("lost")
    /\ UNCHANGED <<screenVars, staged, launching, copies, merged, finalVars>>

Finalize ==
    \/ MakeAttempt \/ WriteIdentity \/ WriteState \/ Merge
    \/ BeginCopy \/ EndCopy \/ Record \/ Complete
    \/ Teardown \/ BuildArchive \/ Return \/ FinalizeLost
    \/ \E root \in Roots : StartFinalize(root)

Screens ==
    /\ \/ Begin(LocalArm)
       \/ \E a \in Arms : RunnerStep(a) \/ ProcessLoss(a)
    /\ UNCHANGED <<staged, launching, copies, merged, finalVars, finalizer>>

Next ==
    \/ Screens
    \/ StageRemote \/ LaunchFails
    \/ \E a \in RemoteArms : LaunchArm(a) \/ Collect(a)
    \/ Finalize

Spec == Init /\ [][Next]_vars

-----------------------------------------------------------------------------
\* A merged root holds, of every arm, the cells that its process committed,
\* whole: no torn copy, no half-archived cell and no unfinished arm gets in.
MergedIsWhole ==
    \A r \in Roots : merged[r] # NoMerge =>
        \A c \in Cells : Whole(merged[r][c]) /\ merged[r][c] = art[c]

\* A completed attempt is the work of one run of finalize, whatever earlier
\* runs left: no checkpoint of a lost run is mixed in.
OneRunCompletes ==
    status = "COMPLETE" =>
        \E n \in 1..run : \A c \in Cells : checkpoints[c].by = n

\* What is returned is an archive of the completed and torn-down attempt, it
\* cites the checkpoints that are on record, and its rankings are those of the
\* receipts they are about.
ReturnBound ==
    returned # NoArchive =>
        /\ status = "COMPLETE" /\ teardown
        /\ \A c \in Cells : /\ checkpoints[c].by = returned.by
                            /\ checkpoints[c].result = returned.rankings[c]

=============================================================================
