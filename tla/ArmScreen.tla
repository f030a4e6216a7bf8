----------------------------- MODULE ArmScreen -----------------------------
(***************************************************************************)
(* The measured screen of A1.2, one process for each arm                   *)
(* (src/myis_research/armindex/a1_2_owner_local_measured_runner_v16.py,    *)
(* run_owner_local_measured_screen in measured mode): for each cell of the *)
(* arm, in manifest order, the ranking, the receipt, the metrics and the   *)
(* commit marker, each written atomically and only once; then the screen   *)
(* receipt of the arm.  A process may be lost at any point; the local arm  *)
(* can be run again over what it left, a remote arm is launched once.      *)
(*                                                                         *)
(* A file stands for the execution that wrote it: the contents of two      *)
(* executions differ, for the metrics hold timings.  The four files of a   *)
(* cell validate when one execution wrote them.                            *)
(*                                                                         *)
(* Assumed of the operator, for no lock sees to it: the screen of an arm   *)
(* is not started over one output root while another process runs it.      *)
(***************************************************************************)
EXTENDS Naturals

CONSTANTS
    Arms,
    CellCount,   \* cells are 1..CellCount, in manifest order
    ArmOf,       \* arm of each cell
    LocalArm,    \* the arm that runs on the Owner's machine
    MaxStarts    \* bound on the starts of an arm's process

Cells == 1..CellCount
CellsOf(a) == {c \in Cells : ArmOf[c] = a}

ASSUME CellCountOK == CellCount \in Nat
ASSUME ArmOfOK == ArmOf \in [Cells -> Arms]
ASSUME ArmsHaveCells == \A a \in Arms : CellsOf(a) # {}
ASSUME LocalArmOK == LocalArm \in Arms
ASSUME MaxStartsOK == MaxStarts \in Nat

VARIABLES
    art,       \* files of each cell: the execution that wrote each role, or 0
    failure,   \* cells with a failure sidecar
    screen,    \* receipts/screen.json of each arm: execution of each of its cells
    pc,        \* where the process of an arm is
    at,        \* its current cell
    held,      \* executions of the cells it has gone through
    starts     \* starts of the arm; numbers its executions

screenVars == <<art, failure, screen, pc, at, held, starts>>

Roles == 1..4   \* ranking, receipt, metrics, commit: the order of the writes
Ended == {"idle", "pass", "raised", "conflict", "lost"}
Locations == Ended \cup {"look", "move", "execute", "write", "screen"}

NoFiles == [i \in Roles |-> 0]
NoScreen == [c \in {} |-> 0]

ScreenTypeOK ==
    /\ art \in [Cells -> [Roles -> 0..MaxStarts]]
    /\ failure \in SUBSET Cells
    /\ screen \in [Arms -> UNION {[S -> 0..MaxStarts] : S \in SUBSET Cells}]
    /\ pc \in [Arms -> Locations]
    /\ at \in [Arms -> Cells]
    /\ held \in [Cells -> 0..MaxStarts]
    /\ starts \in [Arms -> 0..MaxStarts]

FirstOf(S) == CHOOSE c \in S : \A d \in S : c <= d

ScreenInit ==
    /\ art = [c \in Cells |-> NoFiles]
    /\ failure = {}
    /\ screen = [a \in Arms |-> NoScreen]
    /\ pc = [a \in Arms |-> "idle"]
    /\ at = [a \in Arms |-> FirstOf(CellsOf(a))]
    /\ held = [c \in Cells |-> 0]
    /\ starts = [a \in Arms |-> 0]

-----------------------------------------------------------------------------
Present(c) == {i \in Roles : art[c][i] # 0}

\* The cell's receipt, ranking, metrics and commit marker bind each other.
Whole(files) == files[1] # 0 /\ \A i \in Roles : files[i] = files[1]

Goto(a, where) == pc' = [pc EXCEPT ![a] = where]

Begin(a) ==
    /\ pc[a] \in Ended /\ starts[a] < MaxStarts
    /\ starts' = [starts EXCEPT ![a] = @ + 1]
    /\ at' = [at EXCEPT ![a] = FirstOf(CellsOf(a))]
    /\ held' = [c \in Cells |-> IF ArmOf[c] = a THEN 0 ELSE held[c]]
    /\ Goto(a, "look")
    /\ UNCHANGED <<art, failure, screen>>

\* The cell counts as done; the next one of the arm, or the screen receipt.
NextCell(a, execution) ==
    LET left == {c \in CellsOf(a) : c > at[a]} IN
    /\ held' = [held EXCEPT ![at[a]] = execution]
    /\ IF left = {} THEN Goto(a, "screen") /\ UNCHANGED at
                    ELSE Goto(a, "look") /\ at' = [at EXCEPT ![a] = FirstOf(left)]

\* MUTANT of CellFailed: a failed cell is retried.
RetryFailed(a) ==
    /\ pc[a] = "look" /\ at[a] \in failure
    /\ Goto(a, "execute")
    /\ UNCHANGED <<art, failure, screen, at, held, starts>>

\* A cell with a failure sidecar needs a fresh attempt.
CellFailed(a) ==
    /\ pc[a] = "look" /\ at[a] \in failure
    /\ Goto(a, "raised")
    /\ UNCHANGED <<art, failure, screen, at, held, starts>>

\* Some files of the cell are there and some are not.
CellPartial(a) ==
    /\ pc[a] = "look" /\ at[a] \notin failure
    /\ Present(at[a]) \notin {{}, Roles}
    /\ Goto(a, "move")
    /\ UNCHANGED <<art, failure, screen, at, held, starts>>

\* MUTANT of ArchivePartial: the metrics are left where they are.
ArchiveAllButMetrics(a) ==
    LET c == at[a] IN
    /\ pc[a] = "move"
    /\ IF Present(c) \ {3} # {}
       THEN /\ art' = [art EXCEPT ![c][FirstOf(Present(c) \ {3})] = 0]
            /\ UNCHANGED pc
       ELSE /\ Goto(a, "execute")
            /\ UNCHANGED art
    /\ UNCHANGED <<failure, screen, at, held, starts>>

\* _archive_partial_cell moves one file after the other out of the way, into
\* a new directory each time.
ArchivePartial(a) ==
    LET c == at[a] IN
    /\ pc[a] = "move"
    /\ IF Present(c) # {}
       THEN /\ art' = [art EXCEPT ![c][FirstOf(Present(c))] = 0]
            /\ UNCHANGED pc
       ELSE /\ Goto(a, "execute")
            /\ UNCHANGED art
    /\ UNCHANGED <<failure, screen, at, held, starts>>

\* MUTANT of CellPresent: a cell with a ranking and a receipt is kept.
KeepReceipt(a) ==
    /\ pc[a] = "look" /\ at[a] \notin failure /\ {1, 2} \subseteq Present(at[a])
    /\ IF art[at[a]][1] = art[at[a]][2]
       THEN NextCell(a, art[at[a]][1])
       ELSE Goto(a, "conflict") /\ UNCHANGED <<at, held>>
    /\ UNCHANGED <<art, failure, screen, starts>>

\* A cell that is there is validated and kept.
CellPresent(a) ==
    /\ pc[a] = "look" /\ at[a] \notin failure /\ Present(at[a]) = Roles
    /\ IF Whole(art[at[a]])
       THEN NextCell(a, art[at[a]][1])
       ELSE Goto(a, "conflict") /\ UNCHANGED <<at, held>>
    /\ UNCHANGED <<art, failure, screen, starts>>

CellAbsent(a) ==
    /\ pc[a] = "look" /\ at[a] \notin failure /\ Present(at[a]) = {}
    /\ Goto(a, "execute")
    /\ UNCHANGED <<art, failure, screen, at, held, starts>>

\* The inputs are materialized and the executor runs.  Its failure leaves a
\* sidecar, a failure before or after it does not.
Execute(a) ==
    /\ pc[a] = "execute"
    /\ \/ Goto(a, "write") /\ UNCHANGED failure
       \/ Goto(a, "raised") /\ failure' \in {failure, failure \cup {at[a]}}
    /\ UNCHANGED <<art, screen, at, held, starts>>

\* The files are written in the order of Roles, each unless another one is in
\* its place.
WriteFile(a) ==
    LET c == at[a]
        missing == {i \in Roles : art[c][i] # starts[a]}
        i == FirstOf(missing) IN
    /\ pc[a] = "write"
    /\ IF art[c][i] # 0
       THEN Goto(a, "conflict") /\ UNCHANGED <<art, at, held>>
       ELSE /\ art' = [art EXCEPT ![c][i] = starts[a]]
            /\ IF missing = {i} THEN NextCell(a, starts[a]) ELSE UNCHANGED <<pc, at, held>>
    /\ UNCHANGED <<failure, screen, starts>>

\* screen.json of the cells gone through; one that is there must be the same.
WriteScreen(a) ==
    LET summary == [c \in CellsOf(a) |-> held[c]] IN
    /\ pc[a] = "screen"
    /\ IF screen[a] \in {NoScreen, summary}
       THEN screen' = [screen EXCEPT ![a] = summary] /\ Goto(a, "pass")
       ELSE Goto(a, "conflict") /\ UNCHANGED screen
    /\ UNCHANGED <<art, failure, at, held, starts>>

ProcessLoss(a) ==
    /\ pc[a] \notin Ended
    /\ Goto(a, "lost")
    /\ UNCHANGED <<art, failure, screen, at, held, starts>>

RunnerStep(a) ==
    \/ CellFailed(a) \/ CellPartial(a) \/ ArchivePartial(a) \/ CellPresent(a)
    \/ CellAbsent(a) \/ Execute(a) \/ WriteFile(a) \/ WriteScreen(a)

-----------------------------------------------------------------------------
\* Whatever process losses came before, also during the archiving of a partial
\* cell, a rerun never meets a file it cannot validate or replace: the only
\* cell that stops it for good is one whose executor failed.
NoConflict == \A a \in Arms : pc[a] # "conflict"

\* A screen receipt, once written, is about the files that are there, and they
\* are whole; so the arm can be merged at any later time.
ScreenIsTrue ==
    \A a \in Arms : screen[a] # NoScreen =>
        \A c \in CellsOf(a) : Whole(art[c]) /\ screen[a][c] = art[c][1]

\* A cell is settled once: committed with four files of one execution that no
\* rerun touches, or failed, which no rerun retries.
CellFate(c) == INSTANCE CandidateFate WITH
    fate <- IF Whole(art[c]) THEN "recorded" ELSE IF c \in failure THEN "lost" ELSE "open"
CellSettledOnce ==
    /\ \A c \in Cells : CellFate(c)!Init
    /\ [][\A c \in Cells : CellFate(c)!Step]_screenVars

=============================================================================
