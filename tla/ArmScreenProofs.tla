--------------------------- MODULE ArmScreenProofs ---------------------------
(***************************************************************************)
(* What the screens of the arms keep true, for any arms, cells and numbers *)
(* of starts.  These are lemmas about the steps of ArmScreen; the theorems *)
(* about a whole attempt, which follow from them, are in                   *)
(* ScreenAttemptProofs.                                                    *)
(***************************************************************************)
EXTENDS ArmScreen, WellFoundedInduction, TLAPS

LEMMA LessIsWellFounded ==
    \E R : IsWellFoundedOn(R, Nat) /\ \A m, n \in Nat : m < n => <<m, n>> \in R
<1>1. \A m, n \in Nat : m < n => <<m, n>> \in OpToRel(<, Nat)
  BY Zenon DEF OpToRel
<1> QED
  BY <1>1, NatLessThanWellFounded, Zenon

\* A set of cells or of files has a first element.
LEMMA FirstIsFirst ==
    ASSUME NEW S, S \subseteq Nat, S # {}
    PROVE  FirstOf(S) \in S /\ \A d \in S : FirstOf(S) <= d
<1>1. PICK R : IsWellFoundedOn(R, Nat) /\ \A m, n \in Nat : m < n => <<m, n>> \in R
  BY LessIsWellFounded, Zenon
<1>2. PICK c \in S : \A d \in S : ~ (<<d, c>> \in R)
  BY <1>1, WFMin, Zenon
<1>3. ASSUME NEW d \in S
      PROVE  c <= d
  <2>1. c \in Nat /\ d \in Nat
    OBVIOUS
  <2>2. ~ (d < c)
    BY <1>1, <1>2, <2>1, Zenon
  <2> QED
    BY <2>1, <2>2
<1> QED
  BY <1>2, <1>3 DEF FirstOf

LEMMA CellFacts ==
    /\ Cells \subseteq Nat
    /\ \A a \in Arms : CellsOf(a) \subseteq Cells /\ CellsOf(a) # {}
    /\ \A a \in Arms : \A c \in CellsOf(a) : ArmOf[c] = a
    /\ \A c \in Cells : ArmOf[c] \in Arms /\ c \in CellsOf(ArmOf[c])
BY CellCountOK, ArmOfOK, ArmsHaveCells DEF Cells, CellsOf

LEMMA RoleFacts == Roles = {1, 2, 3, 4} /\ Roles \subseteq Nat
BY DEF Roles


-----------------------------------------------------------------------------
(***************************************************************************)
(* The inductive invariant.                                                *)
(***************************************************************************)
Busy == {"look", "move", "execute", "write", "screen"}

Empty(c) == \A i \in Roles : art[c][i] = 0
Full(c) == \A i \in Roles : art[c][i] # 0

Shape ==
    /\ art \in [Cells -> [Roles -> 0..MaxStarts]]
    /\ failure \in SUBSET Cells
    /\ pc \in [Arms -> Locations]
    /\ at \in [Arms -> Cells]
    /\ held \in [Cells -> 0..MaxStarts]
    /\ starts \in [Arms -> 0..MaxStarts]
    /\ \A a \in Arms : ArmOf[at[a]] = a
    /\ screen = [a \in Arms |-> screen[a]]

\* What the process of an arm knows of the files of its current cell.
AtCell(a) ==
    /\ pc[a] \in Busy => starts[a] # 0
    /\ pc[a] \in {"move", "execute", "write"} => at[a] \notin failure
    /\ pc[a] = "move" => ~ Full(at[a])
    /\ pc[a] = "execute" => Empty(at[a])
    /\ pc[a] = "write" => /\ ~ Full(at[a])
                          /\ \A i \in Roles : art[at[a]][i] \in {0, starts[a]}

\* The cells it has gone through are whole, and it holds what they are.
Passed(a, c) == (pc[a] \in Busy /\ c < at[a]) \/ pc[a] = "screen"
GoneThrough(a) ==
    \A c \in CellsOf(a) : Passed(a, c) => Whole(art[c]) /\ held[c] = art[c][1]

\* A cell with four files is whole, and one that failed has none.
Files(a) ==
    \A c \in CellsOf(a) : /\ Full(c) => Whole(art[c])
                          /\ c \in failure => Empty(c)

\* A screen receipt is about the files that are there.
Receipt(a) ==
    /\ screen[a] \in {NoScreen} \cup [CellsOf(a) -> 0..MaxStarts]
    /\ screen[a] # NoScreen =>
         \A c \in CellsOf(a) : Whole(art[c]) /\ screen[a][c] = art[c][1]

ArmInv(a) ==
    AtCell(a) /\ GoneThrough(a) /\ Files(a) /\ Receipt(a) /\ pc[a] # "conflict"

ScreenInv == Shape /\ \A a \in Arms : ArmInv(a)

\* What a step leaves alone of an arm that it is not about.
Untouched(a) ==
    /\ pc'[a] = pc[a] /\ at'[a] = at[a] /\ starts'[a] = starts[a] /\ screen'[a] = screen[a]
    /\ \A c \in CellsOf(a) : /\ art'[c] = art[c] /\ held'[c] = held[c]
                             /\ c \in failure' <=> c \in failure

\* What a step may do to the fate of the cells.
Settled ==
    \A c \in Cells : /\ Whole(art[c]) => art'[c] = art[c]
                     /\ c \in failure => c \in failure' /\ ~ Whole(art'[c])

-----------------------------------------------------------------------------
(***************************************************************************)
(* Files.                                                                  *)
(***************************************************************************)
LEMMA PresentFacts ==
    ASSUME NEW c \in Cells
    PROVE  /\ Present(c) \subseteq Roles
           /\ Present(c) = Roles <=> Full(c)
           /\ Present(c) = {} <=> Empty(c)
           /\ Present(c) # {} => FirstOf(Present(c)) \in Present(c)
<1>1. /\ Present(c) \subseteq Roles
      /\ Present(c) = Roles <=> Full(c)
      /\ Present(c) = {} <=> Empty(c)
  BY DEF Present, Full, Empty
<1> QED
  BY <1>1, FirstIsFirst, RoleFacts

LEMMA WholeIsFull ==
    ASSUME NEW c \in Cells, Whole(art[c])
    PROVE  Full(c) /\ \A i \in Roles : art[c][i] = art[c][1]
BY RoleFacts DEF Whole, Full

\* One file of one cell is written, or moved away.
Put(c, i, x) == art' = [art EXCEPT ![c][i] = x]

LEMMA OneFile ==
    ASSUME Shape, NEW c \in Cells, NEW i \in Roles, NEW x \in 0..MaxStarts,
           Put(c, i, x)
    PROVE  /\ art' \in [Cells -> [Roles -> 0..MaxStarts]]
           /\ art'[c][i] = x
           /\ \A j \in Roles : j # i => art'[c][j] = art[c][j]
           /\ \A d \in Cells : d # c => art'[d] = art[d]
BY DEF Shape, Put

\* The first cell of an arm is one of its cells, with none before it.
LEMMA FirstCell ==
    ASSUME NEW a \in Arms
    PROVE  /\ FirstOf(CellsOf(a)) \in Cells /\ ArmOf[FirstOf(CellsOf(a))] = a
           /\ \A c \in CellsOf(a) : ~ (c < FirstOf(CellsOf(a)))
<1>1. CellsOf(a) \subseteq Nat /\ CellsOf(a) # {}
  BY CellFacts
<1>2. FirstOf(CellsOf(a)) \in CellsOf(a) /\ \A c \in CellsOf(a) : FirstOf(CellsOf(a)) <= c
  BY <1>1, FirstIsFirst
<1>3. \A c \in CellsOf(a) : ~ (c < FirstOf(CellsOf(a)))
  BY <1>1, <1>2
<1> QED
  BY <1>2, <1>3, CellFacts

\* So has the rest of them, and it follows on the cells before.
LEMMA RestCell ==
    ASSUME Shape, NEW a \in Arms,
           NEW left, left = {c \in CellsOf(a) : c > at[a]}, left # {}
    PROVE  /\ FirstOf(left) \in Cells /\ ArmOf[FirstOf(left)] = a
           /\ \A c \in CellsOf(a) : c < FirstOf(left) => c = at[a] \/ c < at[a]
<1>1. left \subseteq CellsOf(a) /\ left \subseteq Nat
  BY CellFacts
<1>2. FirstOf(left) \in left /\ \A c \in left : FirstOf(left) <= c
  BY <1>1, FirstIsFirst
<1>3. ASSUME NEW c \in CellsOf(a), c < FirstOf(left)
      PROVE  c = at[a] \/ c < at[a]
  <2>1. c \in Nat /\ at[a] \in Nat /\ FirstOf(left) \in Nat
    BY <1>1, <1>2, CellFacts DEF Shape
  <2>2. ~ (c > at[a])
    BY <1>2, <1>3, <2>1
  <2> QED
    BY <2>1, <2>2
<1> QED
  BY <1>1, <1>2, <1>3, CellFacts

-----------------------------------------------------------------------------
(***************************************************************************)
(* The steps of one process keep the invariant.                            *)
(***************************************************************************)
LEMMA UntouchedKeeps ==
    ASSUME Shape, NEW a \in Arms, ArmInv(a), Untouched(a)
    PROVE  ArmInv(a)'
<1>1. at[a] \in CellsOf(a)
  BY CellFacts DEF Shape
<1> QED
  BY <1>1 DEF ArmInv, Untouched, AtCell, GoneThrough, Passed, Files, Receipt, Full, Empty, Whole

LEMMA OneArm ==
    ASSUME ScreenInv, NEW a \in Arms, Shape', ArmInv(a)',
           \A b \in Arms : b # a => Untouched(b)
    PROVE  ScreenInv'
BY UntouchedKeeps DEF ScreenInv

\* A step that only moves the process on, to a place it knows enough for.
LEMMA OnlyMoves ==
    ASSUME ScreenInv, NEW a \in Arms, NEW where \in Locations, Goto(a, where),
           UNCHANGED <<art, failure, screen, at, held, starts>>,
           ArmInv(a)'
    PROVE  ScreenInv' /\ Settled
<1>1. Shape'
  BY DEF ScreenInv, Shape, Goto
<1>2. \A b \in Arms : b # a => Untouched(b)
  BY DEF ScreenInv, Shape, Goto, Untouched
<1>3. Settled
  <2>1. \A c \in failure : ~ Whole(art[c])
    BY CellFacts, RoleFacts DEF ScreenInv, Shape, ArmInv, Files, Empty, Whole
  <2> QED
    BY <2>1 DEF Settled
<1> QED
  BY <1>1, <1>2, <1>3, OneArm

LEMMA LookKeeps ==
    ASSUME ScreenInv, NEW a \in Arms,
           CellFailed(a) \/ CellPartial(a) \/ CellAbsent(a)
    PROVE  ScreenInv' /\ Settled
<1>1. at[a] \in CellsOf(a) /\ at[a] \in Cells
  BY CellFacts DEF ScreenInv, Shape
<1>2. Shape /\ ArmInv(a)
  BY DEF ScreenInv
<1>3. CASE CellFailed(a)
  <2>1. ArmInv(a)'
    BY <1>1, <1>2, <1>3 DEF CellFailed, Goto, Shape, ArmInv, AtCell, GoneThrough, Passed, Files,
                            Receipt, Full, Empty, Whole, Busy
  <2> QED
    BY <1>3, <2>1, OnlyMoves DEF CellFailed, Locations, Ended
<1>4. CASE CellPartial(a)
  <2>1. ~ Full(at[a])
    BY <1>1, <1>4, PresentFacts DEF CellPartial
  <2>2. ArmInv(a)'
    BY <1>1, <1>2, <1>4, <2>1 DEF CellPartial, Goto, Shape, ArmInv, AtCell, GoneThrough, Passed,
                                  Files, Receipt, Full, Empty, Whole, Busy
  <2> QED
    BY <1>4, <2>2, OnlyMoves DEF CellPartial, Locations
<1>5. CASE CellAbsent(a)
  <2>1. Empty(at[a])
    BY <1>1, <1>5, PresentFacts DEF CellAbsent
  <2>2. ArmInv(a)'
    BY <1>1, <1>2, <1>5, <2>1 DEF CellAbsent, Goto, Shape, ArmInv, AtCell, GoneThrough, Passed,
                                  Files, Receipt, Full, Empty, Whole, Busy
  <2> QED
    BY <1>5, <2>2, OnlyMoves DEF CellAbsent, Locations
<1> QED
  BY <1>3, <1>4, <1>5

LEMMA LossKeeps ==
    ASSUME ScreenInv, NEW a \in Arms, ProcessLoss(a)
    PROVE  ScreenInv' /\ Settled
<1>1. at[a] \in CellsOf(a) /\ at[a] \in Cells
  BY CellFacts DEF ScreenInv, Shape
<1>2. ArmInv(a)'
  BY <1>1 DEF ScreenInv, ProcessLoss, Goto, Shape, ArmInv, AtCell, GoneThrough, Passed, Files,
              Receipt, Full, Empty, Whole, Busy
<1> QED
  BY <1>2, OnlyMoves DEF ProcessLoss, Locations, Ended

\* No cell that failed is whole.
LEMMA FailedIsNotWhole ==
    ASSUME ScreenInv, NEW c \in failure
    PROVE  ~ Whole(art[c])
BY CellFacts, RoleFacts DEF ScreenInv, Shape, ArmInv, Files, Empty, Whole

LEMMA ExecuteKeeps ==
    ASSUME ScreenInv, NEW a \in Arms, Execute(a)
    PROVE  ScreenInv' /\ Settled
<1>1. at[a] \in CellsOf(a) /\ at[a] \in Cells
  BY CellFacts DEF ScreenInv, Shape
<1>2. Shape /\ ArmInv(a) /\ starts[a] # 0 /\ Empty(at[a]) /\ at[a] \notin failure
  BY DEF ScreenInv, ArmInv, AtCell, Execute, Busy
<1>3. failure' \in {failure, failure \cup {at[a]}}
  BY DEF Execute
<1>4. Shape'
  BY <1>1, <1>2 DEF Execute, Goto, Shape, Locations, Ended
<1>5. \A b \in Arms : b # a => Untouched(b)
  <2>1. \A b \in Arms : b # a => at[a] \notin CellsOf(b)
    BY CellFacts, <1>1
  <2> QED
    BY <1>2, <1>3, <2>1 DEF Execute, Goto, Shape, Untouched
<1>6. ~ Full(at[a])
  BY <1>2, RoleFacts DEF Empty, Full
<1>7. AtCell(a)'
  BY <1>1, <1>2, <1>6 DEF Execute, Goto, Shape, AtCell, Full, Empty, Busy
<1>8. GoneThrough(a)' /\ Receipt(a)' /\ (pc[a] # "conflict")'
  BY <1>1, <1>2 DEF Execute, Goto, Shape, ArmInv, GoneThrough, Passed, Receipt, Whole, Busy
<1>9. Files(a)'
  BY <1>1, <1>2, <1>3 DEF Execute, ArmInv, Files, Full, Empty, Whole
<1>10. Settled
  <2>1. ~ Whole(art[at[a]])
    BY <1>1, <1>6, WholeIsFull
  <2> QED
    BY <1>3, <2>1, FailedIsNotWhole DEF Execute, Settled
<1> QED
  BY <1>4, <1>5, <1>7, <1>8, <1>9, <1>10, OneArm DEF ArmInv

\* A step that changes one file of the current cell, which is not whole.
LEMMA OtherCells ==
    ASSUME ScreenInv, NEW a \in Arms, NEW i \in Roles, NEW x \in 0..MaxStarts,
           at[a] \notin failure, ~ Whole(art[at[a]]),
           Put(at[a], i, x), failure' = failure
    PROVE  /\ art' \in [Cells -> [Roles -> 0..MaxStarts]]
           /\ art'[at[a]][i] = x
           /\ \A j \in Roles : j # i => art'[at[a]][j] = art[at[a]][j]
           /\ \A c \in Cells : c # at[a] => art'[c] = art[c]
           /\ \A b \in Arms : b # a => \A c \in CellsOf(b) : art'[c] = art[c]
           /\ Settled
<1>1. at[a] \in CellsOf(a) /\ at[a] \in Cells /\ Shape
  BY CellFacts DEF ScreenInv, Shape
<1>2. /\ art' \in [Cells -> [Roles -> 0..MaxStarts]]
      /\ art'[at[a]][i] = x
      /\ \A j \in Roles : j # i => art'[at[a]][j] = art[at[a]][j]
      /\ \A c \in Cells : c # at[a] => art'[c] = art[c]
  BY <1>1, OneFile
<1>3. \A b \in Arms : b # a => \A c \in CellsOf(b) : art'[c] = art[c]
  BY <1>1, <1>2, CellFacts
<1>4. Settled
  BY <1>2, FailedIsNotWhole DEF Settled
<1> QED
  BY <1>2, <1>3, <1>4

LEMMA ArchiveKeeps ==
    ASSUME ScreenInv, NEW a \in Arms, ArchivePartial(a)
    PROVE  ScreenInv' /\ Settled
<1>1. at[a] \in CellsOf(a) /\ at[a] \in Cells
  BY CellFacts DEF ScreenInv, Shape
<1>2. Shape /\ ArmInv(a) /\ starts[a] # 0 /\ ~ Full(at[a]) /\ at[a] \notin failure
  BY DEF ScreenInv, ArmInv, AtCell, ArchivePartial, Busy
<1>3. ~ Whole(art[at[a]])
  BY <1>1, <1>2, WholeIsFull
<1>4. CASE Present(at[a]) = {}
  <2>1. Empty(at[a])
    BY <1>1, <1>4, PresentFacts
  <2>2. ArmInv(a)'
    BY <1>1, <1>2, <1>4, <2>1 DEF ArchivePartial, Goto, Shape, ArmInv, AtCell, GoneThrough,
       Passed, Files, Receipt, Full, Empty, Whole, Busy
  <2> QED
    BY <1>4, <2>2, OnlyMoves DEF ArchivePartial, Locations
<1>5. CASE Present(at[a]) # {}
  <2> DEFINE i == FirstOf(Present(at[a]))
  <2>1. i \in Roles /\ 0 \in 0..MaxStarts
    BY <1>1, <1>5, PresentFacts, MaxStartsOK
  <2>2. Put(at[a], i, 0)
        /\ failure' = failure
        /\ UNCHANGED <<pc, screen, at, held, starts>>
    BY <1>5 DEF ArchivePartial, Put
  <2> HIDE DEF i
  <2>3. /\ art' \in [Cells -> [Roles -> 0..MaxStarts]]
        /\ art'[at[a]][i] = 0
        /\ \A c \in Cells : c # at[a] => art'[c] = art[c]
        /\ \A b \in Arms : b # a => \A c \in CellsOf(b) : art'[c] = art[c]
        /\ Settled
    BY <1>2, <1>3, <2>1, <2>2, OtherCells
  <2>4. Shape'
    BY <1>2, <2>2, <2>3 DEF Shape
  <2>5. \A b \in Arms : b # a => Untouched(b)
    BY <2>2, <2>3 DEF Untouched
  <2>6. ~ Full(at[a])'
    BY <2>1, <2>2, <2>3 DEF Full
  <2>7. \A c \in CellsOf(a) : Whole(art[c]) => art'[c] = art[c]
    BY <1>3, <2>3, CellFacts
  <2>8. AtCell(a)' /\ (pc[a] # "conflict")'
    BY <1>2, <2>2, <2>6 DEF ArchivePartial, AtCell, Full, ArmInv, Busy
  <2>9. GoneThrough(a)' /\ Receipt(a)'
    BY <1>2, <2>2, <2>7 DEF ArmInv, GoneThrough, Passed, Receipt, Whole
  <2>10. Files(a)'
    <3>1. ASSUME NEW c \in CellsOf(a), c # at[a]
          PROVE  (Full(c) => Whole(art[c]))' /\ (c \in failure => Empty(c))'
      <4>1. art'[c] = art[c] /\ failure' = failure
        BY <2>2, <2>3, <3>1, CellFacts
      <4>2. (Full(c) => Whole(art[c])) /\ (c \in failure => Empty(c))
        BY <1>2 DEF ArmInv, Files
      <4> QED
        BY <4>1, <4>2 DEF Full, Empty, Whole
    <3> QED
      BY <1>2, <2>2, <2>6, <3>1 DEF Files
  <2> QED
    BY <2>3, <2>4, <2>5, <2>8, <2>9, <2>10, OneArm DEF ArmInv
<1> QED
  BY <1>4, <1>5

\* The current cell is whole now, so the process may go on to the next one.
LEMMA NextCellKeeps ==
    ASSUME ScreenInv, NEW a \in Arms, pc[a] \in Busy, starts' = starts,
           \A c \in CellsOf(a) : c # at[a] /\ Whole(art[c]) => art'[c] = art[c],
           Whole(art'[at[a]]), art'[at[a]][1] \in 0..MaxStarts,
           NextCell(a, art'[at[a]][1])
    PROVE  /\ pc' \in [Arms -> Locations] /\ at' \in [Arms -> Cells]
           /\ held' \in [Cells -> 0..MaxStarts]
           /\ \A b \in Arms : ArmOf[at'[b]] = b
           /\ \A b \in Arms : b # a => pc'[b] = pc[b] /\ at'[b] = at[b]
           /\ \A b \in Arms : b # a => \A c \in CellsOf(b) : held'[c] = held[c]
           /\ pc'[a] \in {"look", "screen"}
           /\ AtCell(a)' /\ GoneThrough(a)'
<1> DEFINE left == {c \in CellsOf(a) : c > at[a]}
<1> DEFINE n == art'[at[a]][1]
<1>1. at[a] \in CellsOf(a) /\ at[a] \in Cells /\ Shape /\ ArmInv(a)
  BY CellFacts DEF ScreenInv, Shape
<1>0. at[a] \in Nat /\ CellsOf(a) \subseteq Nat
  BY <1>1, CellFacts
<1>2. starts'[a] # 0
  BY <1>1 DEF ArmInv, AtCell
<1>3. /\ held' = [held EXCEPT ![at[a]] = n]
      /\ left = {} => pc' = [pc EXCEPT ![a] = "screen"] /\ at' = at
      /\ left # {} => pc' = [pc EXCEPT ![a] = "look"] /\ at' = [at EXCEPT ![a] = FirstOf(left)]
  BY DEF NextCell, Goto
<1>4. /\ held' \in [Cells -> 0..MaxStarts]
      /\ held'[at[a]] = n
      /\ \A c \in Cells : c # at[a] => held'[c] = held[c]
  BY <1>1, <1>3 DEF Shape
<1>5. \A b \in Arms : b # a => \A c \in CellsOf(b) : held'[c] = held[c]
  BY <1>1, <1>4, CellFacts
<1>6. \A c \in CellsOf(a) : c = at[a] \/ c < at[a] => Whole(art'[c]) /\ held'[c] = art'[c][1]
  <2>1. \A c \in CellsOf(a) : c < at[a] => Whole(art[c]) /\ held[c] = art[c][1]
    BY <1>1 DEF ArmInv, GoneThrough, Passed
  <2>2. \A c \in CellsOf(a) : c < at[a] => c # at[a]
    BY <1>0
  <2> QED
    BY <1>4, <2>1, <2>2, CellFacts
<1>7. CASE left = {}
  <2>1. pc' = [pc EXCEPT ![a] = "screen"] /\ at' = at
    BY <1>3, <1>7
  <2>2. \A c \in CellsOf(a) : c = at[a] \/ c < at[a]
    BY <1>0, <1>7
  <2> HIDE DEF left
  <2>3. /\ pc' \in [Arms -> Locations] /\ at' \in [Arms -> Cells] /\ pc'[a] = "screen"
        /\ \A b \in Arms : ArmOf[at'[b]] = b
        /\ \A b \in Arms : b # a => pc'[b] = pc[b] /\ at'[b] = at[b]
    BY <1>1, <2>1 DEF Shape, Locations
  <2>4. AtCell(a)' /\ GoneThrough(a)'
    BY <1>2, <1>6, <2>2, <2>3 DEF AtCell, GoneThrough
  <2> QED
    BY <1>4, <1>5, <2>3, <2>4
<1>8. CASE left # {}
  <2>1. pc' = [pc EXCEPT ![a] = "look"] /\ at' = [at EXCEPT ![a] = FirstOf(left)]
    BY <1>3, <1>8
  <2>2. /\ FirstOf(left) \in Cells /\ ArmOf[FirstOf(left)] = a
        /\ \A c \in CellsOf(a) : c < FirstOf(left) => c = at[a] \/ c < at[a]
    BY <1>1, <1>8, RestCell
  <2> HIDE DEF left
  <2>3. /\ pc' \in [Arms -> Locations] /\ at' \in [Arms -> Cells]
        /\ pc'[a] = "look" /\ at'[a] = FirstOf(left)
        /\ \A b \in Arms : ArmOf[at'[b]] = b
        /\ \A b \in Arms : b # a => pc'[b] = pc[b] /\ at'[b] = at[b]
    BY <1>1, <2>1, <2>2 DEF Shape, Locations
  <2>4. AtCell(a)' /\ GoneThrough(a)'
    BY <1>2, <1>6, <2>2, <2>3 DEF AtCell, GoneThrough, Passed
  <2> QED
    BY <1>4, <1>5, <2>3, <2>4
<1> QED
  BY <1>7, <1>8

LEMMA PresentKeeps ==
    ASSUME ScreenInv, NEW a \in Arms, CellPresent(a)
    PROVE  ScreenInv' /\ Settled
<1>1. at[a] \in CellsOf(a) /\ at[a] \in Cells /\ Shape /\ ArmInv(a) /\ pc[a] \in Busy
  BY CellFacts DEF ScreenInv, Shape, CellPresent, Busy
<1>2. Whole(art[at[a]])
  BY <1>1, PresentFacts DEF CellPresent, ArmInv, Files
<1>3. NextCell(a, art[at[a]][1]) /\ UNCHANGED <<art, failure, screen, starts>>
  BY <1>2 DEF CellPresent
<1>4. art[at[a]][1] \in 0..MaxStarts
  BY <1>1, RoleFacts DEF Shape
<1>5. /\ pc' \in [Arms -> Locations] /\ at' \in [Arms -> Cells]
      /\ held' \in [Cells -> 0..MaxStarts]
      /\ \A b \in Arms : ArmOf[at'[b]] = b
      /\ \A b \in Arms : b # a => pc'[b] = pc[b] /\ at'[b] = at[b]
      /\ \A b \in Arms : b # a => \A c \in CellsOf(b) : held'[c] = held[c]
      /\ pc'[a] \in {"look", "screen"}
      /\ AtCell(a)' /\ GoneThrough(a)'
  BY <1>1, <1>2, <1>3, <1>4, NextCellKeeps
<1>6. Shape'
  BY <1>1, <1>3, <1>5 DEF Shape
<1>7. \A b \in Arms : b # a => Untouched(b)
  BY <1>3, <1>5 DEF Untouched
<1>8. Files(a)' /\ Receipt(a)'
  BY <1>1, <1>3 DEF ArmInv, Files, Receipt, Full, Empty, Whole
<1>9. Settled
  BY <1>3, FailedIsNotWhole DEF Settled
<1> QED
  BY <1>5, <1>6, <1>7, <1>8, <1>9, OneArm DEF ArmInv

LEMMA WriteScreenKeeps ==
    ASSUME ScreenInv, NEW a \in Arms, WriteScreen(a)
    PROVE  ScreenInv' /\ Settled
<1> DEFINE summary == [c \in CellsOf(a) |-> held[c]]
<1>1. at[a] \in CellsOf(a) /\ at[a] \in Cells /\ Shape /\ ArmInv(a) /\ pc[a] = "screen"
  BY CellFacts DEF ScreenInv, Shape, WriteScreen
<1>2. \A c \in CellsOf(a) : Whole(art[c]) /\ held[c] = art[c][1]
  BY <1>1 DEF ArmInv, GoneThrough, Passed
<1>3. summary \in [CellsOf(a) -> 0..MaxStarts]
  BY <1>1, CellFacts DEF Shape
<1>4. screen[a] # NoScreen => screen[a] = summary
  <2>1. SUFFICES ASSUME screen[a] # NoScreen
                 PROVE  screen[a] = summary
    OBVIOUS
  <2>2. screen[a] \in [CellsOf(a) -> 0..MaxStarts]
    BY <1>1, <2>1 DEF ArmInv, Receipt
  <2>3. \A c \in CellsOf(a) : screen[a][c] = summary[c]
    BY <1>1, <1>2, <2>1 DEF ArmInv, Receipt
  <2> QED
    BY <1>3, <2>2, <2>3
<1>5. /\ screen' = [screen EXCEPT ![a] = summary] /\ pc' = [pc EXCEPT ![a] = "pass"]
      /\ UNCHANGED <<art, failure, at, held, starts>>
  BY <1>4 DEF WriteScreen, Goto
<1> HIDE DEF summary
<1>6. /\ screen' = [b \in Arms |-> screen'[b]] /\ screen'[a] = summary
      /\ \A b \in Arms : b # a => screen'[b] = screen[b]
  BY <1>1, <1>5 DEF Shape
<1>7. /\ pc' \in [Arms -> Locations] /\ pc'[a] = "pass"
      /\ \A b \in Arms : b # a => pc'[b] = pc[b]
  BY <1>1, <1>5 DEF Shape, Locations, Ended
<1>8. Shape'
  BY <1>1, <1>5, <1>6, <1>7 DEF Shape
<1>9. \A b \in Arms : b # a => Untouched(b)
  BY <1>5, <1>6, <1>7 DEF Untouched
<1>10. AtCell(a)' /\ GoneThrough(a)' /\ Files(a)' /\ (pc[a] # "conflict")'
  BY <1>1, <1>5, <1>7 DEF ArmInv, AtCell, GoneThrough, Passed, Files, Full, Empty, Whole, Busy
<1>11. Receipt(a)'
  BY <1>2, <1>3, <1>5, <1>6 DEF Receipt, summary, Whole
<1>12. Settled
  BY <1>5, FailedIsNotWhole DEF Settled
<1> QED
  BY <1>8, <1>9, <1>10, <1>11, <1>12, OneArm DEF ArmInv

LEMMA WriteKeeps ==
    ASSUME ScreenInv, NEW a \in Arms, WriteFile(a)
    PROVE  ScreenInv' /\ Settled
<1> DEFINE missing == {j \in Roles : art[at[a]][j] # starts[a]}
<1> DEFINE i == FirstOf(missing)
<1>1. /\ at[a] \in CellsOf(a) /\ at[a] \in Cells /\ Shape /\ ArmInv(a)
      /\ pc[a] = "write" /\ pc[a] \in Busy
  BY CellFacts DEF ScreenInv, Shape, WriteFile, Busy
<1>2. /\ starts[a] # 0 /\ starts[a] \in 0..MaxStarts /\ at[a] \notin failure /\ ~ Full(at[a])
      /\ \A j \in Roles : art[at[a]][j] \in {0, starts[a]}
  BY <1>1 DEF ArmInv, AtCell, Shape
<1>3. missing # {}
  BY <1>2 DEF Full
<1>4. i \in missing
  BY <1>3, FirstIsFirst, RoleFacts
<1>5. i \in Roles /\ art[at[a]][i] = 0
  BY <1>2, <1>4
<1>6. /\ Put(at[a], i, starts[a])
      /\ IF missing = {i} THEN NextCell(a, starts[a]) ELSE UNCHANGED <<pc, at, held>>
      /\ UNCHANGED <<screen, starts>>
      /\ failure' = failure
  BY <1>5 DEF WriteFile, Put
<1>7. ~ Whole(art[at[a]])
  BY <1>1, <1>2, WholeIsFull
<1>8. \A j \in Roles : j \notin missing => art[at[a]][j] = starts[a]
  OBVIOUS
<1> HIDE DEF i
<1>9. /\ art' \in [Cells -> [Roles -> 0..MaxStarts]]
      /\ art'[at[a]][i] = starts[a]
      /\ \A j \in Roles : j # i => art'[at[a]][j] = art[at[a]][j]
      /\ \A c \in Cells : c # at[a] => art'[c] = art[c]
      /\ \A b \in Arms : b # a => \A c \in CellsOf(b) : art'[c] = art[c]
      /\ Settled
  BY <1>2, <1>5, <1>6, <1>7, OtherCells
<1>10. \A c \in CellsOf(a) : c # at[a] => art'[c] = art[c]
  BY <1>9, CellFacts
<1>11. Receipt(a)'
  <2>1. \A c \in CellsOf(a) : Whole(art[c]) => art'[c] = art[c]
    BY <1>7, <1>10
  <2> QED
    BY <1>1, <1>6, <2>1 DEF ArmInv, Receipt
<1>12. CASE missing = {i}
  <2>1. Whole(art'[at[a]]) /\ art'[at[a]][1] = starts[a]
    <3>1. \A j \in Roles : art'[at[a]][j] = starts[a]
      BY <1>8, <1>9, <1>12
    <3> QED
      BY <1>2, <3>1, RoleFacts DEF Whole
  <2>2. NextCell(a, art'[at[a]][1])
    BY <1>6, <1>12, <2>1
  <2>3. \A c \in CellsOf(a) : c # at[a] /\ Whole(art[c]) => art'[c] = art[c]
    BY <1>10
  <2>4. starts' = starts
    BY <1>6
  <2>5. art'[at[a]][1] \in 0..MaxStarts
    BY <1>2, <2>1
  <2>6. /\ pc' \in [Arms -> Locations] /\ at' \in [Arms -> Cells]
        /\ held' \in [Cells -> 0..MaxStarts]
        /\ \A b \in Arms : ArmOf[at'[b]] = b
        /\ \A b \in Arms : b # a => pc'[b] = pc[b] /\ at'[b] = at[b]
        /\ \A b \in Arms : b # a => \A c \in CellsOf(b) : held'[c] = held[c]
        /\ pc'[a] \in {"look", "screen"}
        /\ AtCell(a)' /\ GoneThrough(a)'
    BY <1>1, <2>1, <2>2, <2>3, <2>4, <2>5, NextCellKeeps
  <2>7. Shape'
    BY <1>1, <1>6, <1>9, <2>6 DEF Shape
  <2>8. \A b \in Arms : b # a => Untouched(b)
    BY <1>6, <1>9, <2>6 DEF Untouched
  <2>9. Files(a)'
    BY <1>1, <1>2, <1>6, <1>10, <2>1 DEF ArmInv, Files, Full, Empty
  <2> QED
    BY <1>9, <1>11, <2>6, <2>7, <2>8, <2>9, OneArm DEF ArmInv
<1>13. CASE missing # {i}
  <2>1. UNCHANGED <<pc, at, held>>
    BY <1>6, <1>13
  <2>2. PICK j \in missing : j # i
    BY <1>4, <1>13 DEF i
  <2>3. j \in Roles /\ art'[at[a]][j] = 0
    BY <1>2, <1>9, <2>2
  <2>4. ~ Full(at[a])' /\ \A k \in Roles : art'[at[a]][k] \in {0, starts[a]}
    BY <1>2, <1>9, <2>1, <2>3 DEF Full
  <2>5. Shape'
    BY <1>1, <1>6, <1>9, <2>1 DEF Shape
  <2>6. \A b \in Arms : b # a => Untouched(b)
    BY <1>6, <1>9, <2>1 DEF Untouched
  <2>7. AtCell(a)' /\ (pc[a] # "conflict")'
    BY <1>1, <1>2, <1>6, <2>1, <2>4 DEF AtCell, Full
  <2>8. GoneThrough(a)'
    <3>1. \A c \in CellsOf(a) : Whole(art[c]) => art'[c] = art[c]
      BY <1>7, <1>10
    <3> QED
      BY <1>1, <2>1, <3>1 DEF ArmInv, GoneThrough, Passed
  <2>9. Files(a)'
    BY <1>1, <1>2, <1>6, <1>10, <2>1, <2>4 DEF ArmInv, Files, Full, Empty
  <2> QED
    BY <1>9, <1>11, <2>5, <2>6, <2>7, <2>8, <2>9, OneArm DEF ArmInv
<1> QED
  BY <1>12, <1>13

LEMMA BeginKeeps ==
    ASSUME ScreenInv, NEW a \in Arms, Begin(a)
    PROVE  ScreenInv' /\ Settled
<1>1. at[a] \in CellsOf(a) /\ at[a] \in Cells /\ Shape /\ ArmInv(a)
  BY CellFacts DEF ScreenInv, Shape
<1>2. /\ starts'[a] # 0 /\ starts' \in [Arms -> 0..MaxStarts]
      /\ \A b \in Arms : b # a => starts'[b] = starts[b]
  BY <1>1, MaxStartsOK DEF Begin, Shape
<1>3. /\ at' \in [Arms -> Cells] /\ at'[a] = FirstOf(CellsOf(a))
      /\ \A b \in Arms : ArmOf[at'[b]] = b
      /\ \A b \in Arms : b # a => at'[b] = at[b]
  BY <1>1, FirstCell DEF Begin, Shape
<1>4. /\ pc' \in [Arms -> Locations] /\ pc'[a] = "look"
      /\ \A b \in Arms : b # a => pc'[b] = pc[b]
  BY <1>1 DEF Begin, Goto, Shape, Locations
<1>5. /\ held' \in [Cells -> 0..MaxStarts]
      /\ \A b \in Arms : b # a => \A c \in CellsOf(b) : held'[c] = held[c]
  BY <1>1, CellFacts, MaxStartsOK DEF Begin, Shape
<1>6. UNCHANGED <<art, failure, screen>>
  BY DEF Begin
<1>7. Shape'
  BY <1>1, <1>2, <1>3, <1>4, <1>5, <1>6 DEF Shape
<1>8. \A b \in Arms : b # a => Untouched(b)
  BY <1>2, <1>3, <1>4, <1>5, <1>6 DEF Untouched
<1>9. AtCell(a)' /\ GoneThrough(a)' /\ (pc[a] # "conflict")'
  BY <1>2, <1>3, <1>4, FirstCell DEF AtCell, GoneThrough, Passed
<1>10. Files(a)' /\ Receipt(a)'
  BY <1>1, <1>6 DEF ArmInv, Files, Receipt, Full, Empty, Whole
<1>11. Settled
  BY <1>6, FailedIsNotWhole DEF Settled
<1> QED
  BY <1>7, <1>8, <1>9, <1>10, <1>11, OneArm DEF ArmInv

LEMMA RunnerKeeps ==
    ASSUME ScreenInv, NEW a \in Arms, RunnerStep(a) \/ ProcessLoss(a) \/ Begin(a)
    PROVE  ScreenInv' /\ Settled
BY LookKeeps, LossKeeps, ExecuteKeeps, ArchiveKeeps, PresentKeeps, WriteKeeps, WriteScreenKeeps,
   BeginKeeps DEF RunnerStep

LEMMA ScreenStarts == ScreenInit => ScreenInv
<1> SUFFICES ASSUME ScreenInit
             PROVE  ScreenInv
  OBVIOUS
<1>1. Shape
  BY FirstCell, MaxStartsOK DEF ScreenInit, Shape, NoFiles, Locations, Ended
<1>2. ASSUME NEW a \in Arms
      PROVE  ArmInv(a)
  BY <1>1, CellFacts, RoleFacts DEF ScreenInit, ArmInv, AtCell, GoneThrough, Passed, Files,
     Receipt, Full, Empty, NoFiles, Busy
<1> QED
  BY <1>1, <1>2 DEF ScreenInv

=============================================================================
