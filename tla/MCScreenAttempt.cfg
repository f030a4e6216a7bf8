CONSTANTS
    a1 = a1
    a2 = a2
    r1 = r1
    r2 = r2
    Arms = {a1, a2}
    CellCount = 4
    ArmOf <- MCArmOf
    LocalArm = a1
    MaxStarts = 3
    Roots = {r1, r2}
    MaxRuns = 2
SPECIFICATION Spec
CHECK_DEADLOCK FALSE
INVARIANTS
    NoConflict
    ScreenIsTrue
    MergedIsWhole
    OneRunCompletes
    ReturnBound
PROPERTIES
    CellSettledOnce
