CONSTANTS
    c1 = c1
    c2 = c2
    c3 = c3
    c4 = c4
    CandidateIds = {c1, c2, c3, c4}
    Values <- MCValues
    None = None
    FrozenControls = 1
    Preregistered = 1
    MaxTotal = 4
    MaxAdaptive = 2
    MaxIterations = 1
    IterationSize = 2
    MaxFinalists = 2
    MaxBuilds = 6
    BuildCounts <- MCBuildCounts
    MinIterations = 1
    Patience = 1
    Reasons = {"owner_stop_after_checkpoint", "other"}
    StopReasons = {"owner_stop_after_checkpoint"}
    Tolerance = 1
SPECIFICATION Spec
SYMMETRY Sym
CHECK_DEADLOCK FALSE
INVARIANTS
    TypeOK
    ShortlistSound
    FailureStopsTheRun
    NoOpenIterationLeft
    RecordedBuildsInBudget
    ClosedIsComplete
PROPERTIES
    BaseFixedByCommitment
    BarrierSpec
