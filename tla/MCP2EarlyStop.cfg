CONSTANTS
    c1 = c1
    c2 = c2
    c3 = c3
    c4 = c4
    c5 = c5
    CandidateIds = {c1, c2, c3, c4, c5}
    Values <- MCValues
    None = None
    FrozenControls = 1
    Preregistered = 0
    MaxTotal = 5
    MaxAdaptive = 4
    MaxIterations = 4
    IterationSize = 1
    MaxFinalists = 2
    MaxBuilds = 5
    BuildCounts <- MCBuildCounts
    MinIterations = 3
    Patience = 1
    Reasons = {"owner_stop_after_checkpoint", "other"}
    StopReasons = {"owner_stop_after_checkpoint"}
    Tolerance = 1
SPECIFICATION Spec
SYMMETRY Sym
CHECK_DEADLOCK FALSE
INVARIANTS
    EarlyStopMatchesHistory
