CONSTANTS
    b = b
    c = c
    a = a
    w = w
    v = v
    Worker = w
    Verifiers = {}
    BaseOrder <- MCBaseOrder
    Batches <- MCBatches
    MaxFinalists = 2
    None = None
    MaxWorkers = 2
SPECIFICATION Spec
CHECK_DEADLOCK FALSE
INVARIANTS
    TypeOK
    AcceptedBacked
    ExposureBound
    ChildrenInHand
    PackageIsWhole
PROPERTIES
    BlockedStays
    ProgressKept
    WorkerEnds
    BarrierSpec
