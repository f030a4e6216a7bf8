CONSTANTS
    b = b
    c = c
    a = a
    w = w
    v = v
    Worker = w
    Verifiers = {v}
    BaseOrder <- MCBaselineAlone
    Batches <- MCBatches
    MaxFinalists = 1
    None = None
    MaxWorkers = 2
SPECIFICATION Spec
CHECK_DEADLOCK FALSE
PROPERTY
    BlockedIsFinal
