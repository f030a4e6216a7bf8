CONSTANTS
    w1 = w1
    w2 = w2
    v1 = v1
    k1 = k1
    k2 = k2
    s1 = s1
    s2 = s2
    Workers = {w1, w2}
    Verifiers = {v1}
    Keys = {k1, k2}
    Payloads = {s1, s2}
    InitKey = InitKey
    None = None
    MaxEvents = 3
SPECIFICATION Spec
SYMMETRY Sym
INVARIANTS
    TypeOK
    ChainIntact
    AckedSavesDurable
    SnapshotNeverAhead
    LeaseNamesHolder
    WorkersSeeEachOther
PROPERTIES
    EventsImmutable
