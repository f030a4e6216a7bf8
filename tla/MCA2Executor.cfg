CONSTANTS
    e1 = e1
    e2 = e2
    a1 = a1
    a2 = a2
    b1 = b1
    b2 = b2
    Executors = {e1, e2}
    MatchedCount = 3
    ReserveCount = 2
    ArmOf <- MCArmOf
    Admissions = {b1, b2}
    None = None
    MaxStarts = 2
SPECIFICATION Spec
CHECK_DEADLOCK FALSE
INVARIANTS
    CommitsInOrder
    LedgerNeverAhead
    LedgerKeepsUp
    OneDecision
PROPERTIES
    ExecutionEnds
