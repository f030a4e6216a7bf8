CONSTANTS
    s1 = s1
    s2 = s2
    w1 = w1
    w2 = w2
    w3 = w3
    Supervisors = {s1, s2}
    Workers = {w1, w2, w3}
    None = None
SPECIFICATION Spec
CHECK_DEADLOCK FALSE
INVARIANTS
    OneWorker
PROPERTIES
    ResultFinal
    FateSettledOnce
    SupervisorEnds
