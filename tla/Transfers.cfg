SPECIFICATION Spec
CONSTANTS
    t1 = t1
    t2 = t2
    p1 = p1
    p2 = p2
    Deposits = {t1, t2}
    Polls = {p1, p2}
    Limit = 2
    MaxSignatures = 3
    MaxFaults = 1
INVARIANTS
    PassedIsQueued
    PassedIsRead
PROPERTIES
    CatchUp
CHECK_DEADLOCK FALSE
