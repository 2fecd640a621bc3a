SPECIFICATION FairSpec
CONSTANTS
    p1 = p1
    p2 = p2
    NoRequest = NoRequest
    NoRecord = NoRecord
    Burns <- Last
    Signatures <- Four
    Blocks <- Pairs
    Polls = {p1, p2}
    Policy = 3
    HasStrategy = FALSE
    PageLimit = 2
    MaxUpsets = 1
INVARIANTS
    PaidOncePerDoubt
    RecordTells
PROPERTIES
    PollTakesUp
CHECK_DEADLOCK FALSE
