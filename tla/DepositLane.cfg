SPECIFICATION FairSpec
CONSTANTS
    d1 = d1
    d2 = d2
    timer = timer
    notify = notify
    NoRequest = NoRequest
    NoRecord = NoRecord
    Burns = {d1, d2}
    Policy = 2
    HasStrategy = TRUE
    Callers = {timer, notify}
    Solicited = {d1}
    Finality = 2
    MaxTip = 4
    MaxTroubles = 1
INVARIANTS
    SkippedOnlyByCut
    RecordBehindLedger
PROPERTIES
    DepositIsMinted
CHECK_DEADLOCK FALSE
