SPECIFICATION FairSpec
CONSTANTS
    k1 = k1
    Keys = {k1}
    Payers <- AllChains
    Capacity = 2
    MaxInvoices = 4
    MaxFaults = 3
    MaxDaily = 1
INVARIANTS
    PaidOnce
    OneInvoicePaid
    AttestedIsDone
PROPERTIES
    LoopEnds
    DoneIsSigned
CHECK_DEADLOCK FALSE
