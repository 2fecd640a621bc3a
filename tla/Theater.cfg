SPECIFICATION TheaterSpec
CONSTANTS
    v1 = v1
    Visitors = {v1}
    Payers = {v1, "heartbeat"}
    Capacity = 6
    MaxInvoices = 3
    MaxFaults = 1
    Turns = 2
    Laps = 2
    Cap <- SmallCap
INVARIANTS
    BooksBalance
    MeterIsPaid
PROPERTY HeartbeatGoesOn
CHECK_DEADLOCK FALSE
