SPECIFICATION Spec
CONSTANTS
    r1 = r1
    r2 = r2
    h1 = h1
    a1 = a1
    a2 = a2
    NoCommit = NoCommit
    NoReceipt = NoReceipt
    Receipts = {r1, r2}
    Holders = {h1}
    HolderOf <- OneHolder
    Addresses = {a1, a2}
    Commits <- OwnAddress
    Sats <- EqualSats
    MaxDailyReleaseSats = 0
    HistoryDepth = 4
    AttestEnabled = FALSE
    Pausable = FALSE
    LatePayment = FALSE
    MaxIntents = 2
    MaxTip = 2
    MaxCrashes = 1
    MaxWriteFaults = 0
    MaxLate = 0
    MaxSends = 4
INVARIANTS
    PaidOnce
    PayoutCommitted
    IntentNeverAhead
PROPERTY LedgerSpec
