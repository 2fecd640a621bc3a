SPECIFICATION FairSpec
CONSTANTS
    r1 = r1
    r2 = r2
    h1 = h1
    a1 = a1
    a2 = a2
    NoCommit = NoCommit
    NoReceipt = NoReceipt
    Receipts = {r1}
    Holders = {h1}
    HolderOf <- OneHolder
    Addresses = {a1, a2}
    Commits <- AnyCommit
    Sats <- EqualSats
    MaxDailyReleaseSats = 2
    HistoryDepth = 4
    AttestEnabled = TRUE
    Pausable = TRUE
    LatePayment = TRUE
    MaxIntents = 1
    MaxTip = 2
    MaxCrashes = 1
    MaxWriteFaults = 1
    MaxLate = 1
    MaxSends = 3
PROPERTY OwedIsRedeemed
