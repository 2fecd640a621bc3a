SPECIFICATION Spec
CONSTANTS
    d1 = d1
    d2 = d2
    d3 = d3
    i1 = i1
    i2 = i2
    NoIntent = NoIntent
    NoDeposit = NoDeposit
    Deposits = {d1, d2}
    Intents = {i1}
    IntentOf <- SameAddress
    Sats <- EqualSats
    BadRecipients = {}
    MinDepositSats = 1
    MaxDailyMintSats = 0
    ScanMargin = 0
    AttestEnabled = TRUE
    Breakers = FALSE
    LateBroadcast = FALSE
    MaxConfidence = 2
    MaxTip = 1
    MaxCrashes = 1
    MaxWriteFaults = 1
    MaxLate = 0
SYMMETRY Symmetry
INVARIANTS
    TypeOK
    AtMostOneReceipt
    ClaimOutlivesCrash
    ReceiptBacked
    IntentNeverAhead
PROPERTY
    LedgerSpec
