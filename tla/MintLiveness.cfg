SPECIFICATION FairSpec
CONSTANTS
    d1 = d1
    d2 = d2
    d3 = d3
    i1 = i1
    i2 = i2
    NoIntent = NoIntent
    NoDeposit = NoDeposit
    Deposits = {d1}
    Intents = {i1}
    IntentOf <- OneAddress
    Sats <- OneSats
    BadRecipients = {}
    MinDepositSats = 2
    MaxDailyMintSats = 0
    ScanMargin = 0
    AttestEnabled = TRUE
    Breakers = TRUE
    LateBroadcast = TRUE
    MaxConfidence = 3
    MaxTip = 1
    MaxCrashes = 1
    MaxWriteFaults = 0
    MaxLate = 1
INVARIANTS
    MintInv
PROPERTY EligibleIsMinted
