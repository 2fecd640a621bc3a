SPECIFICATION FairSpec
CONSTANTS
    d1 = d1
    d2 = d2
    d3 = d3
    i1 = i1
    i2 = i2
    NoIntent = NoIntent
    NoDeposit = NoDeposit
    Deposits = {d1, d2, d3}
    Intents = {i1, i2}
    IntentOf <- MixedAddresses
    Sats <- MixedSats
    BadRecipients = {i2}
    MinDepositSats = 2
    MaxDailyMintSats = 0
    ScanMargin = 0
    AttestEnabled = FALSE
    Breakers = FALSE
    LateBroadcast = FALSE
    MaxConfidence = 2
    MaxTip = 0
    MaxCrashes = 0
    MaxWriteFaults = 0
    MaxLate = 0
PROPERTY EligibleIsMinted
