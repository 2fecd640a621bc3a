SPECIFICATION Spec
CONSTANTS
    b1 = b1
    b2 = b2
    c1 = c1
    c2 = c2
    home = home
    NoRequest = NoRequest
    Burns = {b1, b2}
    Net <- Nets
    Coins = {c1, c2}
    Denominations = {1, 2}
    Addresses = {home}
    SignerAddress = home
    Legacy <- TwoLegacy
    MinDepth = 1
    TargetDepth = 1
    SyncThreads = {"background", "http"}
    RefillThreads = {"background"}
    MaxAsks = 2
    MaxUpsets = 1
SYMMETRY SameCoins
INVARIANTS
    CoinToldOnce
    ReservedIsServed
    StaleIsGone
PROPERTIES
    PaulSpec
CHECK_DEADLOCK FALSE
