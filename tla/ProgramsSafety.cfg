SPECIFICATION Spec
CONSTANTS
    u1 = u1
    v1 = v1
    m1 = m1
    m2 = m2
    t1 = t1
    t2 = t2
    NoMint = NoMint
    Owners = {u1, v1}
    Users = {u1}
    Vaults = {v1}
    Mints = {m1, m2}
    Txids = {t1, t2}
    Attestable = {5}
    Amounts = {1, 2}
    Limits = {3, 4}
    Thresholds = {1, 2}
    MaxNamed = 2
    MinTransfer = 2
    FeeDivisor = 2
    MaxU64 = 5
    MaxEpoch = 1
    MaxOutside = 4
    Depths = {1, 2}
    LeafBits = 2
INVARIANTS
    EpochWithinLimit
    MintedOnce
    CountersTellSupply
    ClaimsCover
    LeafSignsOnce
