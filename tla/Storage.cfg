SPECIFICATION Spec
CONSTANTS
    Degr = 2
    KslKeys <- MCKslKeys
    KslEnd = 99
    MaxBlocks = 14
    MaxOps = 3
    FreshKeys = TRUE
    Preloads <- MCPreloads
    MapKeys <- MCMapKeys
    Hash <- MCHash
    HashWidth = 6
    InitialBits = 3
    PslResizeThresh = 3
    PslMod = 8
    Items = {1, 2, 3, 4, 5, 6}
    Weights = {1, 2}
    RingLen = 4
    MaxOffset = 9
    NumOwners = 3
    MaxTxOffset = 2
    BufCap = 2
    MaxPkts = 2
    MaxDgrams = 1
    MaxHandoffs = 1
    MaxRxOffset = 3
    MaxKept = 2
INVARIANTS
    ContainersSound
    
PROPERTY KslIsDictionary
CHECK_DEADLOCK FALSE
