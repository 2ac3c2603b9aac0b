SPECIFICATION Spec
CONSTANTS
    MaxPktNum = 4
    MaxAcks = 3
    MaxAckRanges = 1
    MaxGaps = 2
    AckRing = 2
    AckThresh = 2
    MaxKeyPktNum = 2
    MaxGen = 1
    MaxEncryption = 2
    MaxDecryptionFailure = 1
    ScidPoolSize = 3
    CidLimit = 2
    MaxSeq = 3
    MaxNcidPkts = 2
    InitialMaxStreams = 2
    MaxStreams = 5
    MaxLimitPkts = 3
    Addrs <- MCAddrs
    MaxAccCid = 3
    MaxNow = 2
    RetryTimeout = 1
    RegularTimeout = 2
    MaxAttempts = 2
    MaxMoves = 1
    MaxHeld = 2
INVARIANTS
    RangesSound
    AckFramesTruthful
    PendingSound
    HeldKeyIsChosen
    
    ScidSound
    LimitsSound
    ValidationSound
    CloseReadable
PROPERTY EvictsOldest
CHECK_DEADLOCK FALSE
