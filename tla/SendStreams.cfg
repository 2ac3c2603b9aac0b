SPECIFICATION MCSpec
SYMMETRY Symmetry
CONSTANTS
    s1 = s1
    s2 = s2
    Streams = {s1, s2}
    MaxOffset = 2
    MaxPktNum = 3
    InitialMaxStreamData = 1
    InitialMaxData = 2
    PktThreshold = 2
    EmptyFrames = TRUE
INVARIANTS
    NothingForgotten
    QueuesSound
    RtbSound
    StreamsAgree
    WithinPeerLimits
PROPERTIES
    NoStreamFrameAfterReset
CHECK_DEADLOCK FALSE
