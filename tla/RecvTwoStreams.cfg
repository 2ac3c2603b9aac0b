SPECIFICATION Spec
CONSTANTS
    Streams = {s1, s2}
    UniStreams = {s1, s2}
    MaxVarint = 4
    MaxFrameLen = 2
    InitialMaxStreamData = 2
    InitialMaxData = 1
    MaxStreamWindow = 0
    MaxWindow = 0
    MaxFragments = 10
    StopInCallback = FALSE
    NoOffset = NoOffset
INVARIANTS
    WithinLimits
    ConnectionWindowExact
    StoppedStreamsSettled
    OwedFramesQueued
SYMMETRY StreamSymmetry
CHECK_DEADLOCK FALSE
