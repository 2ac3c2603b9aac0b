SPECIFICATION Spec
CONSTANTS
    Streams = {s1}
    UniStreams = {s1}
    MaxVarint = 6
    MaxFrameLen = 6
    InitialMaxStreamData = 6
    InitialMaxData = 6
    MaxStreamWindow = 0
    MaxWindow = 0
    MaxFragments = 10
    StopInCallback = FALSE
    NoOffset = NoOffset
INVARIANT RxOffsetIsFirstMissing
CHECK_DEADLOCK FALSE
