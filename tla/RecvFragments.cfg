SPECIFICATION Spec
CONSTANTS
    Streams = {s1}
    UniStreams = {s1}
    MaxVarint = 6
    MaxFrameLen = 2
    InitialMaxStreamData = 6
    InitialMaxData = 6
    MaxStreamWindow = 0
    MaxWindow = 0
    MaxFragments = 2
    StopInCallback = FALSE
    NoOffset = NoOffset
INVARIANT OneReferencePerEntry
CHECK_DEADLOCK FALSE
