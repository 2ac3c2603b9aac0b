SPECIFICATION Spec
CONSTANTS
    Streams = {s1}
    UniStreams = {}
    MaxVarint = 5
    MaxFrameLen = 4
    InitialMaxStreamData = 4
    InitialMaxData = 3
    MaxStreamWindow = 5
    MaxWindow = 4
    MaxFragments = 10
    StopInCallback = TRUE
    NoOffset = NoOffset
INVARIANTS
    TypeOK
    StorageSound
    DeliveryExact
    OneReferencePerEntry
PROPERTIES
    Irrevocable
CHECK_DEADLOCK FALSE
