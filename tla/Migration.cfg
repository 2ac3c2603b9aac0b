SPECIFICATION Spec
CONSTANTS
    Limit = 2
    BoundSize = 1
    RetiredSize = 1
    UnackedSize = 4
    RingSize = 1
    NumProbe = 1
    MaxSeq = 2
    MaxDgram = 3
    MaxSend = 2
CHECK_DEADLOCK FALSE
INVARIANTS
    AssertionsHold
    
    PathsChecked
