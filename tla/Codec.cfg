SPECIFICATION CodecSpec
CONSTANTS
    Overhead = 16
    MaxPlainv = 64
    DgramSize = 100
    Cap = 130
    Frames <- MCFrames
    MoreFrames <- MCMore
    Starts <- MCStarts
    Gaps <- MCGaps
    MaxRounds = 3
    Questions <- MCQuestions
    MaxFrames = 2
    Milli = 5
    MaxStreams = 1000000
    MinUdpPayload = 1200
    Limits = {0, 64, 20000}
    Lists <- MCLists
    FirstVersions <- MCFirst
    Hellos <- MCHellos
    Rooms = {17, 40, 81, 84}
    SniAt = 12
    SniLen = 9
    MaxAdd = 3
    MaxDatacnt = 8
INVARIANTS
    PacketsReadBack
    ParamsAgree
    CrumbleKeepsStream
CHECK_DEADLOCK FALSE
