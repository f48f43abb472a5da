CONSTANTS
    d1 = d1
    d2 = d2
    v1 = v1
    v2 = v2
    Devices = {d1, d2}
    Viewers = {v1, v2}
    Watches <- WatchEach
    BodyLengths = {0, 2}
    HeaderLength = 2
    SocketRoom = 3
    MaxRead = 3
    MaxBuffer = 8
    MaxFrames = 3
    NoHeader = NoHeader
    Garbled = Garbled
SPECIFICATION FairSpec
\* The cars send no more and everything has arrived.
CHECK_DEADLOCK FALSE
INVARIANTS
    NothingLost
    NeverMisframed
PROPERTIES
    ImplementsChannel
    ArrivesInTheEnd
