CONSTANTS
    d1 = d1
    d2 = d2
    v1 = v1
    v2 = v2
    NoDevice = NoDevice
    Devices = {d1, d2}
    Viewers = {v1, v2}
    MaxVisits = 8
    MaxFailures = 6
    Channels = {d1, d2}
    Audience = {v1, v2}
    TopicOf <- TopicEach
    FrameLengths = {1, 3}
    HeaderLength = 1
    Block = 3
    MaxBuffer = 6
    FeedFrames = 3
    MaxBreaks = 2
    NoHeader = NoHeader
    Garbled = Garbled
SPECIFICATION MCFairSpec
\* Nobody visits and nothing breaks: the server waits.
CHECK_DEADLOCK FALSE
INVARIANTS
    AskedIsWatched
    NeverStuck
    TimerSparesConnection
    NothingWithheld
PROPERTY
    ConnectedInTheEnd
