CONSTANTS
    s1 = s1
    w1 = w1
    d1 = d1
    d2 = d2
    c1 = c1
    c2 = c2
    NoDevice = NoDevice
    Sessions = {s1, w1}
    WebSessions = {w1}
    Devices = {d1, d2}
    Cars = {c1, c2}
    Realtime = TRUE
SPECIFICATION FairSpec
INVARIANTS
    NoIdleChannel
    HealthyServed
PROPERTIES
    NoCutWhileWatched
    ImplementsDemand
    IdleChannelReleased
