CONSTANTS
    v1 = v1
    v2 = v2
    d1 = d1
    c1 = c1
    NoDevice = NoDevice
    Viewers = {v1, v2}
    Devices = {d1}
    Cars = {c1}
    MaxLinks = 2
    MaxStops = 1
    MaxPending = 2
SPECIFICATION LinkFairSpec
INVARIANTS
    ServerFollows
    WatchedIsAsked
    AskedIsWatched
PROPERTIES
    ServedInTheEnd
    ReleasedWhenUnwatched
