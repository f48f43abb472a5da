CONSTANTS
    d1 = d1
    d2 = d2
    b1 = b1
    b2 = b2
    Devices = {d1, d2}
    Browsers = {b1, b2}
    MaxQueue = 3
SPECIFICATION FairSpec
INVARIANTS
    UnwantedIsReleased
    WantedIsPushed
    WatchedIsWanted
    AskedIsWanted
PROPERTIES
    StartedOnce
    ReleasedInTheEnd
