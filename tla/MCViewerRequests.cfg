CONSTANTS
    v1 = v1
    v2 = v2
    d1 = d1
    NoDevice = NoDevice
    Viewers = {v1, v2}
    Devices = {d1}
SPECIFICATION RequestsSpec
INVARIANT RequestsKept
