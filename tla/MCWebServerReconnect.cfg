CONSTANTS
    d1 = d1
    d2 = d2
    b1 = b1
    b2 = b2
    Devices = {d1}
    Browsers = {b1, b2}
    MaxQueue = 3
SPECIFICATION Spec
INVARIANTS
    WantedIsAsked
