CONSTANTS
    First = 2
    MinSecond = 1
    AudioSecond = 2
    VideoSecond = 3
    MaxBody = 1
    MaxBuffer = 11
    MaxRead = 5
    MaxPackets = 3
    SimDigits = 4
    Digits = {0, 1, 9, 10}
SPECIFICATION MCSpec
\* The sender sends no more and everything is read.
CHECK_DEADLOCK FALSE
INVARIANTS GotWhatArrived DroppedForCause ServedBelowTen
