CONSTANTS
    MaxParts = 3
    MaxFrames = 3
    Bytes = {0, 1, 65, 101}
    MaxSize = 7
    Slot = 2
    SlotBytes = 5
    MaxFake = 16
    RawBytes = 16
    Width = 128
    MaxTime = 18
    MaxTimes = 5
SPECIFICATION MCSpec
\* The car sends no more; the frame is scanned.
CHECK_DEADLOCK FALSE
INVARIANTS
    KeyMarked
    FakePaced
    PushedAtElapsed
PROPERTY
    OneDamagedFramePerGap
