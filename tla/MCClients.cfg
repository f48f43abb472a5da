CONSTANTS
    c1 = c1
    c2 = c2
    c3 = c3
    Commands = {c1, c2, c3}
    Passport = TRUE
    NeedsPassport = TRUE
    f1 = f1
    f2 = f2
    f3 = f3
    f4 = f4
    Descriptors = {f1, f2, f3, f4}
    NoDescriptor = NoDescriptor
    Unreachable = TRUE
SPECIFICATION MCFairSpec
\* The use of a freed context may end the process; a dead client leaves
\* nothing to do.
CHECK_DEADLOCK FALSE
INVARIANTS
    OneAttempt
    ConnectedMeansReady
PROPERTIES
    ReadyInTheEnd
    ImplementsOwner
    OthersUntouched
