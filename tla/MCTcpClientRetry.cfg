CONSTANTS
    f1 = f1
    f2 = f2
    f3 = f3
    f4 = f4
    Descriptors = {f1, f2, f3, f4}
    NoDescriptor = NoDescriptor
    Unreachable = FALSE
SPECIFICATION TcpSpec
\* A dead client leaves nothing to do.
CHECK_DEADLOCK FALSE
INVARIANT AttemptOrTimer
