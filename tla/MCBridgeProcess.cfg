\* One run of the process with every input, three requests, a queue of two spans,
\* two ticks of deadline.
CONSTANTS
    Conns = {r1, r2, r3}
    ShutdownTimeout = 2
    QueueSize = 2
    Inputs <- Starts
    defaultFile = defaultFile
    otherFile = otherFile
    DefaultPath = defaultFile
    Second = 10
    Limit = 1048576
    None = None
    Malformed = Malformed
    Unreadable = Unreadable
SPECIFICATION FairSpec
INVARIANTS TypeOK DrainIsComplete TracedToTheEnd CutOnlyLate StoreIsReleased
PROPERTIES StopsAfterSignal LifetimeAsConfigured
CHECK_DEADLOCK FALSE
