\* A service whose name holds a slash is recorded and never found.
CONSTANTS
    Inputs <- AllPosted
    Watched <- WatchedInputs
    Recorded <- Histories
    Lookups <- Calls
    Escaped <- Slashes
    KeyOf <- ColonKey
    VersionSegments = {"0", "1", "v1"}
SPECIFICATION Spec
INVARIANT NotFoundIsTrue
CHECK_DEADLOCK FALSE
