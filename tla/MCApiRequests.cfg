\* A CDEvent of each kind that producers send, and a call while keys are
\* replaced and expire.
CONSTANTS
    Inputs <- AllPosted
    Watched <- WatchedInputs
    Recorded <- Histories
    Lookups <- Calls
    Escaped <- Slashes
    KeyOf <- ColonKey
    VersionSegments = {"0", "1", "v1"}
SPECIFICATION Spec
INVARIANTS DeploymentsAreRecognised DeploymentsAreNamed CauseReachesSpans LinksAreCanonical
           SummariesNameTheirSubject AnswerWasTrue CountersTellWhatIsStored
CHECK_DEADLOCK FALSE
