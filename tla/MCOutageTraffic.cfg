\* One goroutine starting spans while the bridge fails.
CONSTANTS
    NotFound = NotFound
    NoReply = NoReply
    Failure = Failure
    Callers = {c1}
    Services = {svc}
    Deployments = {v1}
    CacheTTL = 3
    NegativeTTL = 2
    LookupTimeout = 1
    MaxClock = 5
    Noted <- Outcomes
SPECIFICATION TrafficSpec
INVARIANT EveryLookupIsSpaced
