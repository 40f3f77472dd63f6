\* Two goroutines that start spans of a service nobody has asked about.
CONSTANTS
    NotFound = NotFound
    NoReply = NoReply
    Failure = Failure
    Callers = {c1, c2}
    Services = {svc}
    Deployments = {v1}
    CacheTTL = 2
    NegativeTTL = 1
    LookupTimeout = 1
    MaxClock = 3
    Noted <- Answers
SPECIFICATION TrafficSpec
INVARIANT AtMostOncePerPeriod
