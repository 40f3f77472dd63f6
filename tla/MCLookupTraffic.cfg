\* Two goroutines whose span starts overlap; the deployment comes and goes.
CONSTANTS
    NotFound = NotFound
    NoReply = NoReply
    Failure = Failure
    Callers = {c1, c2}
    Services = {svc}
    Deployments = {v1}
    CacheTTL = 2
    NegativeTTL = 1
    LookupTimeout = 1
    MaxClock = 3
    Noted <- Answers
SPECIFICATION TrafficSpec
INVARIANTS TypeOK BoundedStaleness FallbackIsJustified SettledAnswersLast
PROPERTIES Refinement SpanStartReturns
