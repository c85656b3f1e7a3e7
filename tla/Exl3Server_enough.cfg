SPECIFICATION FairSpec

CONSTANTS
    c1 = c1  c2 = c2  c3 = c3  p1 = p1
    NoCaller = NoCaller
    Callers = {c1, c2, c3}
    Streaming = {c1, c2}
    Probes = {p1}
    Threads = 3
    MaxChunks = 2
    RequireModel = FALSE
    MayAbandon = TRUE
    MayFail = TRUE

INVARIANTS
    OneInside
    LoadedWhenUsed
    OwnTextUndisturbed
    AcceptedNotRefused

PROPERTIES
    Served
    HealthAnswers
    UsesEngine

\* Every caller calls once, and the process may stop.
CHECK_DEADLOCK FALSE
