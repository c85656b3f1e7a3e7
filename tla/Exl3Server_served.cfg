SPECIFICATION FairSpec

CONSTANTS
    c1 = c1  c2 = c2  c3 = c3  p1 = p1
    NoCaller = NoCaller
    Callers = {c1, c2, c3}
    Streaming = {c1}
    Probes = {p1}
    Threads = 2
    MaxChunks = 1
    RequireModel = FALSE
    MayAbandon = FALSE
    MayFail = FALSE

PROPERTIES
    Served

\* Every caller calls once, and the process may stop.
CHECK_DEADLOCK FALSE
