SPECIFICATION Spec

CONSTANTS
    c1 = c1  c2 = c2  c3 = c3
    NoCaller = NoCaller
    Callers = {c1, c2, c3}
    Streaming = {c1, c2}
    MaxChunks = 2
    RequireModel = FALSE
    MayAbandon = TRUE
    MayFail = FALSE

INVARIANTS
    OwnTextOnly

\* Every caller calls once, then the system stops.
CHECK_DEADLOCK FALSE
