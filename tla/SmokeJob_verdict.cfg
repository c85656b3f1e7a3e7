SPECIFICATION FairSpec

CONSTANTS
    good = good  bad = bad  hung = hung
    Images = {good, bad, hung}
    Passing = {good}
    Hangs = {hung}
    Timeout = 2
    Deadline = 2
    MayFail = TRUE
    MaxJobs = 3

INVARIANTS
    PassTruthful

PROPERTIES
    RunReturns
    GpuFreed

\* The bound on the Jobs stops the system.
CHECK_DEADLOCK FALSE
