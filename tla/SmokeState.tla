----------------------------- MODULE SmokeState -----------------------------
(* What one GPU smoke test is given and what it keeps, for SmokeJob, which   *)
(* makes its steps, and the verdict it promises the promoter.                *)
EXTENDS Naturals

CONSTANTS
    Images,
    Passing,     \* images that pass every check of smoke.sh on the GPU
    Hangs,       \* images that accept the completion and never answer it
    Timeout,     \* kubectl wait --timeout, in ticks
    Deadline,    \* activeDeadlineSeconds, in ticks
    MayFail,     \* calls of kubectl may fail
    MaxJobs      \* bound on the smoke tests that create a Job

ASSUME HangsAssumption == Passing \subseteq Images /\ Hangs \subseteq Images \ Passing
ASSUME FailAssumption  == MayFail \in BOOLEAN
ASSUME TicksAssumption == {Timeout, Deadline, MaxJobs} \subseteq Nat \ {0}

VARIABLES
    jobs,        \* the Jobs, in the order of their creation
    at,          \* where RunFor is
    image,       \* the image it tests
    job,         \* the name kubectl create returned: an index into jobs
    waited       \* ticks since kubectl wait was started

\* An image passes only if a Job of that very image, created for this test,
\* ran to completion: not by an expired wait, a call that failed, or a Job
\* that an earlier, killed run of the promoter has left behind.
PassTruthful ==
    (at = "passed") =>
        /\ job # 0
        /\ jobs[job].image = image
        /\ jobs[job].phase = "complete"
        /\ image \in Passing
=============================================================================
