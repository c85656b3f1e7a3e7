------------------------------ MODULE SmokeJob ------------------------------
(***************************************************************************)
(* One GPU smoke test of an image: the promoter creates a Kubernetes Job,  *)
(* waits for it with kubectl, and reads how it ended.                      *)
(*                                                                         *)
(* src/internal/promoter/smoke.go (and RunFor in promote.go),              *)
(* assets/job.yaml, assets/smoke.sh. The cluster is not under src/: its    *)
(* scheduler starts a Job when the device job.yaml asks for is free, its   *)
(* controller ends a Job that is past its deadline, and removes a finished *)
(* one after its time to live.                                             *)
(*                                                                         *)
(* A Job outlives the promoter that created it: it goes on when kubectl's  *)
(* wait expires, when a call fails although it had its effect, and when    *)
(* the promoter is killed. The next smoke test then shares the GPU with it.*)
(*                                                                         *)
(* Time is counted in ticks, from a Job's creation and from the start of a *)
(* wait. Nothing happens at its time exactly: a Job may be ended late and  *)
(* an expired wait return late.                                            *)
(***************************************************************************)
EXTENDS SmokeState, Sequences

client == <<at, image, job, waited>>
vars   == <<jobs, client>>

Active   == {"pending", "running"}
Finished == {"complete", "failed"}
Phases   == Active \cup Finished \cup {"deleted"}

Places == {"idle", "configmap", "create", "wait", "get", "passed", "failed"}

Jobs == [image : Images, phase : Phases, age : 0..Deadline]

TypeOK ==
    /\ jobs \in Seq(Jobs)
    /\ Len(jobs) <= MaxJobs
    /\ at \in Places
    /\ image \in Images
    /\ job \in 0..Len(jobs)
    /\ waited \in 0..Timeout

Init ==
    /\ jobs = <<>>
    /\ at = "idle"
    /\ image \in Images
    /\ job = 0
    /\ waited = 0

-----------------------------------------------------------------------------
(* RunFor: the promoter and its kubectl *)

RunFor(i) ==
    /\ at \in {"idle", "passed", "failed"}
    /\ Len(jobs) < MaxJobs
    /\ at' = "configmap"
    /\ image' = i
    /\ job' = 0
    /\ waited' = 0
    /\ UNCHANGED jobs

EnsureScriptConfigMap ==
    /\ at = "configmap"
    /\ at' = "create" \/ (MayFail /\ at' = "failed")
    /\ UNCHANGED <<jobs, image, job, waited>>

Created == Append(jobs, [image |-> image, phase |-> "pending", age |-> 0])

\* The Job gets a fresh name; create reports it.
Apply ==
    /\ at = "create"
    /\ jobs' = Created
    /\ job' = Len(jobs) + 1
    /\ at' = "wait"
    /\ UNCHANGED <<image, waited>>

\* kubectl create fails, with or without having created the Job.
ApplyError ==
    /\ MayFail
    /\ at = "create"
    /\ jobs' \in {jobs, Created}
    /\ at' = "failed"
    /\ UNCHANGED <<image, job, waited>>

\* Mutant: kubectl wait is not given a timeout.
WaitForever ==
    /\ at = "wait"
    /\ jobs[job].phase = "complete"
    /\ at' = "get"
    /\ UNCHANGED <<jobs, image, job, waited>>

\* kubectl wait --for=condition=complete: returns on completion or when its
\* time is over, not on failure. What it returns, and the logs, are ignored.
Wait ==
    /\ at = "wait"
    /\ jobs[job].phase = "complete" \/ waited = Timeout
    /\ at' = "get"
    /\ UNCHANGED <<jobs, image, job, waited>>

\* kubectl wait fails at once: the API is away, or the Job is.
WaitError ==
    /\ MayFail
    /\ at = "wait"
    /\ at' = "get"
    /\ UNCHANGED <<jobs, image, job, waited>>

\* Mutant: a Job that has not failed has passed.
GetUnlessFailed ==
    /\ at = "get"
    /\ at' = IF jobs[job].phase = "failed" THEN "failed" ELSE "passed"
    /\ UNCHANGED <<jobs, image, job, waited>>

\* .status.succeeded is 1 for a complete Job and absent for any other; the
\* Job may also be gone.
Get ==
    /\ at = "get"
    /\ at' = IF jobs[job].phase = "complete" THEN "passed" ELSE "failed"
    /\ UNCHANGED <<jobs, image, job, waited>>

GetError ==
    /\ MayFail
    /\ at = "get"
    /\ at' = "failed"
    /\ UNCHANGED <<jobs, image, job, waited>>

\* The promoter is killed.
Crash ==
    /\ at \notin {"idle", "passed", "failed"}
    /\ at' = "idle"
    /\ job' = 0
    /\ waited' = 0
    /\ UNCHANGED <<jobs, image>>

-----------------------------------------------------------------------------
(* The cluster *)

Becomes(j, phase) == jobs' = [jobs EXCEPT ![j].phase = phase] /\ UNCHANGED client

\* devic.es/dri-render: 1 and one such device on the host.
Schedule(j) ==
    /\ jobs[j].phase = "pending"
    /\ \A k \in DOMAIN jobs : jobs[k].phase # "running"
    /\ Becomes(j, "running")

\* smoke.sh exits 0 only past its last check.
Succeed(j) ==
    /\ jobs[j].phase = "running"
    /\ jobs[j].image \in Passing
    /\ Becomes(j, "complete")

\* smoke.sh fails a check, or the Pod is evicted; backoffLimit is 0.
Fail(j) ==
    /\ jobs[j].phase = "running"
    /\ jobs[j].image \notin Hangs
    /\ Becomes(j, "failed")

\* Mutant: the deadline counts for a Job that waits for its device only.
ExpirePending(j) ==
    /\ jobs[j].phase = "pending"
    /\ jobs[j].age = Deadline
    /\ Becomes(j, "failed")

\* activeDeadlineSeconds.
Expire(j) ==
    /\ jobs[j].phase \in Active
    /\ jobs[j].age = Deadline
    /\ Becomes(j, "failed")

\* ttlSecondsAfterFinished, which is longer than a wait.
Delete(j) ==
    /\ jobs[j].phase \in Finished
    /\ j # job
    /\ Becomes(j, "deleted")

Tick ==
    /\ \/ at = "wait" /\ waited < Timeout
       \/ \E j \in DOMAIN jobs : jobs[j].phase \in Active /\ jobs[j].age < Deadline
    /\ jobs' = [j \in DOMAIN jobs |->
                   [jobs[j] EXCEPT !.age =
                       IF jobs[j].phase \in Active /\ @ < Deadline THEN @ + 1 ELSE @]]
    /\ waited' = IF at = "wait" /\ waited < Timeout THEN waited + 1 ELSE waited
    /\ UNCHANGED <<at, image, job>>

-----------------------------------------------------------------------------
Promoter ==
    \/ EnsureScriptConfigMap
    \/ Apply \/ ApplyError
    \/ Wait \/ WaitError
    \/ Get \/ GetError

Cluster(j) == Schedule(j) \/ Succeed(j) \/ Fail(j) \/ Expire(j) \/ Delete(j)

Next ==
    \/ \E i \in Images : RunFor(i)
    \/ Promoter
    \/ Crash
    \/ \E j \in DOMAIN jobs : Cluster(j)
    \/ Tick

Spec == Init /\ [][Next]_vars

(* Time passes, kubectl returns when it should, and the controller ends what *)
(* is past its deadline. Nothing says when, or that, a Job is scheduled.     *)
Fairness ==
    /\ WF_vars(Tick)
    /\ WF_vars(EnsureScriptConfigMap \/ Apply)
    /\ WF_vars(Wait)
    /\ WF_vars(Get)
    /\ \A j \in 1..MaxJobs : WF_vars(j \in DOMAIN jobs /\ Expire(j))

FairSpec == Spec /\ Fairness
-----------------------------------------------------------------------------
(* Properties *)

\* A smoke test comes to its verdict though the wait is for completion only
\* and the image may fail, hang or never be scheduled.
RunReturns == (at = "wait") ~> (at \in {"passed", "failed", "idle"})

OnGpu(j) == j \in DOMAIN jobs /\ jobs[j].phase = "running"

\* The GPU is free again for the next smoke test, whatever becomes of the
\* promoter and however the image hangs.
GpuFreed ==
    \A j \in 1..MaxJobs : OnGpu(j) ~> ~OnGpu(j)
=============================================================================
