----------------------------- MODULE Exl3Engine -----------------------------
(***************************************************************************)
(* The engine of the ExLlamaV3 server: one thread loads the model, and any *)
(* number of callers generate behind one lock.                             *)
(*                                                                         *)
(* src/cuda-gb10-exllamav3-dsv41/server/engine.py. The library's Generator *)
(* (exllamav3) is not under src/: it is a queue of jobs of which           *)
(* iterate() advances the first (EXL3_MAX_BATCH is 1) and returns what it  *)
(* produced, tagged with the job's identifier. Every stream gives its job  *)
(* the same identifier, the default 0.                                     *)
(*                                                                         *)
(* A caller is a request that calls stream() or generate() once. A stream  *)
(* is a Python generator: between two chunks it is suspended at its yield  *)
(* with the lock held, and there its consumer may close it.                *)
(***************************************************************************)
EXTENDS Exl3Constants, Naturals, Sequences

\* What _load_locked assigns, in this order, once everything is loaded.
FieldCount == 5     \* _model, _cache, _tokenizer, _generator, model_name

Jobs == [owner : Callers, left : 1..MaxChunks]

VARIABLES
    up,          \* the process is alive
    loader,      \* the load thread: "new", "load", "assign", "done", "raised"
    state,       \* Engine.state
    fields,      \* how many of the fields are assigned
    lock,        \* who holds _generate_lock
    jobs,        \* the Generator's jobs, in the order they were enqueued
    at,          \* where each caller is in stream() or generate()
    heard        \* whose text each caller was given

loading == <<up, loader, state, fields>>
vars    == <<loading, lock, jobs, at, heard>>

Phases == {"out",        \* has not called yet
           "checked",    \* passed the readiness check, wants the lock
           "inside",     \* runs under the lock
           "suspended",  \* a stream at its yield, the lock held
           "refused", "raised", "closed", "ended"}

Holding == {"inside", "suspended"}

TypeOK ==
    /\ up \in BOOLEAN
    /\ loader \in {"new", "load", "assign", "done", "raised"}
    /\ state \in {"idle", "loading", "ready", "failed"}
    /\ fields \in 0..FieldCount
    /\ lock \in Callers \cup {NoCaller}
    /\ jobs \in Seq(Jobs)
    /\ at \in [Callers -> Phases]
    /\ heard \in [Callers -> SUBSET Callers]

Init ==
    /\ up = TRUE
    /\ loader = "new"
    /\ state = "idle"
    /\ fields = 0
    /\ lock = NoCaller
    /\ jobs = <<>>
    /\ at = [c \in Callers |-> "out"]
    /\ heard = [c \in Callers |-> {}]

-----------------------------------------------------------------------------
(* The load thread: load() and _load_locked() *)

LoadStart ==
    /\ loader = "new"
    /\ loader' = "load"
    /\ state' = "loading"
    /\ UNCHANGED <<up, fields, lock, jobs, at, heard>>

\* Config, weights, cache, tokenizer or generator raise: nothing is assigned.
\* With EXL3_REQUIRE_MODEL the exception is raised again, in this thread.
LoadFails ==
    /\ loader = "load"
    /\ MayFail
    /\ state' = "failed"
    /\ loader' = IF RequireModel THEN "raised" ELSE "done"
    /\ UNCHANGED <<up, fields, lock, jobs, at, heard>>

Loaded ==
    /\ loader = "load"
    /\ loader' = "assign"
    /\ UNCHANGED <<up, state, fields, lock, jobs, at, heard>>

AssignField ==
    /\ loader = "assign"
    /\ fields < FieldCount
    /\ fields' = fields + 1
    /\ UNCHANGED <<up, loader, state, lock, jobs, at, heard>>

\* Mutant: the state is set before the fields are.
LoadReadyEarly ==
    /\ loader = "assign"
    /\ state' = "ready"
    /\ loader' = IF fields = FieldCount THEN "done" ELSE loader
    /\ UNCHANGED <<up, fields, lock, jobs, at, heard>>

LoadReady ==
    /\ loader = "assign"
    /\ fields = FieldCount
    /\ state' = "ready"
    /\ loader' = "done"
    /\ UNCHANGED <<up, fields, lock, jobs, at, heard>>

-----------------------------------------------------------------------------
(* stream() and generate() *)

\* The readiness check, made before and outside the generate lock.
Check(c) ==
    /\ at[c] = "out"
    /\ at' = [at EXCEPT ![c] = IF state = "ready" THEN "checked" ELSE "refused"]
    /\ UNCHANGED <<loading, lock, jobs, heard>>

\* Mutant: the generator is called without the lock.
BeginUnlocked(c) ==
    /\ at[c] = "checked"
    /\ lock' = c
    /\ at' = [at EXCEPT ![c] = "inside"]
    /\ \E n \in 1..MaxChunks : jobs' = Append(jobs, [owner |-> c, left |-> n])
    /\ UNCHANGED <<loading, heard>>

\* The lock is taken, the prompt is encoded and its job enqueued.
Begin(c) ==
    /\ at[c] = "checked"
    /\ lock = NoCaller
    /\ lock' = c
    /\ at' = [at EXCEPT ![c] = "inside"]
    /\ \E n \in 1..MaxChunks : jobs' = Append(jobs, [owner |-> c, left |-> n])
    /\ UNCHANGED <<loading, heard>>

\* Leaving the with block, by its end or by an exception.
Release(c, phase) ==
    /\ lock' = NoCaller
    /\ at' = [at EXCEPT ![c] = phase]

\* What iterate() leaves of the jobs: the first one advanced, or at its end.
Advanced ==
    IF Head(jobs).left = 1 THEN Tail(jobs)
    ELSE <<[Head(jobs) EXCEPT !.left = @ - 1]>> \o Tail(jobs)

\* One result of iterate(): its text, if it has any, is yielded, for every
\* job carries the stream's identifier.
StreamIterate(c) ==
    /\ c \in Streaming
    /\ at[c] = "inside"
    /\ jobs # <<>>
    /\ jobs' = Advanced
    /\ \/ /\ at' = [at EXCEPT ![c] = "suspended"]
          /\ heard' = [heard EXCEPT ![c] = @ \cup {Head(jobs).owner}]
       \/ UNCHANGED <<at, heard>>                     \* no text
    /\ UNCHANGED <<loading, lock>>

\* The consumer asks for the next chunk.
Resume(c) ==
    /\ at[c] = "suspended"
    /\ at' = [at EXCEPT ![c] = "inside"]
    /\ UNCHANGED <<loading, lock, jobs, heard>>

\* Generator.generate() iterates over its own job; results of other jobs it
\* drops, or does not know and raises.
GenerateIterate(c) ==
    /\ c \notin Streaming
    /\ at[c] = "inside"
    /\ jobs # <<>>
    /\ jobs' = Advanced
    /\ IF Head(jobs).owner = c
       THEN heard' = [heard EXCEPT ![c] = @ \cup {c}] /\ UNCHANGED <<lock, at>>
       ELSE /\ UNCHANGED heard
            /\ UNCHANGED <<lock, at>> \/ Release(c, "raised")
    /\ UNCHANGED loading

\* Mutant: generation returns after its first result.
FinishEarly(c) ==
    /\ at[c] = "inside"
    /\ Release(c, "ended")
    /\ UNCHANGED <<loading, jobs, heard>>

\* num_remaining_jobs() is zero.
Finish(c) ==
    /\ at[c] = "inside"
    /\ jobs = <<>>
    /\ Release(c, "ended")
    /\ UNCHANGED <<loading, jobs, heard>>

\* Encoding the prompt raises, before its job is enqueued, or an iteration does
\* (out of memory, a CUDA error): the lock is released and whatever is
\* enqueued stays enqueued.
Raise(c) ==
    /\ MayFail
    /\ \/ at[c] = "inside"
       \/ at[c] = "checked" /\ lock = NoCaller
    /\ Release(c, "raised")
    /\ UNCHANGED <<loading, jobs, heard>>

\* Mutant: a dropped stream keeps the lock.
CloseKeepsLock(c) ==
    /\ MayAbandon
    /\ at[c] = "suspended"
    /\ at' = [at EXCEPT ![c] = "closed"]
    /\ UNCHANGED <<loading, lock, jobs, heard>>

\* The consumer drops the stream at a yield: GeneratorExit leaves the with
\* block, the job stays in the Generator.
Close(c) ==
    /\ MayAbandon
    /\ at[c] = "suspended"
    /\ Release(c, "closed")
    /\ UNCHANGED <<loading, jobs, heard>>

-----------------------------------------------------------------------------
Load == LoadStart \/ LoadFails \/ Loaded \/ AssignField \/ LoadReady

Run(c) ==
    \/ Check(c) \/ Begin(c)
    \/ StreamIterate(c) \/ GenerateIterate(c)
    \/ Finish(c) \/ Raise(c)

\* The process is stopped: the load thread is a daemon and does not delay it.
Stop ==
    /\ up' = FALSE
    /\ UNCHANGED <<loader, state, fields, lock, jobs, at, heard>>

Next ==
    /\ up
    /\ \/ Load
       \/ \E c \in Callers : Run(c) \/ Resume(c) \/ Close(c)
       \/ Stop

Spec == Init /\ [][Next]_vars
-----------------------------------------------------------------------------
(* Properties *)

\* The Generator, not safe to call concurrently, is never in the hands of two
\* callers: not across the yields of a stream, its close or an exception.
OneInside ==
    \A c, d \in Callers : (at[c] \in Holding /\ at[d] \in Holding) => c = d

\* Readiness is read long before it is used and outside the lock the fields
\* are assigned without: a caller that passed the check finds them assigned.
LoadedWhenUsed ==
    \A c \in Callers : at[c] \in {"checked"} \cup Holding => fields = FieldCount

-----------------------------------------------------------------------------
(* What the documents say, and what is left of it *)

\* engine.py:235: the lock is held for the whole stream so that a second
\* request does not interleave with it. No caller is given another's text.
OwnTextOnly ==
    \A c \in Callers : heard[c] \subseteq {c}

IdleDrained == (lock = NoCaller) => (jobs = <<>>)

Undisturbed == \A c \in Callers : at[c] \notin {"raised", "closed"}

\* Up to the first exception and the first stream that its consumer drops,
\* each caller is given its own text only, because the Generator is drained
\* whenever the lock is free: the next caller starts alone in it.
OwnTextUndisturbed ==
    Undisturbed => IdleDrained /\ OwnTextOnly
=============================================================================
