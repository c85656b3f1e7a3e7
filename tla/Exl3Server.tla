----------------------------- MODULE Exl3Server -----------------------------
(***************************************************************************)
(* The HTTP server around Exl3Engine: one event loop, and a pool of worker *)
(* threads on which everything that is not async runs.                     *)
(*                                                                         *)
(* src/cuda-gb10-exllamav3-dsv41/server/app.py. Every endpoint is a plain  *)
(* def, so FastAPI runs it on a pool thread; a streaming response wraps a  *)
(* plain generator, so Starlette runs each next() of it on a pool thread,  *)
(* a different one each time. The pool (anyio's CapacityLimiter, not under *)
(* src/) hands its threads out in the order they were asked for. A request *)
(* waits for the generate lock on its thread.                              *)
(*                                                                         *)
(* Left out: the frames' content, and that the frames after the text take  *)
(* more than one visit to a thread.                                        *)
(***************************************************************************)
EXTENDS Exl3Constants, Sequences, FiniteSets

CONSTANTS
    Probes,        \* clients of /health, /ready and /v1/models
    Threads        \* threads of the pool

ASSUME ProbesAssumption  == Probes \cap Callers = {} /\ NoCaller \notin Probes
ASSUME ThreadsAssumption == Threads \in Nat \ {0}

VARIABLES
    up, loader, state, fields, lock, jobs, at, heard,    \* of Exl3Engine
    stage,       \* where each request is in the server
    queue        \* the requests that wait for a thread

Engine == INSTANCE Exl3Engine

engine == <<up, loader, state, fields, lock, jobs, at, heard>>
server == <<stage, queue>>
vars   == <<engine, server>>

Requests == Callers \cup Probes

Stages == {"new",
           "asked",      \* waits for a thread to run its endpoint on
           "endpoint",   \* on a thread: the endpoint
           "generate",   \* on a thread: the endpoint is in engine.generate()
           "sending",    \* streaming: the event loop sends what it has
           "wants",      \* streaming: waits for a thread for the next frame
           "next",       \* on a thread: next() of the stream, in the engine
           "tail",       \* on a thread: next() after the text has ended
           "done"}

OnThread == {r \in Requests : stage[r] \in {"endpoint", "generate", "next", "tail"}}

TypeOK ==
    /\ Engine!TypeOK
    /\ stage \in [Requests -> Stages]
    /\ queue \in Seq(Requests)

Init ==
    /\ Engine!Init
    /\ stage = [r \in Requests |-> "new"]
    /\ queue = <<>>

Move(r, s) == stage' = [stage EXCEPT ![r] = s]
-----------------------------------------------------------------------------
(* The event loop *)

Ask(r) ==
    /\ stage[r] = "new"
    /\ Move(r, "asked")
    /\ queue' = Append(queue, r)
    /\ UNCHANGED engine

\* The client has taken a frame, the response asks for the next one.
NextFrame(c) ==
    /\ stage[c] = "sending"
    /\ Move(c, "wants")
    /\ queue' = Append(queue, c)
    /\ UNCHANGED engine

\* A thread is free: the request that waits longest gets it, and a stream
\* that is suspended at its yield resumes.
Grant ==
    /\ queue # <<>>
    /\ Cardinality(OnThread) < Threads
    /\ queue' = Tail(queue)
    /\ LET r == Head(queue) IN
          \/ stage[r] = "asked" /\ Move(r, "endpoint") /\ UNCHANGED engine
          \/ /\ stage[r] = "wants"
             /\ CASE at[r] = "suspended" -> Move(r, "next") /\ Engine!Resume(r)
                  [] at[r] = "out"       -> Move(r, "next") /\ UNCHANGED engine
                  [] OTHER               -> Move(r, "tail") /\ UNCHANGED engine

\* A request that waits for a thread stops waiting.
GivesUpPlace(r) ==
    IF stage[r] = "wants"
    THEN \E i \in 1..Len(queue) :
            /\ queue[i] = r
            /\ queue' = SubSeq(queue, 1, i - 1) \o SubSeq(queue, i + 1, Len(queue))
    ELSE UNCHANGED queue

\* Mutant: a stream is closed in the middle of a next() too.
DisconnectInterrupts(c) ==
    /\ MayAbandon
    /\ stage[c] \in {"sending", "wants", "next"}
    /\ Move(c, "done")
    /\ GivesUpPlace(c)
    /\ IF at[c] \in {"suspended", "inside"}
       THEN /\ at' = [at EXCEPT ![c] = "closed"]
            /\ lock' = NoCaller
            /\ UNCHANGED <<up, loader, state, fields, jobs, heard>>
       ELSE UNCHANGED engine

\* The client of a stream goes away. A stream in the middle of a next() is
\* not interrupted, so the response is cancelled between two of them; the
\* generator is then closed at its yield, if it has come to one.
Disconnect(c) ==
    /\ MayAbandon
    /\ stage[c] \in {"sending", "wants"}
    /\ Move(c, "done")
    /\ GivesUpPlace(c)
    /\ IF at[c] = "suspended" THEN Engine!Close(c) ELSE UNCHANGED engine

-----------------------------------------------------------------------------
(* The threads *)

\* health(), ready() and models() read the engine's state and return.
Probe(p) ==
    /\ p \in Probes
    /\ stage[p] = "endpoint"
    /\ Move(p, "new")
    /\ UNCHANGED <<engine, queue>>

\* Mutant: the endpoint does not ask whether the model is ready.
EndpointUnchecked(c) ==
    /\ c \in Callers
    /\ stage[c] = "endpoint"
    /\ Move(c, IF c \in Streaming THEN "sending" ELSE "generate")
    /\ UNCHANGED <<engine, queue>>

\* completions() and chat_completions(): 503 unless the model is ready, or a
\* 4xx or 500 for the prompt; else a stream is handed to the event loop and
\* anything else generates here and now.
Endpoint(c) ==
    /\ c \in Callers
    /\ stage[c] = "endpoint"
    /\ \/ Move(c, "done")
       \/ /\ state = "ready"
          /\ Move(c, IF c \in Streaming THEN "sending" ELSE "generate")
    /\ UNCHANGED <<engine, queue>>

InEngine(c) ==
    /\ stage[c] \in {"generate", "next"}
    /\ Engine!Run(c)
    /\ UNCHANGED server

\* Mutant: an exception takes its thread with it.
LeaveUnlessRaised(c) ==
    /\ \/ /\ stage[c] = "next"
          /\ at[c] \in {"suspended", "ended", "refused"}
          /\ Move(c, "sending")
       \/ /\ stage[c] = "generate"
          /\ at[c] \in {"ended", "refused"}
          /\ Move(c, "done")
       \/ /\ stage[c] = "tail"
          /\ Move(c, "done")
    /\ UNCHANGED <<engine, queue>>

\* The thread is given back: with a frame, with the response, or with an
\* exception, which ends either.
Leave(c) ==
    /\ \/ /\ stage[c] = "next"
          /\ at[c] \in {"suspended", "ended", "refused"}
          /\ Move(c, "sending")
       \/ /\ stage[c] = "next"
          /\ at[c] = "raised"
          /\ Move(c, "done")
       \/ /\ stage[c] = "generate"
          /\ at[c] \in {"ended", "refused", "raised"}
          /\ Move(c, "done")
       \/ /\ stage[c] = "tail"
          /\ Move(c, "done")
    /\ UNCHANGED <<engine, queue>>

-----------------------------------------------------------------------------
EngineLoad == Engine!Load /\ UNCHANGED server

Next ==
    /\ up
    /\ \/ EngineLoad
       \/ Engine!Stop /\ UNCHANGED server
       \/ Grant
       \/ \E r \in Requests : Ask(r)
       \/ \E p \in Probes : Probe(p)
       \/ \E c \in Callers :
             \/ NextFrame(c) \/ Disconnect(c)
             \/ Endpoint(c) \/ InEngine(c) \/ Leave(c)

Spec == Init /\ [][Next]_vars

(* The event loop and every thread run, and the client of a stream reads     *)
(* what it is sent or goes away.                                             *)
Fairness ==
    /\ WF_vars(up /\ EngineLoad)
    /\ WF_vars(up /\ Grant)
    /\ \A p \in Probes : WF_vars(up /\ Probe(p))
    /\ \A c \in Callers :
          /\ WF_vars(up /\ NextFrame(c))
          /\ WF_vars(up /\ Endpoint(c))
          /\ WF_vars(up /\ InEngine(c))
          /\ WF_vars(up /\ Leave(c))

FairSpec == Spec /\ Fairness
-----------------------------------------------------------------------------
(* Properties *)

\* A request the endpoint accepted, for which 200 and the header of a stream
\* may be on the wire, is not refused by the engine's own readiness check,
\* made later and on another thread.
AcceptedNotRefused ==
    \A c \in Callers : stage[c] # "new" => at[c] # "refused"

\* Every request for a completion comes to its end.
Served ==
    \A c \in Callers : (stage[c] = "asked") ~> (stage[c] = "done" \/ ~up)

\* app.py:7,18: /health answers whenever the process is up, without the
\* generate lock: whatever the completions are doing.
HealthAnswers ==
    \A p \in Probes : (stage[p] = "asked") ~> (stage[p] = "new" \/ ~up)

\* Under this server too one caller is in the Generator at a time, though each
\* frame of a stream is asked for on another thread.
OneInside == Engine!OneInside

\* And callers that an endpoint let through find the engine's fields assigned.
LoadedWhenUsed == Engine!LoadedWhenUsed

\* And every request is given its own text, until a client goes away in the
\* middle of a stream or an exception is raised.
OwnTextUndisturbed == Engine!OwnTextUndisturbed

\* The server uses the engine as its callers are meant to: what holds of the
\* engine holds of the server.
UsesEngine == Engine!Spec
=============================================================================
