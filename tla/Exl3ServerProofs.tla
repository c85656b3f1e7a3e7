-------------------------- MODULE Exl3ServerProofs --------------------------
(* Theorems about Exl3Engine and Exl3Server, for any number of callers, of   *)
(* requests and threads, of results of a job, and any choice of who streams, *)
(* abandons and fails.                                                       *)
EXTENDS Exl3Server, SequenceTheorems, TLAPS

(***************************************************************************)
(* The Generator's queue                                                   *)
(***************************************************************************)

Owners(s) == {s[i].owner : i \in 1..Len(s)}

\* One iterate() keeps the queue a queue and brings in no new owner.
LEMMA AdvancedKeeps ==
    ASSUME jobs \in Seq(Engine!Jobs), jobs # <<>>
    PROVE  /\ Head(jobs) \in Engine!Jobs
           /\ Head(jobs).owner \in Owners(jobs)
           /\ Engine!Advanced \in Seq(Engine!Jobs)
           /\ Owners(Engine!Advanced) \subseteq Owners(jobs)
<1> DEFINE h == Head(jobs)
           t == Tail(jobs)
           r == [h EXCEPT !.left = @ - 1]
           s == <<r>>
<1>1. /\ h \in Engine!Jobs
      /\ h = jobs[1]
      /\ t \in Seq(Engine!Jobs)
      /\ Len(t) = Len(jobs) - 1
      /\ \A i \in 1..Len(t) : t[i] = jobs[i + 1]
    BY HeadTailProperties
<1>2. Len(jobs) \in Nat \ {0}
    BY EmptySeq
<1>3. h.owner \in Owners(jobs)
    BY <1>1, <1>2 DEF Owners
<1>4. Owners(t) \subseteq Owners(jobs)
    BY <1>1, <1>2 DEF Owners
<1>5. CASE h.left = 1
    BY <1>1, <1>3, <1>4, <1>5 DEF Engine!Advanced
<1>6. CASE h.left # 1
    <2>1. h.left \in 1..MaxChunks /\ h.owner \in Callers
        BY <1>1 DEF Engine!Jobs
    <2>2. r \in Engine!Jobs
        BY <1>1, <1>6, <2>1, ChunksAssumption DEF Engine!Jobs
    <2>3. r.owner = h.owner
        BY <1>1 DEF Engine!Jobs
    <2>4. s \in Seq(Engine!Jobs) /\ Len(s) = 1 /\ s[1].owner = h.owner
        <3> HIDE DEF r, h
        <3> QED BY <2>2, <2>3
    <2>5. /\ Engine!Advanced = s \o t
          /\ s \o t \in Seq(Engine!Jobs)
          /\ Len(s \o t) = 1 + Len(t)
          /\ \A i \in 1..(1 + Len(t)) :
                (s \o t)[i] = IF i <= 1 THEN s[i] ELSE t[i - 1]
        <3> HIDE DEF s, t
        <3>1. t \in Seq(Engine!Jobs)
            BY <1>1
        <3> QED BY <1>6, <2>4, <3>1, ConcatProperties DEF Engine!Advanced, s, t
    <2>6. ASSUME NEW i \in 1..Len(s \o t)
          PROVE  (s \o t)[i].owner \in Owners(jobs)
        <3>1. CASE i = 1
            BY <1>3, <2>4, <2>5, <3>1
        <3>2. CASE i # 1
            <4> HIDE DEF s, t
            <4>1. Len(t) \in Nat
                BY <1>1, LenProperties
            <4>2. i - 1 \in 1..Len(t) /\ (s \o t)[i] = t[i - 1]
                BY <2>5, <3>2, <4>1
            <4> QED BY <1>4, <4>2 DEF Owners
        <3> QED BY <3>1, <3>2
    <2>7. Owners(s \o t) \subseteq Owners(jobs)
        <3> HIDE DEF s, t
        <3> QED BY <2>6 DEF Owners
    <2> QED BY <1>1, <1>3, <2>5, <2>7
<1> QED BY <1>5, <1>6

\* A job that is enqueued adds its owner.
LEMMA EnqueueKeeps ==
    ASSUME jobs \in Seq(Engine!Jobs), NEW c \in Callers, NEW n \in 1..MaxChunks
    PROVE  LET s == Append(jobs, [owner |-> c, left |-> n])
           IN  s \in Seq(Engine!Jobs) /\ Owners(s) \subseteq Owners(jobs) \cup {c}
<1> DEFINE j == [owner |-> c, left |-> n]
           s == Append(jobs, j)
<1>1. j \in Engine!Jobs /\ j.owner = c
    BY DEF Engine!Jobs
<1>2. /\ s \in Seq(Engine!Jobs)
      /\ Len(s) = Len(jobs) + 1
      /\ Len(jobs) \in Nat
      /\ \A i \in 1..Len(jobs) : s[i] = jobs[i]
      /\ s[Len(jobs) + 1] = j
    <2> HIDE DEF j
    <2> QED BY <1>1, AppendProperties, LenProperties
<1>3. ASSUME NEW i \in 1..Len(s) PROVE s[i].owner \in Owners(jobs) \cup {c}
    <2> HIDE DEF s, j
    <2>1. CASE i = Len(jobs) + 1
        BY <1>1, <1>2, <2>1
    <2>2. CASE i # Len(jobs) + 1
        BY <1>2, <2>2 DEF Owners
    <2> QED BY <2>1, <2>2
<1> QED
    <2> HIDE DEF s, j
    <2> QED BY <1>2, <1>3 DEF Owners, s, j

(***************************************************************************)
(* The inductive invariant                                                 *)
(***************************************************************************)

\* The lock is held by exactly the caller that runs or is suspended under it.
Locked == \A c \in Callers : (lock = c) <=> (at[c] \in Engine!Holding)

\* The state is set after the last of the fields, and neither is unset.
EngineReady == state = "ready" => fields = Engine!FieldCount

EngineInv == Engine!TypeOK /\ Locked /\ EngineReady /\ Engine!LoadedWhenUsed

LEMMA EngineInitially == Engine!Init => EngineInv
<1> SUFFICES ASSUME Engine!Init PROVE EngineInv
    OBVIOUS
<1>1. Engine!TypeOK
    BY DEF Engine!Init, Engine!TypeOK, Engine!FieldCount, Engine!Phases
<1> QED BY <1>1, CallersAssumption DEF
       Engine!Init, EngineInv, Locked, EngineReady, Engine!LoadedWhenUsed,
       Engine!Holding

\* Nobody but the load thread writes what it assigns.
LEMMA LoadKeeps ==
    ASSUME EngineInv, Engine!Load
    PROVE  EngineInv'
<1> USE DEF EngineInv
<1>1. Engine!TypeOK'
    BY DEF Engine!TypeOK, Engine!Load, Engine!LoadStart, Engine!LoadFails,
           Engine!Loaded, Engine!AssignField, Engine!LoadReady, Engine!FieldCount
<1>2. Locked'
    BY DEF Locked, Engine!Load, Engine!LoadStart, Engine!LoadFails, Engine!Loaded,
           Engine!AssignField, Engine!LoadReady
<1>3. EngineReady'
    BY DEF Engine!TypeOK, EngineReady, Engine!Load, Engine!LoadStart,
           Engine!LoadFails, Engine!Loaded, Engine!AssignField, Engine!LoadReady,
           Engine!FieldCount
<1>4. Engine!LoadedWhenUsed'
    BY DEF Engine!TypeOK, Engine!LoadedWhenUsed, Engine!Load, Engine!LoadStart,
           Engine!LoadFails, Engine!Loaded, Engine!AssignField, Engine!LoadReady,
           Engine!FieldCount
<1> QED BY <1>1, <1>2, <1>3, <1>4

\* A caller moves itself, and the lock between itself and nobody.
LEMMA CallerKeeps ==
    ASSUME EngineInv, NEW c \in Callers,
           Engine!Run(c) \/ Engine!Resume(c) \/ Engine!Close(c)
    PROVE  EngineInv'
<1> USE DEF EngineInv
<1>1. Engine!TypeOK'
    <2> USE DEF Engine!TypeOK, Engine!Phases
    <2>1. CASE Engine!Check(c)
        BY <2>1 DEF Engine!Check, Engine!loading
    <2>2. CASE Engine!Begin(c)
        BY <2>2, EnqueueKeeps DEF Engine!Begin, Engine!loading
    <2>3. CASE Engine!StreamIterate(c)
        <3>1. Engine!Advanced \in Seq(Engine!Jobs) /\ Head(jobs).owner \in Callers
            BY <2>3, AdvancedKeeps DEF Engine!StreamIterate, Engine!Jobs
        <3> QED BY <2>3, <3>1 DEF Engine!StreamIterate, Engine!loading
    <2>4. CASE Engine!GenerateIterate(c)
        <3>1. Engine!Advanced \in Seq(Engine!Jobs)
            BY <2>4, AdvancedKeeps DEF Engine!GenerateIterate
        <3> QED BY <2>4, <3>1 DEF Engine!GenerateIterate, Engine!Release, Engine!loading
    <2>5. CASE Engine!Finish(c)
        BY <2>5 DEF Engine!Finish, Engine!Release, Engine!loading
    <2>6. CASE Engine!Raise(c)
        BY <2>6 DEF Engine!Raise, Engine!Release, Engine!loading
    <2>7. CASE Engine!Resume(c)
        BY <2>7 DEF Engine!Resume, Engine!loading
    <2>8. CASE Engine!Close(c)
        BY <2>8 DEF Engine!Close, Engine!Release, Engine!loading
    <2> QED BY <2>1, <2>2, <2>3, <2>4, <2>5, <2>6, <2>7, <2>8 DEF Engine!Run
<1>2. Locked'
    <2> USE CallersAssumption DEF Engine!TypeOK, Locked, Engine!Holding
    <2>1. CASE Engine!Check(c)
        BY <2>1 DEF Engine!Check
    <2>2. CASE Engine!Begin(c)
        BY <2>2 DEF Engine!Begin
    <2>3. CASE Engine!StreamIterate(c)
        BY <2>3 DEF Engine!StreamIterate
    <2>4. CASE Engine!GenerateIterate(c)
        BY <2>4 DEF Engine!GenerateIterate, Engine!Release
    <2>5. CASE Engine!Finish(c) \/ Engine!Raise(c) \/ Engine!Close(c)
        BY <2>5 DEF Engine!Finish, Engine!Raise, Engine!Close, Engine!Release
    <2>6. CASE Engine!Resume(c)
        BY <2>6 DEF Engine!Resume
    <2> QED BY <2>1, <2>2, <2>3, <2>4, <2>5, <2>6 DEF Engine!Run
<1>3. UNCHANGED Engine!loading
    BY DEF Engine!Run, Engine!Check, Engine!Begin, Engine!StreamIterate,
           Engine!GenerateIterate, Engine!Finish, Engine!Raise, Engine!Resume,
           Engine!Close
<1>4. EngineReady'
    BY <1>3 DEF EngineReady, Engine!loading
<1>5. Engine!LoadedWhenUsed'
    <2> USE DEF Engine!TypeOK, Engine!LoadedWhenUsed, Engine!Holding, Engine!loading
    <2>1. CASE Engine!Check(c)
        BY <2>1 DEF Engine!Check, EngineReady
    <2>2. CASE Engine!Begin(c)
        BY <2>2 DEF Engine!Begin
    <2>3. CASE Engine!StreamIterate(c) \/ Engine!Resume(c)
        BY <2>3 DEF Engine!StreamIterate, Engine!Resume
    <2>4. CASE Engine!GenerateIterate(c)
        BY <2>4 DEF Engine!GenerateIterate, Engine!Release
    <2>5. CASE Engine!Finish(c) \/ Engine!Raise(c) \/ Engine!Close(c)
        BY <2>5 DEF Engine!Finish, Engine!Raise, Engine!Close, Engine!Release
    <2> QED BY <2>1, <2>2, <2>3, <2>4, <2>5 DEF Engine!Run
<1> QED BY <1>1, <1>2, <1>4, <1>5

LEMMA EngineInductive == EngineInv /\ [Engine!Next]_(Engine!vars) => EngineInv'
<1> SUFFICES ASSUME EngineInv, [Engine!Next]_(Engine!vars) PROVE EngineInv'
    OBVIOUS
<1>1. CASE Engine!Load
    BY <1>1, LoadKeeps
<1>2. CASE \E c \in Callers : Engine!Run(c) \/ Engine!Resume(c) \/ Engine!Close(c)
    BY <1>2, CallerKeeps
<1>3. CASE Engine!Stop
    BY <1>3 DEF Engine!Stop, EngineInv, Engine!TypeOK, Locked, EngineReady,
           Engine!LoadedWhenUsed
<1>4. CASE UNCHANGED Engine!vars
    BY <1>4 DEF Engine!vars, Engine!loading, EngineInv, Engine!TypeOK, Locked,
           EngineReady, Engine!LoadedWhenUsed
<1> QED BY <1>1, <1>2, <1>3, <1>4 DEF Engine!Next

THEOREM EngineInvariant == Engine!Spec => []EngineInv
BY EngineInitially, EngineInductive, PTL DEF Engine!Spec

\* Every variable keeps its type: the queue holds jobs of callers, none of
\* them past its last result.
THEOREM EngineTypeCorrect == Engine!Spec => []Engine!TypeOK
BY EngineInvariant, PTL DEF EngineInv

\* At most one caller is in the Generator, for any number of them and however
\* they end: by their end, an exception or their consumer's close.
THEOREM EngineOneInsideAlways == Engine!Spec => []Engine!OneInside
<1>1. EngineInv => Engine!OneInside
    BY DEF EngineInv, Locked, Engine!OneInside
<1> QED BY <1>1, EngineInvariant, PTL

\* A caller that has passed the readiness check finds every field assigned.
THEOREM EngineLoadedWhenUsedAlways == Engine!Spec => []Engine!LoadedWhenUsed
BY EngineInvariant, PTL DEF EngineInv

(***************************************************************************)
(* Until a stream is abandoned or an exception raised                      *)
(***************************************************************************)

\* Every job in the queue is of the caller that holds the lock.
Alone == Owners(jobs) \subseteq {lock}

\* A caller inside the Generator is the owner of all that is left there.
LEMMA AloneInductive ==
    ASSUME EngineInv, Engine!IdleDrained, Alone, Engine!OwnTextOnly,
           [Engine!Next]_(Engine!vars), Engine!Undisturbed'
    PROVE  Engine!IdleDrained' /\ Alone' /\ Engine!OwnTextOnly'
<1> USE DEF EngineInv
<1>1. CASE UNCHANGED <<lock, jobs, heard>>
    BY <1>1 DEF Engine!IdleDrained, Alone, Owners, Engine!OwnTextOnly
<1>2. CASE \E c \in Callers : Engine!Begin(c)
    <2>1. PICK c \in Callers : Engine!Begin(c)
        BY <1>2
    <2>2. PICK n \in 1..MaxChunks : jobs' = Append(jobs, [owner |-> c, left |-> n])
        BY <2>1 DEF Engine!Begin
    <2>3. jobs = <<>>
        BY <2>1 DEF Engine!Begin, Engine!IdleDrained
    <2>4. Owners(jobs) = {}
        BY <2>3 DEF Owners
    <2>5. Owners(jobs') \subseteq Owners(jobs) \cup {c}
        BY <2>2, EnqueueKeeps DEF Engine!TypeOK
    <2>6. lock' = c /\ UNCHANGED heard
        BY <2>1 DEF Engine!Begin
    <2> QED BY <2>4, <2>5, <2>6, CallersAssumption DEF
           Engine!IdleDrained, Alone, Owners, Engine!OwnTextOnly
<1>3. CASE \E c \in Callers : Engine!StreamIterate(c) \/ Engine!GenerateIterate(c)
    <2>1. PICK c \in Callers : Engine!StreamIterate(c) \/ Engine!GenerateIterate(c)
        BY <1>3
    <2>2. lock = c
        BY <2>1 DEF Engine!StreamIterate, Engine!GenerateIterate, Locked, Engine!Holding
    <2>3. /\ Head(jobs).owner = c
          /\ Owners(Engine!Advanced) \subseteq {c}
        <3>1. jobs \in Seq(Engine!Jobs) /\ jobs # <<>>
            BY <2>1 DEF Engine!StreamIterate, Engine!GenerateIterate, Engine!TypeOK
        <3> QED BY <2>2, <3>1, AdvancedKeeps DEF Alone
    <2>4. /\ jobs' = Engine!Advanced
          /\ lock' = lock
          /\ heard' \in {heard, [heard EXCEPT ![c] = @ \cup {c}]}
        BY <2>1, <2>3 DEF Engine!StreamIterate, Engine!GenerateIterate
    <2>5. Engine!OwnTextOnly'
        BY <2>4 DEF Engine!OwnTextOnly, Engine!TypeOK
    <2> QED BY <2>2, <2>3, <2>4, <2>5, CallersAssumption DEF
           Engine!IdleDrained, Alone, Owners
<1>4. CASE \E c \in Callers : Engine!Finish(c)
    BY <1>4 DEF Engine!Finish, Engine!Release, Engine!IdleDrained, Alone, Owners,
           Engine!OwnTextOnly
<1>5. QED
    <2>1. CASE Engine!Load \/ Engine!Stop \/ UNCHANGED Engine!vars
        BY <1>1, <2>1 DEF Engine!Load, Engine!LoadStart, Engine!LoadFails, Engine!Loaded,
               Engine!AssignField, Engine!LoadReady, Engine!Stop, Engine!vars
    <2>2. ASSUME NEW c \in Callers, Engine!Check(c) \/ Engine!Resume(c)
          PROVE  UNCHANGED <<lock, jobs, heard>>
        BY <2>2 DEF Engine!Check, Engine!Resume
    <2>3. ASSUME NEW c \in Callers PROVE ~Engine!Raise(c) /\ ~Engine!Close(c)
        BY DEF Engine!Raise, Engine!Close, Engine!Release, Engine!Undisturbed,
               Engine!TypeOK
    <2> QED BY <1>1, <1>2, <1>3, <1>4, <2>1, <2>2, <2>3 DEF Engine!Next, Engine!Run

\* A caller that has raised or was closed stays so.
LEMMA DisturbedStays ==
    ASSUME Engine!TypeOK, [Engine!Next]_(Engine!vars), Engine!Undisturbed'
    PROVE  Engine!Undisturbed
<1> SUFFICES ASSUME NEW d \in Callers, at[d] \in {"raised", "closed"}
             PROVE  at'[d] = at[d]
    BY DEF Engine!Undisturbed
<1>1. CASE UNCHANGED at
    BY <1>1
<1>2. ASSUME NEW c \in Callers, Engine!Run(c) \/ Engine!Resume(c) \/ Engine!Close(c)
      PROVE  at'[d] = at[d]
    BY <1>2 DEF Engine!Run, Engine!Check, Engine!Begin, Engine!StreamIterate,
           Engine!GenerateIterate, Engine!Finish, Engine!Raise, Engine!Resume,
           Engine!Close, Engine!Release, Engine!TypeOK
<1>3. CASE Engine!Load \/ Engine!Stop \/ UNCHANGED Engine!vars
    BY <1>1, <1>3 DEF Engine!Load, Engine!LoadStart, Engine!LoadFails, Engine!Loaded,
           Engine!AssignField, Engine!LoadReady, Engine!Stop, Engine!vars
<1> QED BY <1>2, <1>3 DEF Engine!Next

\* Up to the first exception and the first dropped stream, each caller is given
\* its own text only, for the Generator is empty whenever the lock is free.
THEOREM EngineOwnTextUndisturbedAlways == Engine!Spec => []Engine!OwnTextUndisturbed
<1> DEFINE Inv == Engine!Undisturbed => (Engine!IdleDrained /\ Alone /\ Engine!OwnTextOnly)
<1>1. Engine!Init => Inv
    BY DEF Engine!Init, Engine!IdleDrained, Alone, Owners, Engine!OwnTextOnly
<1>2. EngineInv /\ Inv /\ [Engine!Next]_(Engine!vars) => Inv'
    BY AloneInductive, DisturbedStays DEF EngineInv
<1>3. Inv => Engine!OwnTextUndisturbed
    BY DEF Engine!OwnTextUndisturbed
<1> QED BY <1>1, <1>2, <1>3, EngineInvariant, PTL DEF Engine!Spec
(***************************************************************************)
(* The server                                                              *)
(***************************************************************************)

\* What the queue holds, and where a probe can be.
Queueing ==
    /\ stage \in [Requests -> Stages]
    /\ queue \in Seq(Requests)
    /\ \A p \in Probes : stage[p] \in {"new", "asked", "endpoint"}

\* The engine is used for requests it can serve: readiness, once seen, stays.
Accepted ==
    /\ at \in [Callers -> Engine!Phases]
    /\ state = "ready" => loader = "done"
    /\ \A c \in Callers :
          /\ stage[c] \in {"generate", "sending", "wants", "next", "tail"} => state = "ready"
          /\ stage[c] \in {"new", "asked", "endpoint"} => at[c] = "out"
          /\ at[c] # "refused"

SInv == Queueing /\ Accepted

LEMMA Initially == Init => SInv
BY EmptySeq DEF
       Init, Engine!Init, Engine!Phases, SInv, Queueing, Accepted, Stages, Requests

\* Leaving the queue keeps it one.
LEMMA PlaceGivenUp ==
    ASSUME queue \in Seq(Requests), NEW c, GivesUpPlace(c)
    PROVE  queue' \in Seq(Requests)
<1>1. CASE stage[c] # "wants"
    BY <1>1 DEF GivesUpPlace
<1>2. CASE stage[c] = "wants"
    <2>1. PICK i \in 1..Len(queue) :
             queue' = SubSeq(queue, 1, i - 1) \o SubSeq(queue, i + 1, Len(queue))
        BY <1>2 DEF GivesUpPlace
    <2>2. Len(queue) \in Nat /\ \A k \in 1..Len(queue) : queue[k] \in Requests
        BY LenProperties, ElementOfSeq
    <2>3. SubSeq(queue, 1, i - 1) \in Seq(Requests)
        BY <2>2, SubSeqProperties
    <2>4. SubSeq(queue, i + 1, Len(queue)) \in Seq(Requests)
        BY <2>2, SubSeqProperties
    <2> QED BY <2>1, <2>3, <2>4, ConcatProperties
<1> QED BY <1>1, <1>2

\* A thread is only given to a request; to a caller, if it is for a next().
LEMMA GrantsRequest ==
    ASSUME Queueing, queue # <<>>
    PROVE  /\ Head(queue) \in Requests
           /\ stage[Head(queue)] = "wants" => Head(queue) \in Callers
           /\ Tail(queue) \in Seq(Requests)
BY HeadTailProperties DEF Queueing, Requests

\* Every step of the server is a step of the engine or leaves it alone.
LEMMA StepsEngine == Queueing /\ [Next]_vars => [Engine!Next]_(Engine!vars)
<1> SUFFICES ASSUME Queueing, [Next]_vars PROVE [Engine!Next]_(Engine!vars)
    OBVIOUS
<1>1. UNCHANGED engine => UNCHANGED Engine!vars
    BY DEF engine, Engine!vars, Engine!loading
<1>2. CASE UNCHANGED vars
    BY <1>1, <1>2 DEF vars
<1>3. CASE EngineLoad /\ up
    BY <1>3 DEF EngineLoad, Engine!Next
<1>4. CASE Engine!Stop /\ up
    BY <1>4 DEF Engine!Next
<1>5. CASE Grant /\ up
    <2> DEFINE r == Head(queue)
    <2>1. UNCHANGED engine \/ (r \in Callers /\ Engine!Resume(r))
        <3>1. CASE stage[r] = "asked"
            BY <1>5, <3>1 DEF Grant
        <3>2. CASE stage[r] = "wants" /\ at[r] = "suspended"
            BY <1>5, <3>2, GrantsRequest DEF Grant
        <3>3. CASE stage[r] = "wants" /\ at[r] # "suspended"
            BY <1>5, <3>3 DEF Grant
        <3> QED BY <1>5, <3>1, <3>2, <3>3 DEF Grant
    <2> HIDE DEF r
    <2> QED BY <1>1, <1>5, <2>1 DEF Engine!Next
<1>6. ASSUME NEW c \in Callers, InEngine(c) \/ Disconnect(c), up
      PROVE  [Engine!Next]_(Engine!vars)
    BY <1>1, <1>6 DEF InEngine, Disconnect, Engine!Next
<1>7. CASE \/ \E r \in Requests : Ask(r)
           \/ \E p \in Probes : Probe(p)
           \/ \E c \in Callers : NextFrame(c) \/ Endpoint(c) \/ Leave(c)
    BY <1>1, <1>7 DEF Ask, Probe, NextFrame, Endpoint, Leave
<1> QED BY <1>2, <1>3, <1>4, <1>5, <1>6, <1>7 DEF Next

LEMMA QueueingKept == Queueing /\ [Next]_vars => Queueing'
<1> SUFFICES ASSUME Queueing, [Next]_vars PROVE Queueing'
    OBVIOUS
<1> USE DEF Queueing, Stages, Move
<1>1. CASE UNCHANGED server
    BY <1>1 DEF server
<1>2. ASSUME NEW r \in Requests, Ask(r) PROVE Queueing'
    BY <1>2, AppendProperties DEF Ask
<1>3. CASE Grant
    <2> DEFINE r == Head(queue)
    <2>1. PICK s \in {"endpoint", "next", "tail"} : Move(r, s)
        BY <1>3 DEF Grant
    <2>2. r \in Requests /\ queue' \in Seq(Requests)
        BY <1>3, GrantsRequest DEF Grant
    <2>3. r \in Probes => s = "endpoint"
        BY <1>3, <2>1, <2>2 DEF Grant
    <2> QED BY <2>1, <2>2, <2>3
<1>4. ASSUME NEW p \in Probes, Probe(p) PROVE Queueing'
    BY <1>4 DEF Probe, Requests
<1>5. ASSUME NEW c \in Callers, NextFrame(c) \/ Disconnect(c) \/ Endpoint(c) \/ Leave(c)
      PROVE  Queueing'
    <2>1. c \in Requests /\ c \notin Probes
        BY ProbesAssumption DEF Requests
    <2>2. CASE NextFrame(c)
        BY <2>1, <2>2, AppendProperties DEF NextFrame
    <2>3. CASE Disconnect(c)
        BY <2>1, <2>3, PlaceGivenUp DEF Disconnect
    <2>4. CASE Endpoint(c)
        <3>1. PICK s \in {"sending", "generate", "done"} : Move(c, s) /\ queue' = queue
            BY <2>4 DEF Endpoint
        <3> QED BY <2>1, <3>1
    <2>5. CASE Leave(c)
        <3>1. PICK s \in {"sending", "done"} : Move(c, s) /\ queue' = queue
            BY <2>5 DEF Leave
        <3> QED BY <2>1, <3>1
    <2> QED BY <1>5, <2>2, <2>3, <2>4, <2>5
<1> QED BY <1>1, <1>2, <1>3, <1>4, <1>5 DEF Next, EngineLoad, InEngine, vars, server

LEMMA AcceptedKept == SInv /\ [Next]_vars => Accepted'
<1> SUFFICES ASSUME SInv, [Next]_vars PROVE Accepted'
    OBVIOUS
<1> USE DEF SInv, Queueing, Accepted, Move, Engine!Phases
<1>1. CASE UNCHANGED vars
    BY <1>1 DEF vars, engine, server
<1>2. CASE EngineLoad
    BY <1>2 DEF EngineLoad, Engine!Load, Engine!LoadStart, Engine!LoadFails,
           Engine!Loaded, Engine!AssignField, Engine!LoadReady, server
<1>3. CASE Engine!Stop /\ UNCHANGED server
    BY <1>3 DEF Engine!Stop, server
<1>4. CASE Grant
    <2> DEFINE r == Head(queue)
    <2>1. r \in Requests
        BY <1>4, GrantsRequest DEF Grant
    <2>2. CASE stage[r] = "asked"
        BY <1>4, <2>1, <2>2 DEF Grant, engine, Requests
    <2>3. CASE stage[r] = "wants" /\ at[r] = "suspended"
        <3>1. Move(r, "next") /\ Engine!Resume(r)
            BY <1>4, <2>3 DEF Grant
        <3> QED BY <2>1, <2>3, <3>1 DEF Engine!Resume, Engine!loading, Requests
    <2>4. CASE stage[r] = "wants" /\ at[r] # "suspended"
        <3>1. PICK s \in {"next", "tail"} : Move(r, s) /\ UNCHANGED engine
            BY <1>4, <2>4 DEF Grant
        <3> QED BY <2>1, <2>4, <3>1 DEF engine, Requests
    <2> QED BY <1>4, <2>2, <2>3, <2>4 DEF Grant
<1>5. ASSUME NEW r \in Requests, Ask(r) PROVE Accepted'
    BY <1>5 DEF Ask, engine
<1>6. ASSUME NEW p \in Probes, Probe(p) PROVE Accepted'
    BY <1>6, ProbesAssumption DEF Probe, engine, Requests
<1>7. ASSUME NEW c \in Callers, NextFrame(c) \/ Endpoint(c) \/ Leave(c) PROVE Accepted'
    <2>1. c \in Requests
        BY DEF Requests
    <2>2. UNCHANGED engine
        BY <1>7 DEF NextFrame, Endpoint, Leave
    <2>3. CASE NextFrame(c)
        BY <2>1, <2>2, <2>3 DEF NextFrame, engine
    <2>4. CASE Endpoint(c)
        <3>1. PICK s \in {"sending", "generate", "done"} :
                 Move(c, s) /\ (s = "done" \/ state = "ready")
            BY <2>4 DEF Endpoint
        <3>2. stage[c] = "endpoint"
            BY <2>4 DEF Endpoint
        <3> QED BY <2>1, <2>2, <3>1, <3>2 DEF engine
    <2>5. CASE Leave(c)
        <3>1. PICK s \in {"sending", "done"} : Move(c, s)
            BY <2>5 DEF Leave
        <3>2. stage[c] \in {"generate", "next", "tail"}
            BY <2>5 DEF Leave
        <3> QED BY <2>1, <2>2, <3>1, <3>2 DEF engine
    <2> QED BY <1>7, <2>3, <2>4, <2>5
<1>8. ASSUME NEW c \in Callers, Disconnect(c) PROVE Accepted'
    <2>1. c \in Requests
        BY DEF Requests
    <2>2. CASE at[c] = "suspended"
        BY <1>8, <2>1, <2>2 DEF Disconnect, Engine!Close, Engine!Release, Engine!loading
    <2>3. CASE at[c] # "suspended"
        BY <1>8, <2>1, <2>3 DEF Disconnect, engine
    <2> QED BY <2>2, <2>3
<1>9. ASSUME NEW c \in Callers, InEngine(c) PROVE Accepted'
    <2>1. stage[c] \in {"generate", "next"} /\ UNCHANGED server
        BY <1>9 DEF InEngine
    <2>2. UNCHANGED <<up, loader, state, fields>>
        BY <1>9 DEF InEngine, Engine!Run, Engine!Check, Engine!Begin,
               Engine!StreamIterate, Engine!GenerateIterate, Engine!Finish,
               Engine!Raise, Engine!loading
    <2>3. \/ at' = at
          \/ \E s \in {"checked", "inside", "suspended", "ended", "raised"} :
                at' = [at EXCEPT ![c] = s]
        BY <1>9, <2>1 DEF InEngine, Engine!Run, Engine!Check, Engine!Begin,
               Engine!StreamIterate, Engine!GenerateIterate, Engine!Finish,
               Engine!Raise, Engine!Release
    <2> QED BY <2>1, <2>2, <2>3 DEF server
<1> QED BY <1>1, <1>2, <1>3, <1>4, <1>5, <1>6, <1>7, <1>8, <1>9 DEF Next

THEOREM Invariant == Spec => []SInv
<1>1. SInv /\ [Next]_vars => SInv'
    BY QueueingKept, AcceptedKept DEF SInv
<1> QED BY <1>1, Initially, PTL DEF Spec

\* The server implements the engine's specification: whatever pool thread runs
\* which part of a request, the engine sees one of its callers take one of its
\* steps, so what is proved of every run of the engine holds of the server.
THEOREM ImplementsEngine == Spec => UsesEngine
<1>1. Init => Engine!Init
    BY DEF Init
<1>2. SInv /\ [Next]_vars => [Engine!Next]_(Engine!vars)
    BY StepsEngine DEF SInv
<1> QED BY <1>1, <1>2, Invariant, PTL DEF Spec, UsesEngine, Engine!Spec

\* A request whose endpoint said 200 is never refused by the engine afterwards.
THEOREM AcceptedNotRefusedAlways == Spec => []AcceptedNotRefused
<1>1. SInv => AcceptedNotRefused
    BY DEF SInv, Accepted, AcceptedNotRefused
<1> QED BY <1>1, Invariant, PTL

\* Under this server one caller is in the Generator at a time.
THEOREM OneInsideAlways == Spec => []OneInside
<1>1. Engine!OneInside => OneInside
    BY DEF OneInside
<1> QED BY <1>1, EngineOneInsideAlways, ImplementsEngine, PTL DEF UsesEngine

\* Under this server a caller that an endpoint let through finds every field of
\* the engine assigned.
THEOREM LoadedWhenUsedAlways == Spec => []LoadedWhenUsed
<1>1. Engine!LoadedWhenUsed => LoadedWhenUsed
    BY DEF LoadedWhenUsed
<1> QED BY <1>1, EngineLoadedWhenUsedAlways, ImplementsEngine, PTL DEF UsesEngine

\* Under this server every request is given its own text and leaves the Generator
\* drained, up to the first exception and the first stream closed at its yield.
THEOREM OwnTextUndisturbedAlways == Spec => []OwnTextUndisturbed
<1>1. Engine!OwnTextUndisturbed => OwnTextUndisturbed
    BY DEF OwnTextUndisturbed
<1> QED BY <1>1, EngineOwnTextUndisturbedAlways, ImplementsEngine, PTL DEF UsesEngine

\* Every variable of the server keeps its type: what waits for a thread are
\* requests, whoever gave up its place before.
THEOREM TypeCorrect == Spec => []TypeOK
<1>1. SInv /\ Engine!TypeOK => TypeOK
    BY DEF TypeOK, SInv, Queueing
<1> QED BY <1>1, EngineTypeCorrect, ImplementsEngine, Invariant, PTL DEF UsesEngine
=============================================================================
