------------------------ MODULE EngramStagerProofs ------------------------
(***************************************************************************)
(* The pinned buffers of EngramStager are free when they are used, and     *)
(* every forward reads the rows of its own step, for any number of layers, *)
(* tokens and steps.                                                       *)
(***************************************************************************)
EXTENDS EngramStager, SequenceTheorems, TLAPS

\* The first k tokens of a buffer are of step s.
Holds(buffer, k, s) == \A i \in 1..k : buffer[i] = s

At(k, kind) == k \in 1..Len(stream) /\ stream[k].kind = kind

\* What the stream still has to do for the host, which waits for it: how far
\* the hashes of the step have come.
HashesComing ==
    LET len == Len(stream)
    IN
    pc = "sync" =>
        /\ hashes_ready = step => stream = <<>>
        /\ \A k \in 1 .. len - 1 : stream[k].kind = "event" => stream[k].step < step
        /\ len >= 1 => stream[len] = Op("event", step, n, 1)
        /\ len >= 2 => stream[len - 1] = Op("d2h", step, n, 1)
        /\ len >= 3 => stream[len - 2] = Op("hash", step, n, 1)
        /\ len >= 4 => stream[len - 3] = Op("inputs", step, n, 1)
        /\ len = 3 => inputs = step
        /\ len = 2 => hashes = step
        /\ len <= 1 => Holds(hash_host, n, step)

\* Nothing is recorded of a step to come.
EventsPast ==
    /\ hashes_ready <= step
    /\ \A k \in 1..Len(stream) : stream[k].kind = "event" => stream[k].step <= step

\* The host gathers with the stream drained.
Gathering ==
    pc = "gather" =>
        /\ stream = <<>>
        /\ Holds(rows, n, step)
        /\ fast => \A l \in Layers \ reading : Holds(rows_host[l], n, step)

\* The host copies with nothing in the stream but what it has put there.
Copying ==
    pc = "copy" =>
        /\ Holds(rows, n, step)
        /\ fast => \A l \in Layers : Holds(rows_host[l], n, step)
        /\ \A k \in 1..Len(stream) :
              /\ stream[k].kind = "h2d" /\ stream[k].layer < layer
              /\ stream[k].step = step /\ stream[k].n = n
        /\ \A l \in 1 .. layer - 1 :
              \/ Holds(staged_rows[l], n, step)
              \/ \E j \in 1..Len(stream) : stream[j].layer = l

\* A copy to come finds the rows of its step in pinned memory.
CopiesComing ==
    \A k \in 1..Len(stream) : At(k, "h2d") =>
        Holds(rows_host[stream[k].layer], stream[k].n, stream[k].step)

\* A forward to come has its rows, or a copy of them before it.
ForwardsComing ==
    \A k \in 1..Len(stream) : At(k, "forward") =>
        /\ \A j \in 1..Len(stream) : At(j, "h2d") =>
              stream[j].step = stream[k].step /\ stream[j].n = stream[k].n
        /\ \A l \in Layers :
              \/ Holds(staged_rows[l], stream[k].n, stream[k].step)
              \/ \E j \in 1 .. k - 1 : At(j, "h2d") /\ stream[j].layer = l

IInv ==
    /\ TypeOK
    /\ HashesComing
    /\ EventsPast
    /\ Gathering
    /\ Copying
    /\ CopiesComing
    /\ ForwardsComing
-----------------------------------------------------------------------------
LEMMA OpsTyped ==
    ASSUME NEW s \in Nat, NEW k \in Tokens, NEW l \in Layers,
           NEW kind \in {"inputs", "hash", "d2h", "event", "h2d", "forward"}
    PROVE  Op(kind, s, k, l) \in Ops
BY DEF Op, Ops

LEMMA OneInLayers == 1 \in Layers /\ 1 \in Tokens /\ NumLayers \in Nat \ {0} /\ MaxTokens \in Nat \ {0}
BY SizesAssumption DEF Layers, Tokens

LEMMA WrittenTyped ==
    ASSUME NEW b \in Buffers, NEW v \in Buffers, NEW k \in Tokens
    PROVE  /\ Written(b, k, v) \in Buffers
           /\ \A i \in 1..k : Written(b, k, v)[i] = v[i]
<1>1. \A i \in 1..k : i \in Tokens
  BY OneInLayers DEF Tokens
<1> QED
  BY <1>1 DEF Written, Buffers

LEMMA FourAppended ==
    ASSUME NEW S, NEW s \in Seq(S), NEW t \in Seq(S), Len(t) = 4
    PROVE  /\ Len(s) \in Nat /\ s \o t \in Seq(S) /\ Len(s \o t) = Len(s) + 4
           /\ \A k \in 1..Len(s) : (s \o t)[k] = s[k]
           /\ \A i \in 1..4 : (s \o t)[Len(s) + i] = t[i]
<1>1. Len(s) \in Nat
  OBVIOUS
<1>2. /\ s \o t \in Seq(S)
      /\ Len(s \o t) = Len(s) + Len(t)
      /\ \A i \in 1 .. Len(s) + Len(t) :
            (s \o t)[i] = IF i <= Len(s) THEN s[i] ELSE t[i - Len(s)]
  BY ConcatProperties, Zenon
<1>3. \A i \in 1 .. Len(s) + 4 :
         (s \o t)[i] = IF i <= Len(s) THEN s[i] ELSE t[i - Len(s)]
  BY <1>2, Zenon
<1>4. \A k \in 1..Len(s) : (s \o t)[k] = s[k]
  BY <1>1, <1>3
<1>5. ASSUME NEW i \in 1..4
      PROVE  (s \o t)[Len(s) + i] = t[i]
  <2>1. PICK k : k = Len(s) + i
    OBVIOUS
  <2>2. k \in 1 .. Len(s) + 4 /\ ~ (k <= Len(s)) /\ k - Len(s) = i
    BY <1>1, <2>1
  <2> QED
    BY <1>3, <2>1, <2>2, Zenon
<1> QED
  BY <1>1, <1>2, <1>4, <1>5

LEMMA Initially == Init => IInv
<1> SUFFICES ASSUME Init PROVE IInv
  OBVIOUS
<1>1. TypeOK
  BY OneInLayers, SizesAssumption DEF Init, TypeOK, Blank, Buffers
<1>2. stream = <<>> /\ pc = "run" /\ hashes_ready = 0 /\ step = 0
  BY DEF Init
<1> QED
  BY <1>1, <1>2 DEF IInv, HashesComing, EventsPast, Gathering, Copying, CopiesComing, ForwardsComing

LEMMA PrepareKeeps ==
    ASSUME IInv, Prepare
    PROVE  IInv'
<1> DEFINE new == HashAndCopyOut(step', n')
<1>t. TypeOK
  BY DEF IInv
<1>1. step' \in Nat /\ step' = step + 1 /\ n' \in Tokens /\ step \in Nat /\ pc' = "sync"
  BY <1>t DEF Prepare, TypeOK
<1>2. new \in Seq(Ops)
  BY <1>1, OpsTyped, OneInLayers DEF HashAndCopyOut
<1>3. /\ Len(new) = 4
      /\ new[1] = Op("inputs", step', n', 1) /\ new[2] = Op("hash", step', n', 1)
      /\ new[3] = Op("d2h", step', n', 1) /\ new[4] = Op("event", step', n', 1)
  BY DEF HashAndCopyOut
<1>4. /\ stream \in Seq(Ops)
      /\ stream' = stream \o new
      /\ UNCHANGED <<fast, reading, layer, rows, hashes_ready, gpu, hash_host, rows_host>>
  BY <1>t DEF Prepare, TypeOK
<1> HIDE DEF new
<1> DEFINE L == Len(stream)
<1>5. /\ L \in Nat /\ Len(stream') = L + 4 /\ stream' \in Seq(Ops)
      /\ \A k \in 1..L : stream'[k] = stream[k]
      /\ stream'[L + 1] = new[1] /\ stream'[L + 2] = new[2]
      /\ stream'[L + 3] = new[3] /\ stream'[L + 4] = new[4]
  BY <1>2, <1>3, <1>4, FourAppended
<1> HIDE DEF L
<1>6. \A k \in 1..Len(stream') :
         \/ k \in 1..L /\ stream'[k] = stream[k]
         \/ /\ k \in {L + 1, L + 2, L + 3, L + 4}
            /\ stream'[k].kind \in {"inputs", "hash", "d2h", "event"}
            /\ stream'[k].step = step'
            /\ stream'[k].kind = "event" => k = L + 4
  BY <1>3, <1>5 DEF Op
<1>7. TypeOK'
  BY <1>t, <1>1, <1>4, <1>5 DEF TypeOK, gpu
<1>8. EventsPast /\ hashes_ready \in Nat
  BY <1>t DEF IInv, TypeOK
<1>9. HashesComing'
  <2>1. hashes_ready' # step'
    BY <1>1, <1>4, <1>8 DEF EventsPast
  <2>2. ASSUME NEW k \in 1 .. Len(stream') - 1, stream'[k].kind = "event"
        PROVE  stream'[k].step < step'
    <3>1. k \in 1..L /\ stream'[k] = stream[k]
      BY <1>5, <1>6, <2>2
    <3>2. stream[k] \in Ops /\ stream[k].step <= step
      BY <1>4, <1>8, <2>2, <3>1 DEF EventsPast, L
    <3> QED
      BY <1>1, <3>1, <3>2 DEF Ops
  <2>3. /\ Len(stream') >= 4
        /\ Len(stream') - 1 = L + 3 /\ Len(stream') - 2 = L + 2 /\ Len(stream') - 3 = L + 1
    BY <1>5
  <2> QED
    BY <1>3, <1>5, <2>1, <2>2, <2>3 DEF HashesComing
<1>10. EventsPast'
  <2>1. hashes_ready' <= step'
    BY <1>1, <1>4, <1>8 DEF EventsPast
  <2>2. ASSUME NEW k \in 1..Len(stream'), stream'[k].kind = "event"
        PROVE  stream'[k].step <= step'
    <3>1. CASE k \in 1..L /\ stream'[k] = stream[k]
      <4>1. stream[k] \in Ops /\ stream[k].step <= step
        BY <1>4, <1>8, <2>2, <3>1 DEF EventsPast, L
      <4> QED
        BY <1>1, <3>1, <4>1 DEF Ops
    <3>2. CASE stream'[k].step = step'
      BY <1>1, <3>2
    <3> QED
      BY <1>6, <3>1, <3>2
  <2> QED
    BY <2>1, <2>2 DEF EventsPast
<1>11. Gathering' /\ Copying'
  BY <1>1 DEF Gathering, Copying
<1>12. ASSUME NEW k \in 1..Len(stream'), stream'[k].kind \in {"h2d", "forward"}
       PROVE  k \in 1..L /\ stream'[k] = stream[k]
  BY <1>6, <1>12
<1>13. CopiesComing'
  <2>1. ASSUME NEW k \in 1..Len(stream'), At(k, "h2d")'
        PROVE  Holds(rows_host[stream[k].layer], stream[k].n, stream[k].step)'
    BY <1>4, <1>12, <2>1 DEF IInv, CopiesComing, At, Holds, L
  <2> QED
    BY <2>1 DEF CopiesComing
<1>14. ForwardsComing'
  <2> SUFFICES ASSUME NEW k \in 1..Len(stream'), At(k, "forward")'
               PROVE  /\ \A j \in 1..Len(stream') : At(j, "h2d")' =>
                            stream'[j].step = stream'[k].step /\ stream'[j].n = stream'[k].n
                      /\ \A l \in Layers :
                            \/ Holds(staged_rows[l], stream[k].n, stream[k].step)'
                            \/ \E j \in 1 .. k - 1 : At(j, "h2d")' /\ stream'[j].layer = l
    BY DEF ForwardsComing
  <2>1. k \in 1..L /\ stream'[k] = stream[k] /\ At(k, "forward")
    BY <1>12 DEF At, L
  <2>2. ForwardsComing
    BY DEF IInv
  <2>3. \A j \in 1..Len(stream') : At(j, "h2d")' => j \in 1..L /\ stream'[j] = stream[j] /\ At(j, "h2d")
    BY <1>12 DEF At, L
  <2>4. \A j \in 1 .. k - 1 : At(j, "h2d") => At(j, "h2d")' /\ stream'[j] = stream[j]
    BY <1>5, <2>1 DEF At, L
  <2>5. staged_rows' = staged_rows
    BY <1>4 DEF gpu
  <2> QED
    BY <2>1, <2>2, <2>3, <2>4, <2>5 DEF ForwardsComing, Holds, L
<1> QED
  BY <1>7, <1>9, <1>10, <1>11, <1>13, <1>14 DEF IInv

\* With the event of this step executed the stream has nothing left.
LEMMA SynchronizeKeeps ==
    ASSUME IInv, Synchronize
    PROVE  IInv'
<1>t. TypeOK
  BY DEF IInv
<1>1. /\ pc = "sync" /\ hashes_ready = step /\ pc' = "gather"
      /\ rows' = Written(rows, n, hash_host)
      /\ reading' = IF fast THEN Layers ELSE {}
      /\ UNCHANGED <<fast, step, n, layer, stream, hashes_ready, gpu, hash_host, rows_host>>
  BY DEF Synchronize
<1>2. stream = <<>>
  BY <1>1 DEF IInv, HashesComing
<1>3. Holds(hash_host, n, step)
  <2>1. Len(stream) <= 1
    BY <1>2
  <2> QED
    BY <1>1, <2>1 DEF IInv, HashesComing
<1>4. rows' \in Buffers /\ \A i \in 1..n : rows'[i] = hash_host[i]
  BY <1>t, <1>1, WrittenTyped DEF TypeOK
<1>5. TypeOK'
  <2>1. reading' \subseteq Layers
    BY <1>1
  <2> QED
    BY <1>t, <1>1, <1>4, <2>1 DEF TypeOK, gpu
<1>6. Gathering'
  BY <1>1, <1>2, <1>3, <1>4 DEF Gathering, Holds
<1>7. HashesComing' /\ Copying'
  BY <1>1 DEF HashesComing, Copying
<1>8. EventsPast'
  BY <1>1 DEF IInv, EventsPast
<1>9. CopiesComing' /\ ForwardsComing'
  <2>1. Len(stream') = 0
    BY <1>1, <1>2
  <2> QED
    BY <2>1 DEF CopiesComing, ForwardsComing
<1> QED
  BY <1>5, <1>6, <1>7, <1>8, <1>9 DEF IInv

LEMMA GatherFastKeeps ==
    ASSUME IInv, NEW l \in Layers, GatherFast(l)
    PROVE  IInv'
<1>t. TypeOK
  BY DEF IInv
<1>1. /\ pc = "gather" /\ l \in reading
      /\ rows_host' = [rows_host EXCEPT ![l] = Written(rows_host[l], n, rows)]
      /\ reading' = reading \ {l}
      /\ UNCHANGED <<fast, pc, step, n, layer, rows, stream, hashes_ready, gpu, hash_host>>
  BY DEF GatherFast
<1>2. Written(rows_host[l], n, rows) \in Buffers
      /\ \A i \in 1..n : Written(rows_host[l], n, rows)[i] = rows[i]
  BY <1>t, WrittenTyped DEF TypeOK
<1>3. TypeOK'
  <2>1. rows_host' \in [Layers -> Buffers] /\ reading' \subseteq Layers
    BY <1>t, <1>1, <1>2 DEF TypeOK
  <2> QED
    BY <1>t, <1>1, <2>1 DEF TypeOK, gpu
<1>4. stream = <<>> /\ Holds(rows, n, step)
  BY <1>1 DEF IInv, Gathering
<1>5. Gathering'
  <2>1. ASSUME fast, NEW k \in Layers \ reading'
        PROVE  Holds(rows_host'[k], n, step)
    <3>1. CASE k = l
      BY <1>t, <1>1, <1>2, <1>4, <3>1 DEF Holds, TypeOK
    <3>2. CASE k # l
      <4>1. k \in Layers \ reading /\ rows_host'[k] = rows_host[k]
        BY <1>t, <1>1, <2>1, <3>2 DEF TypeOK
      <4> QED
        BY <1>1, <2>1, <4>1 DEF IInv, Gathering
    <3> QED
      BY <3>1, <3>2
  <2> QED
    BY <1>1, <1>4, <2>1 DEF Gathering, Holds
<1>6. HashesComing' /\ Copying'
  BY <1>1 DEF HashesComing, Copying
<1>7. EventsPast'
  BY <1>1 DEF IInv, EventsPast
<1>8. CopiesComing' /\ ForwardsComing'
  <2>1. Len(stream') = 0
    BY <1>1, <1>4
  <2> QED
    BY <2>1 DEF CopiesComing, ForwardsComing
<1> QED
  BY <1>3, <1>5, <1>6, <1>7, <1>8 DEF IInv

LEMMA GatheredKeeps ==
    ASSUME IInv, Gathered
    PROVE  IInv'
<1>t. TypeOK
  BY DEF IInv
<1>1. /\ pc = "gather" /\ reading = {} /\ pc' = "copy" /\ layer' = 1
      /\ UNCHANGED <<fast, step, n, reading, rows, stream, hashes_ready, gpu, hash_host, rows_host>>
  BY DEF Gathered
<1>2. TypeOK'
  BY <1>t, <1>1, OneInLayers DEF TypeOK, gpu
<1>3. stream = <<>> /\ Holds(rows, n, step)
  BY <1>1 DEF IInv, Gathering
<1>4. Len(stream') = 0
  BY <1>1, <1>3
<1>5. Copying'
  <2>1. fast => \A l \in Layers : Holds(rows_host[l], n, step)
    BY <1>1 DEF IInv, Gathering
  <2> QED
    BY <1>1, <1>3, <1>4, <2>1 DEF Copying, Holds
<1>6. HashesComing' /\ Gathering'
  BY <1>1 DEF HashesComing, Gathering
<1>7. EventsPast'
  BY <1>1 DEF IInv, EventsPast
<1>8. CopiesComing' /\ ForwardsComing'
  BY <1>4 DEF CopiesComing, ForwardsComing
<1> QED
  BY <1>2, <1>5, <1>6, <1>7, <1>8 DEF IInv

LEMMA OneAppended ==
    ASSUME NEW S, NEW s \in Seq(S), NEW e \in S
    PROVE  /\ Len(s) \in Nat /\ Append(s, e) \in Seq(S) /\ Len(Append(s, e)) = Len(s) + 1
           /\ \A k \in 1..Len(s) : Append(s, e)[k] = s[k]
           /\ Append(s, e)[Len(s) + 1] = e
<1>1. Len(s) \in Nat
  OBVIOUS
<1>2. /\ Append(s, e) \in Seq(S)
      /\ Len(Append(s, e)) = Len(s) + 1
      /\ \A i \in 1..Len(s) : Append(s, e)[i] = s[i]
      /\ Append(s, e)[Len(s) + 1] = e
  BY AppendProperties
<1> QED
  BY <1>1, <1>2

LEMMA CopyInKeeps ==
    ASSUME IInv, CopyIn
    PROVE  IInv'
<1> DEFINE op == Op("h2d", step, n, layer)
           L == Len(stream)
<1>t. TypeOK
  BY DEF IInv
<1>1. /\ pc = "copy" /\ layer <= NumLayers
      /\ stream' = Append(stream, op) /\ layer' = layer + 1
      /\ UNCHANGED <<fast, pc, step, n, reading, rows, hashes_ready, gpu, hash_host>>
  BY DEF CopyIn
<1>2. layer \in Layers /\ layer' \in 1 .. NumLayers + 1 /\ layer \in Nat
  BY <1>t, <1>1, OneInLayers DEF TypeOK, Layers
<1>3. op \in Ops /\ op.kind = "h2d" /\ op.step = step /\ op.n = n /\ op.layer = layer
  BY <1>t, <1>2, OpsTyped DEF Op, TypeOK
<1>4. /\ L \in Nat /\ stream' \in Seq(Ops) /\ Len(stream') = L + 1
      /\ \A k \in 1..L : stream'[k] = stream[k]
      /\ stream'[L + 1] = op
  BY <1>t, <1>1, <1>3, OneAppended DEF TypeOK
<1> HIDE DEF op
<1>5. Written(rows_host[layer], n, rows) \in Buffers
      /\ \A i \in 1..n : Written(rows_host[layer], n, rows)[i] = rows[i]
  BY <1>t, <1>2, WrittenTyped DEF TypeOK
<1>6. rows_host' = IF fast THEN rows_host
                   ELSE [rows_host EXCEPT ![layer] = Written(rows_host[layer], n, rows)]
  BY DEF CopyIn
<1>7. /\ Holds(rows, n, step)
      /\ fast => \A l \in Layers : Holds(rows_host[l], n, step)
      /\ \A k \in 1..L :
            /\ stream[k].kind = "h2d" /\ stream[k].layer < layer
            /\ stream[k].step = step /\ stream[k].n = n
      /\ \A l \in 1 .. layer - 1 :
            \/ Holds(staged_rows[l], n, step)
            \/ \E j \in 1..L : stream[j].layer = l
  BY <1>1 DEF IInv, Copying
<1>8. rows_host' \in [Layers -> Buffers]
  BY <1>t, <1>5, <1>6 DEF TypeOK
<1>9. /\ Holds(rows_host'[layer], n, step)
      /\ \A l \in Layers \ {layer} : rows_host'[l] = rows_host[l]
  BY <1>t, <1>2, <1>5, <1>6, <1>7 DEF Holds, TypeOK
<1>10. TypeOK'
  BY <1>t, <1>1, <1>2, <1>4, <1>8 DEF TypeOK, gpu
<1>11. HashesComing' /\ Gathering'
  BY <1>1 DEF HashesComing, Gathering
<1>12. \A k \in 1..Len(stream') :
          \/ k \in 1..L /\ stream'[k] = stream[k]
          \/ k = L + 1 /\ stream'[k] = op
  BY <1>4
<1>13. \A k \in 1..Len(stream') : stream'[k].kind = "h2d"
  BY <1>3, <1>7, <1>12
<1>14. EventsPast'
  BY <1>1, <1>13 DEF IInv, EventsPast
<1>15. Copying'
  <2>1. ASSUME NEW k \in 1..Len(stream')
        PROVE  /\ stream'[k].kind = "h2d" /\ stream'[k].layer < layer'
               /\ stream'[k].step = step /\ stream'[k].n = n
    <3>1. CASE k \in 1..L /\ stream'[k] = stream[k]
      <4>1. stream[k] \in Ops /\ stream[k].layer < layer
        BY <1>t, <1>7, <3>1 DEF TypeOK
      <4>2. stream[k].layer < layer'
        BY <1>1, <1>2, <4>1 DEF Ops, Layers
      <4> QED
        BY <1>7, <3>1, <4>2
    <3>2. CASE stream'[k] = op
      BY <1>1, <1>2, <1>3, <3>2
    <3> QED
      BY <1>12, <3>1, <3>2
  <2>2. ASSUME NEW l \in 1 .. layer' - 1
        PROVE  \/ Holds(staged_rows[l], n, step)
               \/ \E j \in 1..Len(stream') : stream'[j].layer = l
    <3>1. CASE l = layer
      <4>1. L + 1 \in 1..Len(stream') /\ stream'[L + 1].layer = l
        BY <1>3, <1>4, <3>1
      <4> QED
        BY <4>1
    <3>2. CASE l # layer
      <4>1. l \in 1 .. layer - 1
        BY <1>1, <1>2, <3>2
      <4>2. 1..L \subseteq 1..Len(stream')
        BY <1>4
      <4> QED
        BY <1>4, <1>7, <4>1, <4>2
    <3> QED
      BY <3>1, <3>2
  <2>3. fast => \A l \in Layers : Holds(rows_host'[l], n, step)
    BY <1>6, <1>7
  <2> QED
    BY <1>1, <1>7, <2>1, <2>2, <2>3 DEF Copying, Holds, gpu
<1>16. CopiesComing'
  <2>1. ASSUME NEW k \in 1..Len(stream')
        PROVE  Holds(rows_host'[stream'[k].layer], stream'[k].n, stream'[k].step)
    <3>1. CASE k \in 1..L /\ stream'[k] = stream[k]
      <4>1. stream[k] \in Ops /\ stream[k].layer < layer
        BY <1>t, <1>7, <3>1 DEF TypeOK
      <4>2. stream[k].layer \in Layers \ {layer}
        BY <1>2, <4>1 DEF Ops, Layers
      <4>3. Holds(rows_host[stream[k].layer], stream[k].n, stream[k].step)
        BY <1>7, <3>1 DEF IInv, CopiesComing, At
      <4> QED
        BY <1>9, <3>1, <4>2, <4>3
    <3>2. CASE stream'[k] = op
      BY <1>3, <1>9, <3>2
    <3> QED
      BY <1>12, <3>1, <3>2
  <2> QED
    BY <2>1 DEF CopiesComing, Holds
<1>17. ForwardsComing'
  BY <1>13 DEF ForwardsComing, At
<1> QED
  BY <1>10, <1>11, <1>14, <1>15, <1>16, <1>17 DEF IInv

LEMMA LaunchKeeps ==
    ASSUME IInv, Launch
    PROVE  IInv'
<1> DEFINE op == Op("forward", step, n, 1)
           L == Len(stream)
<1>t. TypeOK
  BY DEF IInv
<1>1. /\ pc = "copy" /\ layer = NumLayers + 1
      /\ stream' = Append(stream, op) /\ pc' = "run"
      /\ UNCHANGED <<fast, step, n, reading, layer, rows, hashes_ready, gpu, hash_host, rows_host>>
  BY DEF Launch
<1>2. op \in Ops /\ op.kind = "forward" /\ op.step = step /\ op.n = n
  BY <1>t, OneInLayers, OpsTyped DEF Op, TypeOK
<1>3. /\ L \in Nat /\ stream' \in Seq(Ops) /\ Len(stream') = L + 1
      /\ \A k \in 1..L : stream'[k] = stream[k]
      /\ stream'[L + 1] = op
  BY <1>t, <1>1, <1>2, OneAppended DEF TypeOK
<1> HIDE DEF op
<1>4. /\ \A k \in 1..L :
            /\ stream[k].kind = "h2d"
            /\ stream[k].step = step /\ stream[k].n = n
      /\ \A l \in 1 .. layer - 1 :
            \/ Holds(staged_rows[l], n, step)
            \/ \E j \in 1..L : stream[j].layer = l
  BY <1>1 DEF IInv, Copying
<1>5. \A k \in 1..Len(stream') :
         \/ k \in 1..L /\ stream'[k] = stream[k] /\ stream'[k].kind = "h2d"
         \/ k = L + 1 /\ stream'[k] = op /\ stream'[k].kind = "forward"
  BY <1>2, <1>3, <1>4
<1>6. TypeOK'
  BY <1>t, <1>1, <1>3 DEF TypeOK, gpu
<1>7. HashesComing' /\ Gathering' /\ Copying'
  BY <1>1 DEF HashesComing, Gathering, Copying
<1>8. EventsPast'
  BY <1>1, <1>5 DEF IInv, EventsPast
<1>9. CopiesComing'
  <2>1. ASSUME NEW k \in 1..Len(stream'), stream'[k].kind = "h2d"
        PROVE  Holds(rows_host'[stream'[k].layer], stream'[k].n, stream'[k].step)
    <3>1. k \in 1..L /\ stream'[k] = stream[k] /\ At(k, "h2d")
      BY <1>5, <2>1 DEF At
    <3> QED
      BY <1>1, <3>1 DEF IInv, CopiesComing
  <2> QED
    BY <2>1 DEF CopiesComing, At, Holds
<1>10. ForwardsComing'
  <2> SUFFICES ASSUME NEW k \in 1..Len(stream'), stream'[k].kind = "forward"
               PROVE  /\ \A j \in 1..Len(stream') : At(j, "h2d")' =>
                            stream'[j].step = stream'[k].step /\ stream'[j].n = stream'[k].n
                      /\ \A l \in Layers :
                            \/ Holds(staged_rows[l], stream[k].n, stream[k].step)'
                            \/ \E j \in 1 .. k - 1 : At(j, "h2d")' /\ stream'[j].layer = l
    BY DEF ForwardsComing, At
  <2>1. k = L + 1 /\ stream'[k].step = step /\ stream'[k].n = n
    BY <1>2, <1>5
  <2>2. ASSUME NEW l \in Layers
        PROVE  \/ Holds(staged_rows[l], n, step)
               \/ \E j \in 1..L : stream[j].layer = l
    <3>1. l \in 1 .. layer - 1
      BY <1>1, OneInLayers DEF Layers
    <3> QED
      BY <1>4, <3>1
  <2>3. \A j \in 1..L : At(j, "h2d")' /\ stream'[j] = stream[j]
    BY <1>3, <1>4 DEF At
  <2>4. k - 1 = L
    BY <1>3, <2>1
  <2>5. \A j \in 1..Len(stream') : At(j, "h2d")' =>
           stream'[j].step = step /\ stream'[j].n = n
    BY <1>4, <1>5 DEF At
  <2> QED
    BY <1>1, <2>1, <2>2, <2>3, <2>4, <2>5 DEF Holds, gpu
<1> QED
  BY <1>6, <1>7, <1>8, <1>9, <1>10 DEF IInv

LEMMA FirstRemoved ==
    ASSUME NEW S, NEW s \in Seq(S), s # <<>>
    PROVE  /\ Len(s) \in Nat \ {0} /\ Head(s) = s[1] /\ s[1] \in S
           /\ Tail(s) \in Seq(S) /\ Len(Tail(s)) = Len(s) - 1
           /\ \A k \in 1 .. Len(s) - 1 : Tail(s)[k] = s[k + 1]
<1>1. Len(s) \in Nat \ {0} /\ Head(s) = s[1]
  OBVIOUS
<1>2. s[1] \in S
  BY <1>1
<1>3. /\ Tail(s) \in Seq(S)
      /\ Len(Tail(s)) = Len(s) - 1
      /\ \A i \in 1 .. Len(Tail(s)) : Tail(s)[i] = s[i + 1]
  BY HeadTailProperties
<1> QED
  BY <1>1, <1>2, <1>3

LEMMA ExecuteKeeps ==
    ASSUME IInv, Execute
    PROVE  IInv'
<1> DEFINE op == stream[1]
           L == Len(stream)
<1>t. TypeOK
  BY DEF IInv
<1>1. /\ L \in Nat \ {0} /\ op \in Ops /\ op = Head(stream)
      /\ stream' \in Seq(Ops) /\ Len(stream') = L - 1
      /\ \A k \in 1 .. L - 1 : stream'[k] = stream[k + 1]
  BY <1>t, FirstRemoved DEF Execute, TypeOK
<1>2. /\ inputs' = IF op.kind = "inputs" THEN op.step ELSE inputs
      /\ hashes' = IF op.kind = "hash" THEN inputs ELSE hashes
      /\ hash_host' = IF op.kind = "d2h"
                      THEN Written(hash_host, op.n, [i \in Tokens |-> hashes]) ELSE hash_host
      /\ hashes_ready' = IF op.kind = "event" THEN op.step ELSE hashes_ready
      /\ staged_rows' = IF op.kind = "h2d"
                        THEN [staged_rows EXCEPT ![op.layer] =
                                 Written(staged_rows[op.layer], op.n, rows_host[op.layer])]
                        ELSE staged_rows
  BY <1>1 DEF Execute
<1>3. UNCHANGED <<fast, pc, step, n, reading, layer, rows, rows_host>> /\ stream # <<>>
  BY DEF Execute, host
<1> HIDE DEF L
<1>4. op.n \in Tokens /\ op.step \in Nat /\ op.layer \in Layers
  BY <1>1 DEF Ops
<1> HIDE DEF op
<1>5. [i \in Tokens |-> hashes] \in Buffers
  BY <1>t DEF TypeOK, Buffers
<1>6. /\ Written(hash_host, op.n, [i \in Tokens |-> hashes]) \in Buffers
      /\ \A i \in 1..op.n : Written(hash_host, op.n, [j \in Tokens |-> hashes])[i]
                             = [j \in Tokens |-> hashes][i]
  BY <1>t, <1>4, <1>5, WrittenTyped DEF TypeOK
<1>7. /\ Written(staged_rows[op.layer], op.n, rows_host[op.layer]) \in Buffers
      /\ \A i \in 1..op.n : Written(staged_rows[op.layer], op.n, rows_host[op.layer])[i]
                             = rows_host[op.layer][i]
  <2>1. staged_rows[op.layer] \in Buffers /\ rows_host[op.layer] \in Buffers
    BY <1>t, <1>4 DEF TypeOK
  <2> QED
    BY <1>4, <2>1, WrittenTyped
<1>8. TypeOK'
  <2>1. staged_rows' \in [Layers -> Buffers]
    BY <1>t, <1>2, <1>7 DEF TypeOK
  <2>2. hash_host' \in Buffers
    BY <1>t, <1>2, <1>6 DEF TypeOK
  <2> QED
    BY <1>t, <1>1, <1>2, <1>3, <1>4, <2>1, <2>2 DEF TypeOK
\* The rows of a layer are those of the copy executed, or what they were.
<1>9. ASSUME NEW l \in Layers
      PROVE  \/ op.kind = "h2d" /\ op.layer = l /\ Holds(staged_rows'[l], op.n, op.step)
             \/ staged_rows'[l] = staged_rows[l] /\ ~ (op.kind = "h2d" /\ op.layer = l)
  <2>1. CASE op.kind = "h2d" /\ op.layer = l
    <3>1. Holds(rows_host[l], op.n, op.step)
      <4>1. 1 \in 1..Len(stream)
        BY <1>1 DEF L
      <4> QED
        BY <2>1, <4>1 DEF IInv, CopiesComing, At, op
    <3>2. staged_rows'[l] = Written(staged_rows[l], op.n, rows_host[l])
      BY <1>t, <1>2, <2>1 DEF TypeOK
    <3> QED
      BY <1>7, <2>1, <3>1, <3>2 DEF Holds
  <2>2. CASE ~ (op.kind = "h2d" /\ op.layer = l)
    BY <1>t, <1>2, <2>2 DEF TypeOK
  <2> QED
    BY <2>1, <2>2
<1>10. HashesComing'
  <2> SUFFICES ASSUME pc = "sync"
               PROVE  HashesComing'
    BY <1>3 DEF HashesComing
  <2>1. /\ hashes_ready = step => stream = <<>>
        /\ \A k \in 1 .. L - 1 : stream[k].kind = "event" => stream[k].step < step
        /\ L >= 1 => stream[L] = Op("event", step, n, 1)
        /\ L >= 2 => stream[L - 1] = Op("d2h", step, n, 1)
        /\ L >= 3 => stream[L - 2] = Op("hash", step, n, 1)
        /\ L >= 4 => stream[L - 3] = Op("inputs", step, n, 1)
        /\ L = 3 => inputs = step
        /\ L = 2 => hashes = step
        /\ L <= 1 => Holds(hash_host, n, step)
    BY DEF IInv, HashesComing, L
  <2>2. step \in Nat /\ n \in Tokens
    BY <1>t DEF TypeOK
  <2>3. hashes_ready' = step => stream' = <<>>
    <3>1. CASE op.kind = "event" /\ op.step = step
      <4>1. ~ (1 \in 1 .. L - 1)
        BY <2>1, <2>2, <3>1 DEF op
      <4>2. Len(stream') = 0
        BY <1>1, <4>1
      <4> QED
        BY <1>1, <4>2
    <3>2. CASE ~ (op.kind = "event" /\ op.step = step)
      BY <1>2, <1>3, <2>1, <3>2
    <3> QED
      BY <3>1, <3>2
  <2>4. ASSUME NEW k \in 1 .. Len(stream') - 1, stream'[k].kind = "event"
        PROVE  stream'[k].step < step
    <3>1. k + 1 \in 1 .. L - 1 /\ k \in 1 .. L - 1
      BY <1>1
    <3> QED
      BY <1>1, <2>1, <2>4, <3>1
  <2>5. \A i \in 0..3 : L - 1 >= i + 1 => stream'[L - 1 - i] = stream[L - i]
    <3> TAKE i \in 0..3
    <3> HAVE L - 1 >= i + 1
    <3>1. L - 1 - i \in 1 .. L - 1 /\ (L - 1 - i) + 1 = L - i
      BY <1>1
    <3> QED
      BY <1>1, <3>1
  <2>6. /\ L - 1 >= 1 => stream'[L - 1] = Op("event", step, n, 1)
        /\ L - 1 >= 2 => stream'[L - 1 - 1] = Op("d2h", step, n, 1)
        /\ L - 1 >= 3 => stream'[L - 1 - 2] = Op("hash", step, n, 1)
        /\ L - 1 >= 4 => stream'[L - 1 - 3] = Op("inputs", step, n, 1)
    <3>1. /\ L - 1 >= 1 => L >= 1 /\ stream'[L - 1 - 0] = stream[L - 0]
          /\ L - 0 = L /\ L - 1 - 0 = L - 1
      BY <1>1, <2>5
    <3>2. /\ L - 1 >= 2 => L >= 2 /\ stream'[L - 1 - 1] = stream[L - 1]
          /\ L - 1 >= 3 => L >= 3 /\ stream'[L - 1 - 2] = stream[L - 2]
          /\ L - 1 >= 4 => L >= 4 /\ stream'[L - 1 - 3] = stream[L - 3]
      BY <1>1, <2>5
    <3> QED
      BY <2>1, <3>1, <3>2
  <2>7. L - 1 = 3 => inputs' = step
    <3> HAVE L - 1 = 3
    <3>1. L = 4 /\ op = Op("inputs", step, n, 1)
      BY <1>1, <2>1 DEF op
    <3> QED
      BY <1>2, <3>1 DEF Op
  <2>8. L - 1 = 2 => hashes' = step
    <3> HAVE L - 1 = 2
    <3>1. L = 3 /\ op = Op("hash", step, n, 1) /\ inputs = step
      BY <1>1, <2>1 DEF op
    <3> QED
      BY <1>2, <3>1 DEF Op
  <2>9. L - 1 <= 1 => Holds(hash_host', n, step)
    <3>1. CASE L = 2
      <4>1. op = Op("d2h", step, n, 1) /\ hashes = step
        BY <2>1, <3>1 DEF op
      <4>2. \A i \in 1..n : i \in Tokens
        BY <2>2, OneInLayers DEF Tokens
      <4> QED
        BY <1>2, <1>6, <4>1, <4>2 DEF Op, Holds
    <3>2. CASE L = 1
      <4>1. op = Op("event", step, n, 1) /\ Holds(hash_host, n, step)
        BY <2>1, <3>2 DEF op
      <4> QED
        BY <1>2, <4>1 DEF Op
    <3> QED
      BY <1>1, <3>1, <3>2
  <2> QED
    BY <1>1, <1>3, <2>3, <2>4, <2>6, <2>7, <2>8, <2>9 DEF HashesComing, Holds
<1>11. EventsPast'
  <2>1. \A k \in 1..L : stream[k].kind = "event" => stream[k].step <= step
    BY DEF IInv, EventsPast, L
  <2>2. hashes_ready' <= step
    BY <1>1, <1>2, <2>1 DEF IInv, EventsPast, op
  <2>3. \A k \in 1 .. L - 1 : k + 1 \in 1..L
    BY <1>1
  <2> QED
    BY <1>1, <1>3, <2>1, <2>2, <2>3 DEF EventsPast
<1>12. Gathering'
  BY <1>3 DEF IInv, Gathering
<1>13. \A k \in 1..Len(stream') : k + 1 \in 2..L /\ k + 1 \in 1..L /\ stream'[k] = stream[k + 1]
  BY <1>1
<1>14. \A k \in 2..L : k - 1 \in 1..Len(stream') /\ stream'[k - 1] = stream[k]
  <2> TAKE k \in 2..L
  <2>1. k - 1 \in 1 .. L - 1 /\ (k - 1) + 1 = k
    BY <1>1
  <2> QED
    BY <1>1, <2>1
<1>15. Copying'
  <2> SUFFICES ASSUME pc = "copy"
               PROVE  Copying'
    BY <1>3 DEF Copying
  <2>1. /\ Holds(rows, n, step)
        /\ fast => \A l \in Layers : Holds(rows_host[l], n, step)
        /\ \A k \in 1..L :
              /\ stream[k].kind = "h2d" /\ stream[k].layer < layer
              /\ stream[k].step = step /\ stream[k].n = n
        /\ \A l \in 1 .. layer - 1 :
              \/ Holds(staged_rows[l], n, step)
              \/ \E j \in 1..L : stream[j].layer = l
    BY DEF IInv, Copying, L
  <2>2. op.kind = "h2d" /\ op.step = step /\ op.n = n
    BY <1>1, <2>1 DEF op
  <2>3. ASSUME NEW l \in 1 .. layer - 1
        PROVE  \/ Holds(staged_rows'[l], n, step)
               \/ \E j \in 1..Len(stream') : stream'[j].layer = l
    <3>1. l \in Layers
      BY <1>t, OneInLayers DEF TypeOK, Layers
    <3>2. CASE op.layer = l
      BY <1>9, <2>2, <3>1, <3>2
    <3>3. CASE op.layer # l /\ Holds(staged_rows[l], n, step)
      BY <1>9, <3>1, <3>3
    <3>4. CASE op.layer # l /\ \E j \in 1..L : stream[j].layer = l
      <4>1. PICK j \in 1..L : stream[j].layer = l
        BY <3>4
      <4>2. j \in 2..L
        BY <1>1, <3>4, <4>1 DEF op
      <4> QED
        BY <1>14, <4>1, <4>2
    <3> QED
      BY <2>1, <3>2, <3>3, <3>4
  <2>4. \A k \in 1..Len(stream') :
           /\ stream'[k].kind = "h2d" /\ stream'[k].layer < layer
           /\ stream'[k].step = step /\ stream'[k].n = n
    BY <1>13, <2>1
  <2> QED
    BY <1>3, <2>1, <2>3, <2>4 DEF Copying, Holds
<1>16. CopiesComing'
  <2>1. ASSUME NEW k \in 1..Len(stream'), stream'[k].kind = "h2d"
        PROVE  Holds(rows_host[stream'[k].layer], stream'[k].n, stream'[k].step)
    <3>1. At(k + 1, "h2d") /\ k + 1 \in 1..Len(stream)
      BY <1>13, <2>1 DEF At, L
    <3> QED
      BY <1>13, <3>1 DEF IInv, CopiesComing
  <2> QED
    BY <1>3, <2>1 DEF CopiesComing, At, Holds
<1>17. ForwardsComing'
  <2> SUFFICES ASSUME NEW k \in 1..Len(stream'), stream'[k].kind = "forward"
               PROVE  /\ \A j \in 1..Len(stream') : At(j, "h2d")' =>
                            stream'[j].step = stream'[k].step /\ stream'[j].n = stream'[k].n
                      /\ \A l \in Layers :
                            \/ Holds(staged_rows'[l], stream'[k].n, stream'[k].step)
                            \/ \E j \in 1 .. k - 1 : At(j, "h2d")' /\ stream'[j].layer = l
    BY DEF ForwardsComing, At, Holds
  <2>1. k + 1 \in 2..L /\ stream'[k] = stream[k + 1] /\ At(k + 1, "forward") /\ k + 1 \in 1..Len(stream)
    BY <1>13 DEF At, L
  <2>2. /\ \A j \in 1..L : At(j, "h2d") =>
              stream[j].step = stream'[k].step /\ stream[j].n = stream'[k].n
        /\ \A l \in Layers :
              \/ Holds(staged_rows[l], stream'[k].n, stream'[k].step)
              \/ \E j \in 1 .. (k + 1) - 1 : At(j, "h2d") /\ stream[j].layer = l
    BY <2>1 DEF IInv, ForwardsComing, L
  <2>3. \A j \in 1..Len(stream') : At(j, "h2d")' => At(j + 1, "h2d")
    BY <1>13 DEF At, L
  <2>4. op.kind = "h2d" => op.step = stream'[k].step /\ op.n = stream'[k].n
    BY <1>1, <2>2 DEF At, op, L
  <2>5. ASSUME NEW l \in Layers
        PROVE  \/ Holds(staged_rows'[l], stream'[k].n, stream'[k].step)
               \/ \E j \in 1 .. k - 1 : At(j, "h2d")' /\ stream'[j].layer = l
    <3>1. CASE op.kind = "h2d" /\ op.layer = l
      BY <1>9, <2>4, <3>1
    <3>2. CASE ~ (op.kind = "h2d" /\ op.layer = l)
      <4>1. CASE Holds(staged_rows[l], stream'[k].n, stream'[k].step)
        BY <1>9, <3>2, <4>1
      <4>2. CASE \E j \in 1 .. (k + 1) - 1 : At(j, "h2d") /\ stream[j].layer = l
        <5>1. PICK j \in 1 .. (k + 1) - 1 : At(j, "h2d") /\ stream[j].layer = l
          BY <4>2
        <5>2. j # 1
          BY <3>2, <5>1 DEF At, op
        <5>3. j \in 2..L /\ j - 1 \in 1 .. k - 1
          <6>1. k \in Nat /\ k <= L - 1 /\ L \in Nat
            BY <1>1
          <6>2. j \in Nat /\ 1 <= j /\ j <= k
            BY <5>1, <6>1
          <6> QED
            BY <5>2, <6>1, <6>2
        <5>4. At(j - 1, "h2d")' /\ stream'[j - 1].layer = l
          BY <1>14, <5>1, <5>3 DEF At
        <5> QED
          BY <5>3, <5>4
      <4> QED
        BY <2>2, <4>1, <4>2
    <3> QED
      BY <3>1, <3>2
  <2> QED
    BY <1>13, <2>2, <2>3, <2>5
<1> QED
  BY <1>8, <1>10, <1>11, <1>12, <1>15, <1>16, <1>17 DEF IInv

LEMMA StutterKeeps ==
    ASSUME IInv, UNCHANGED vars
    PROVE  IInv'
BY DEF IInv, TypeOK, HashesComing, EventsPast, Gathering, Copying, CopiesComing,
       ForwardsComing, At, Holds, vars, host, gpu

LEMMA Invariance == Spec => []IInv
<1>1. IInv /\ [Next]_vars => IInv'
  BY PrepareKeeps, SynchronizeKeeps, GatherFastKeeps, GatheredKeeps, CopyInKeeps,
     LaunchKeeps, ExecuteKeeps, StutterKeeps DEF Next, Host
<1> QED
  BY Initially, <1>1, PTL DEF Spec

\* The host, the stream and the buffers of class EngramDiskStager keep their
\* types, whatever the layers, tokens and steps.
THEOREM TypeCorrect == Spec => []TypeOK
BY Invariance, PTL DEF IInv

\* No pinned buffer of the stager is written or read by the host while the
\* stream still has a copy from it or into it to execute.
THEOREM PinnedFreeAlways == Spec => []PinnedFree
<1>1. IInv => PinnedFree
  <2> SUFFICES ASSUME IInv PROVE PinnedFree
    OBVIOUS
  <2>1. CASE pc = "gather"
    BY <2>1 DEF IInv, Gathering, PinnedFree, Enqueued
  <2>2. CASE pc = "copy"
    <3>1. stream \in Seq(Ops) /\ layer \in Nat
      BY DEF IInv, TypeOK
    <3>2. DOMAIN stream = 1..Len(stream)
      BY <3>1
    <3>3. \A k \in DOMAIN stream : stream[k].kind = "h2d" /\ stream[k].layer < layer /\ stream[k] \in Ops
      BY <2>2, <3>1, <3>2 DEF IInv, Copying
    <3>4. \A l \in Layers : layer <= l => ~ Enqueued("h2d", l)
      BY <3>1, <3>3 DEF Enqueued, Ops, Layers
    <3>5. ~ Enqueued("d2h", 1)
      BY <3>3 DEF Enqueued
    <3> QED
      BY <2>2, <3>4, <3>5 DEF PinnedFree
  <2> QED
    BY <2>1, <2>2 DEF PinnedFree
<1> QED
  BY Invariance, <1>1, PTL

\* Every forward reads, in each engram layer and for each of its tokens, the
\* rows staged for its own step, however far the stream is behind the host.
THEOREM ForwardReadsOwnAlways == Spec => []ForwardReadsOwn
<1>1. IInv => ForwardReadsOwn
  <2> SUFFICES ASSUME IInv, stream # <<>>, Head(stream).kind = "forward"
               PROVE  \A l \in Layers : \A i \in 1 .. Head(stream).n :
                         staged_rows[l][i] = Head(stream).step
    BY DEF ForwardReadsOwn
  <2>1. Head(stream) = stream[1] /\ 1 \in 1..Len(stream) /\ At(1, "forward")
    <3>1. stream \in Seq(Ops)
      BY DEF IInv, TypeOK
    <3>2. Len(stream) \in Nat \ {0} /\ Head(stream) = stream[1]
      BY <3>1, FirstRemoved
    <3> QED
      BY <3>2 DEF At
  <2>2. ~ \E j \in 1 .. 1 - 1 : TRUE
    OBVIOUS
  <2> QED
    BY <2>1, <2>2 DEF IInv, ForwardsComing, Holds
<1> QED
  BY Invariance, <1>1, PTL
=============================================================================
