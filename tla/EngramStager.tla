---------------------------- MODULE EngramStager ----------------------------
(***************************************************************************)
(* Staging the rows of the engram tables for each step of the model, from  *)
(* disk over pinned host memory to the GPU, while the GPU may still be at  *)
(* the step before.                                                        *)
(*                                                                         *)
(* src/cuda-gb10-vllm-dsv41-exl3/patches/engram.py, class                  *)
(* EngramDiskStager, called from model_state.py. The host enqueues work on *)
(* a CUDA stream, which executes it in order and later; the buffers it     *)
(* works on are reused by every step. The runner that writes a step's      *)
(* inputs and launches its forward is not under src/.                      *)
(*                                                                         *)
(* What a buffer holds is told by the step it is of, token by token: the   *)
(* inputs, hashes and rows of step s are all s, and 0 is none.             *)
(***************************************************************************)
EXTENDS Naturals, Sequences

CONSTANTS
    NumLayers,    \* engram layers of this rank
    MaxTokens,    \* max_num_batched_tokens
    MaxSteps      \* bound: steps prepared

ASSUME SizesAssumption == {NumLayers, MaxTokens} \subseteq Nat \ {0}
ASSUME StepsAssumption == MaxSteps \in Nat

Layers == 1..NumLayers
Tokens == 1..MaxTokens

Buffers == [Tokens -> Nat]

Op(kind, step, n, layer) == [kind |-> kind, step |-> step, n |-> n, layer |-> layer]

Ops == [kind : {"inputs", "hash", "d2h", "event", "h2d", "forward"},
        step : Nat, n : Tokens, layer : Layers]

VARIABLES
    fast,        \* DSV41_ENGRAM_FAST=1
    pc,          \* host: "run", "sync", "gather" or "copy"
    step,        \* the step the host is at
    n,           \* its tokens
    reading,     \* fast: the layers whose rows are still being gathered
    layer,       \* the next layer to copy
    rows,        \* what the host has read of hash_host, the rows it gathers
    stream,      \* what is enqueued and not yet executed, in order
    hashes_ready,            \* the event: the step of its last record executed
    inputs, hashes,          \* on the GPU: the step's inputs and hashes
    hash_host, rows_host,    \* in pinned memory
    staged_rows              \* on the GPU, per layer

host == <<fast, pc, step, n, reading, layer, rows>>
gpu  == <<inputs, hashes, staged_rows>>
vars == <<host, stream, hashes_ready, gpu, hash_host, rows_host>>

\* Steps count up, and every buffer and enqueued operation is of its kind.
TypeOK ==
    /\ fast \in BOOLEAN
    /\ pc \in {"run", "sync", "gather", "copy"}
    /\ step \in Nat
    /\ n \in Tokens
    /\ reading \subseteq Layers
    /\ layer \in 1 .. NumLayers + 1
    /\ rows \in Buffers
    /\ stream \in Seq(Ops)
    /\ hashes_ready \in Nat
    /\ inputs \in Nat
    /\ hashes \in Nat
    /\ hash_host \in Buffers
    /\ rows_host \in [Layers -> Buffers]
    /\ staged_rows \in [Layers -> Buffers]

Blank == [i \in Tokens |-> 0]

\* The KV cache is bound: while it is not (profiling), stage() returns at once
\* and the forward leaves the engram layers out.
Init ==
    /\ fast \in BOOLEAN
    /\ pc = "run"
    /\ step = 0
    /\ n = 1
    /\ reading = {}
    /\ layer = 1
    /\ rows = Blank
    /\ stream = <<>>
    /\ hashes_ready = 0
    /\ inputs = 0
    /\ hashes = 0
    /\ hash_host = Blank
    /\ rows_host = [l \in Layers |-> Blank]
    /\ staged_rows = [l \in Layers |-> Blank]

\* The first k tokens of a buffer are rewritten.
Written(buffer, k, value) == [i \in Tokens |-> IF i <= k THEN value[i] ELSE buffer[i]]

-----------------------------------------------------------------------------
(* The host: stage(), once per step *)

\* Mutant: the event is recorded before the copy it is to wait for.
RecordsEarly(s, k) ==
    << Op("inputs", s, k, 1), Op("hash", s, k, 1),
       Op("event", s, k, 1), Op("d2h", s, k, 1) >>

\* The runner writes the inputs, stage() hashes them and copies the hashes out.
HashAndCopyOut(s, k) ==
    << Op("inputs", s, k, 1), Op("hash", s, k, 1),
       Op("d2h", s, k, 1), Op("event", s, k, 1) >>

Prepare ==
    /\ pc = "run"
    /\ step < MaxSteps
    /\ pc' = "sync"
    /\ step' = step + 1
    /\ n' \in Tokens
    /\ stream' = stream \o HashAndCopyOut(step', n')
    /\ UNCHANGED <<fast, reading, layer, rows, hashes_ready, gpu, hash_host, rows_host>>

\* Mutant: the host does not wait for the event.
SynchronizeNot ==
    /\ pc = "sync"
    /\ pc' = "gather"
    /\ rows' = Written(rows, n, hash_host)
    /\ reading' = IF fast THEN Layers ELSE {}
    /\ UNCHANGED <<fast, step, n, layer, stream, hashes_ready, gpu, hash_host, rows_host>>

\* hashes_ready.synchronize(), the one wait for the stream; then the hashes
\* are read and say which rows to gather.
Synchronize ==
    /\ pc = "sync"
    /\ hashes_ready = step
    /\ pc' = "gather"
    /\ rows' = Written(rows, n, hash_host)
    /\ reading' = IF fast THEN Layers ELSE {}
    /\ UNCHANGED <<fast, step, n, layer, stream, hashes_ready, gpu, hash_host, rows_host>>

\* _stage_fast(): the threads of the pool gather into pinned memory, in any
\* order.
GatherFast(l) ==
    /\ pc = "gather"
    /\ l \in reading
    /\ rows_host' = [rows_host EXCEPT ![l] = Written(@, n, rows)]
    /\ reading' = reading \ {l}
    /\ UNCHANGED <<fast, pc, step, n, layer, rows, stream, hashes_ready, gpu, hash_host>>

\* Every task's result is waited for. Without DSV41_ENGRAM_FAST the rows are gathered into
\* memory of their own.
Gathered ==
    /\ pc = "gather"
    /\ reading = {}
    /\ pc' = "copy"
    /\ layer' = 1
    /\ UNCHANGED <<fast, step, n, reading, rows, stream, hashes_ready, gpu, hash_host, rows_host>>

\* One layer's rows, or the map from them to the tokens if they were gathered
\* there already, are put into pinned memory; the copy to the GPU is enqueued.
CopyIn ==
    /\ pc = "copy"
    /\ layer <= NumLayers
    /\ rows_host' = IF fast THEN rows_host
                    ELSE [rows_host EXCEPT ![layer] = Written(@, n, rows)]
    /\ stream' = Append(stream, Op("h2d", step, n, layer))
    /\ layer' = layer + 1
    /\ UNCHANGED <<fast, pc, step, n, reading, rows, hashes_ready, gpu, hash_host>>

\* stage() returns and the runner launches the forward.
Launch ==
    /\ pc = "copy"
    /\ layer = NumLayers + 1
    /\ stream' = Append(stream, Op("forward", step, n, 1))
    /\ pc' = "run"
    /\ UNCHANGED <<fast, step, n, reading, layer, rows, hashes_ready, gpu, hash_host, rows_host>>

-----------------------------------------------------------------------------
(* The stream *)

\* The next operation is executed: rows come in over staged_rows, hashes go out
\* over hash_host.
Execute ==
    /\ stream # <<>>
    /\ stream' = Tail(stream)
    /\ LET op == Head(stream)
           is(kind) == op.kind = kind
       IN
          /\ inputs' = IF is("inputs") THEN op.step ELSE inputs
          /\ hashes' = IF is("hash") THEN inputs ELSE hashes
          /\ hash_host' = IF is("d2h") THEN Written(hash_host, op.n, [i \in Tokens |-> hashes])
                          ELSE hash_host
          /\ hashes_ready' = IF is("event") THEN op.step ELSE hashes_ready
          /\ staged_rows' = IF is("h2d")
                            THEN [staged_rows EXCEPT ![op.layer] =
                                     Written(@, op.n, rows_host[op.layer])]
                            ELSE staged_rows
    /\ UNCHANGED <<host, rows_host>>

-----------------------------------------------------------------------------
Host ==
    \/ Prepare \/ Synchronize
    \/ \E l \in Layers : GatherFast(l)
    \/ Gathered \/ CopyIn \/ Launch

Next == Host \/ Execute

Spec == Init /\ [][Next]_vars

-----------------------------------------------------------------------------
(* Properties *)

Enqueued(kind, l) ==
    \E k \in DOMAIN stream : stream[k].kind = kind /\ stream[k].layer = l

\* engram.py:1472: one wait orders the rewriting of the pinned buffers after
\* the copies of the step before. No buffer is written with a copy from it, or
\* read with a copy into it, still to come.
PinnedFree ==
    /\ pc \in {"gather", "copy"} => ~ Enqueued("d2h", 1)
    /\ \A l \in Layers :
          (pc = "gather" \/ (pc = "copy" /\ layer <= l)) => ~ Enqueued("h2d", l)

\* A forward finds the rows of its own step, in every layer and for every of
\* its tokens: not those of the step before, which the GPU may be at while the
\* host prepares, nor of the step after.
ForwardReadsOwn ==
    (stream # <<>> /\ Head(stream).kind = "forward") =>
        \A l \in Layers : \A i \in 1 .. Head(stream).n :
            staged_rows[l][i] = Head(stream).step
=============================================================================
