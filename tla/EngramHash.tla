----------------------------- MODULE EngramHash -----------------------------
(***************************************************************************)
(* The n-gram hashes of the tokens of a step, and the table rows that the  *)
(* ranks fetch for them: NgramHashState, EngramLayout and                  *)
(* ParallelEngramEmbedding in                                              *)
(* src/cuda-gb10-vllm-dsv41-exl3/patches/engram.py, called from            *)
(* nvidia_model.py and model_state.py.                                     *)
(*                                                                         *)
(* An n-gram looks back on tokens of earlier steps. They come from the     *)
(* step itself, from a window that the runner passes, or, with the V1      *)
(* runner, from a cache with one entry per KV slot. The runner, scheduler  *)
(* and block pool are vLLM's, not under src/.                              *)
(*                                                                         *)
(* Positions, rows of a batch and columns count from 0, as in the code; a  *)
(* request's tokens are a sequence, the token at position p its (p+1)st.   *)
(***************************************************************************)
EXTENDS Integers, SequencesExt

CONSTANTS
    Requests,
    Prompts,         \* prompts a request may have
    Generated,       \* tokens that may be sampled or drafted
    Images,          \* ids that stand for parts of an image
    TokenMap,        \* from token ids to compressed ids
    PadId,           \* the compressed id of engram_pad_token_id
    MaxNgram,        \* engram_max_ngram_size
    BlockSize, NumBlocks, Window,    \* of the sliding-window KV cache
    MaxLen, MaxChunk, MaxDrafts,     \* bounds: of a request, of its part in a step, of drafts
    MaxPreempts,                     \* bound: preemptions
    Layers,          \* the engram layers
    VocabSize, NumHeads,             \* engram_vocab_size, engram_n_heads
    Rolling(_, _),   \* the rolling hash of a layer, of values
    TpSizes,         \* tensor parallel sizes
    LocalCopies      \* row ranges [lo, hi) of which a node may have a copy

Tokens == DOMAIN TokenMap

LookbackDepth == MaxNgram - 1

NumCols == LookbackDepth * NumHeads

Cdiv(a, b) == (a + b - 1) \div b

PartCols(tp) == Cdiv(NumCols, tp)

ASSUME NgramAssumption == MaxNgram \in Nat \ {0, 1}
ASSUME HeadsAssumption == NumHeads \in Nat \ {0}
ASSUME CopiesAssumption == \A copy \in LocalCopies : copy.lo \in Int /\ copy.hi \in Int
ASSUME BlockAssumption == {BlockSize, NumBlocks, Window} \subseteq Nat \ {0}
ASSUME BoundAssumption == {MaxLen, MaxChunk, MaxDrafts, MaxPreempts} \subseteq Nat

\* Every rank has a column: one without would have no rows to map.
ASSUME RanksAssumption ==
    \A tp \in TpSizes : tp \in Nat \ {0} /\ (tp - 1) * PartCols(tp) < NumCols

\* The window of attention keeps the blocks a live lookback needs.
ASSUME WindowAssumption == LookbackDepth < Window

ASSUME TokenAssumption ==
    /\ Tokens \subseteq Nat /\ Images \subseteq Tokens /\ Generated \subseteq Tokens
    /\ TokenMap \in [Tokens -> Nat] /\ PadId \in Nat
    /\ Prompts \subseteq Seq(Tokens)

Dead    == -1
Unknown == -1

VARIABLES
    runner,     \* "v2"; "v1"; "bare", a V1 runner that passes no window
    status,     \* of a request: "out", "waiting", "running" or "done"
    tokens,     \* all_token_ids
    prompt,     \* the length of the prompt
    computed,   \* num_computed_tokens
    table,      \* the row of the block table, 0 for a block given back
    content,    \* the prefix a block was filled with
    cache,      \* _cache: the compressed id last written to a slot
    batch,      \* the step at work
    preempts,   \* preemptions so far
    loaded      \* history: slots whose KV came from another instance, not written since

pool == <<table, content>>
vars == <<runner, status, tokens, prompt, computed, pool, cache, batch, preempts, loaded>>

Slots == 0..((NumBlocks + 1) * BlockSize - 1)
-----------------------------------------------------------------------------
(* A step: the requests of its rows, and its tensors *)

Empty == [reqs |-> <<>>, input_ids |-> <<>>, positions |-> <<>>, slot_mapping |-> <<>>,
          query_start_loc |-> <<0>>]

NumTokens == Len(batch.input_ids)
BatchTokens == 0..(NumTokens - 1)

Position(i) == batch.positions[i + 1]

\* Mutant: the window begins with the first token of the chunk.
WindowFromChunk(r) ==
    [c \in 0..(LookbackDepth - 1) |->
        LET p == computed[r] - c
        IN  IF p < 0 \/ runner = "bare" \/ (runner = "v1" /\ p >= prompt[r])
            THEN Unknown ELSE tokens[r][p + 1]]

\* The ids before a chunk, the nearest first. A V1 runner knows those of the
\* prompt.
LookbackTokenIds(r) ==
    [c \in 0..(LookbackDepth - 1) |->
        LET p == computed[r] - 1 - c
        IN  IF p < 0 \/ runner = "bare" \/ (runner = "v1" /\ p >= prompt[r])
            THEN Unknown ELSE tokens[r][p + 1]]
-----------------------------------------------------------------------------
(* The kernels *)

Compressed(id) == IF id \in Images THEN Dead ELSE TokenMap[id]

SlotOf(r, p) == table[r][(p \div BlockSize) + 1] * BlockSize + (p % BlockSize)

\* Every token of the step is written to its slot first.
Written ==
    IF runner = "v2" THEN cache
    ELSE [s \in Slots |->
            LET here == {i \in BatchTokens : batch.slot_mapping[i + 1] = s}
            IN  IF here = {} THEN cache[s] ELSE Compressed(batch.input_ids[Max(here) + 1])]

\* What the slots hold of KV that was loaded is not a token's.
Missing == loaded \ Range(batch.slot_mapping)

\* The row of the batch a token is in, from the boundaries.
RowOf(i) == Min({q \in 1..Len(batch.reqs) : i < batch.query_start_loc[q + 1]})

ChunkStart(q) == Position(Min({batch.query_start_loc[q], NumTokens - 1}))

\* What lies shift tokens back.
Source(i, shift) ==
    LET lookback == Position(i) - shift
        start    == ChunkStart(RowOf(i))
        col      == start - 1 - lookback
        r        == batch.reqs[RowOf(i)]
        known    == col < LookbackDepth /\ LookbackTokenIds(r)[col] # Unknown
    IN  IF lookback >= start THEN Compressed(batch.input_ids[Max({i - shift, 0}) + 1])
        ELSE IF known THEN Compressed(LookbackTokenIds(r)[col])
        ELSE IF runner = "v2" THEN PadId
        ELSE Written[SlotOf(r, Max({lookback, 0}))]

\* Mutant: an image in between does not block.
ValuesThrough(i) ==
    [s \in 1..MaxNgram |->
        IF Position(i) - (s - 1) < 0 \/ Source(i, s - 1) = Dead THEN PadId ELSE Source(i, s - 1)]

\* What enters the rolling hash: an n-gram does not reach over the start of the
\* text or over an image.
Values(i) ==
    [s \in 1..MaxNgram |->
        IF \E t \in 0..(s - 1) : Position(i) - t < 0 \/ Source(i, t) = Dead
        THEN PadId ELSE Source(i, s - 1)]
-----------------------------------------------------------------------------
(* The tables: one bucket per column, of a prime size *)

IsPrime(n) == n > 1 /\ \A d \in 2..(n - 1) : n % d # 0

NextPrime(start, seen) ==
    LET p[n \in Nat] == IF IsPrime(n) /\ n \notin seen THEN n ELSE p[n + 1] IN p[start + 1]

\* The sizes are drawn in order, layer by layer, and never reused.
HeadSizes ==
    LET Draw(sizes, k) ==
          Append(sizes, NextPrime(IF k % NumHeads = 0 THEN VocabSize - 1 ELSE Last(sizes),
                                  ToSet(sizes)))
    IN  FoldLeft(Draw, <<>>, [k \in 1..(Cardinality(Layers) * NumCols) |-> k - 1])

SizesOf(layer) == SubSeq(HeadSizes, (layer - 1) * NumCols + 1, layer * NumCols)

Offset(layer, col) == FoldLeft(LAMBDA sum, n : sum + n, 0, SubSeq(SizesOf(layer), 1, col))

HashIds(layer, values) ==
    [col \in 0..(NumCols - 1) |->
        (Rolling(layer, SubSeq(values, 1, (col \div NumHeads) + 2)) % SizesOf(layer)[col + 1])
        + Offset(layer, col)]
-----------------------------------------------------------------------------
(* A rank's share: complete columns, and their rows *)

\* Mutant: the share of a rank ends where its columns begin.
PartVocabShort(tp, layer, rank) ==
    [start |-> Offset(layer, Min({rank * PartCols(tp), NumCols})),
     end   |-> Offset(layer, Min({rank * PartCols(tp) + 1, NumCols}))]

PartVocab(tp, layer, rank) ==
    [start |-> Offset(layer, Min({rank * PartCols(tp), NumCols})),
     end   |-> Offset(layer, Min({(rank + 1) * PartCols(tp), NumCols}))]

Hole == -2

\* The node-local copy is used only if it has all rows of the rank.
ReadRow(copy, part, row) ==
    LET usable == copy.lo <= part.start /\ part.end <= copy.hi
    IN  IF usable /\ ~(copy.lo <= row /\ row < copy.hi) THEN Hole ELSE row

\* A row that the rank does not own, and a column past the last, are zeros.
Zeros == -1

Lookup(tp, layer, rank, copy, ids) ==
    LET part == PartVocab(tp, layer, rank)
    IN  [c \in 0..(PartCols(tp) - 1) |->
            LET col == rank * PartCols(tp) + c
                owned == col < NumCols /\ part.start <= ids[col] /\ ids[col] < part.end
            IN  IF owned THEN ReadRow(copy, part, ids[col]) ELSE Zeros]

\* The columns of all ranks side by side, cut to those there are.
Embed(tp, layer, copy, ids) ==
    [col \in 0..(NumCols - 1) |->
        Lookup(tp, layer, col \div PartCols(tp), copy, ids)[col % PartCols(tp)]]

\* With sequence parallelism each rank has its share of the tokens, taken out
\* of all ranks' rows laid one after the other.
EmbedShare(tp, layer, copy, rank, ids) ==
    LET n        == Len(ids)
        chunk    == Cdiv(n, tp)
        local    == PartCols(tp)
        gathered == [k \in 0..(tp * n - 1) |->
                        Lookup(tp, layer, k \div n, copy, ids[(k % n) + 1])]
    IN  [k \in 0..(Min({chunk, Max({0, n - rank * chunk})}) - 1) |->
            [col \in 0..(NumCols - 1) |->
                gathered[(col \div local) * n + rank * chunk + k][col % local]]]
-----------------------------------------------------------------------------
(* The runner *)

None == [r \in Requests |-> <<>>]
Zero == [r \in Requests |-> 0]

Init ==
    /\ runner \in {"v2", "v1", "bare"}
    /\ status = [r \in Requests |-> "out"]
    /\ tokens = None
    /\ prompt = Zero
    /\ computed = Zero
    /\ table = None
    /\ content = [b \in 1..NumBlocks |-> <<>>]
    /\ cache = [s \in Slots |-> 0]
    /\ batch = Empty
    /\ preempts = 0
    /\ loaded = {}

Arrive(r, p) ==
    /\ status[r] = "out"
    /\ status' = [status EXCEPT ![r] = "waiting"]
    /\ tokens' = [tokens EXCEPT ![r] = p]
    /\ prompt' = [prompt EXCEPT ![r] = Len(p)]
    /\ UNCHANGED <<runner, computed, pool, cache, batch, preempts, loaded>>

Free == {b \in 1..NumBlocks : \A r \in Requests : b \notin Range(table[r])}

\* The place in the table of the block of position p is p \div BlockSize + 1.
\* Attention at position k needs those that end in its window.
InWindow(j, k) == j * BlockSize > k - (Window - 1)

\* r has the blocks of row where it may keep them, and new ones for the other
\* places up to len; ids are cached by the prefix they complete.
Allocate(r, row, len, new, full) ==
    LET fresh    == CHOOSE f \in Injection(new, Free) : TRUE
        Result   == [j \in 1..len |-> IF j \in new THEN fresh[j] ELSE row[j]]
        Place(b) == CHOOSE j \in 1..len : Result[j] = b
    IN  /\ Injection(new, Free) # {}
        /\ table' = [table EXCEPT ![r] = Result]
        /\ content' = [b \in 1..NumBlocks |->
              IF b \notin Range(Result) THEN content[b]
              ELSE IF Place(b) * BlockSize <= full THEN SubSeq(tokens[r], 1, Place(b) * BlockSize)
              ELSE IF b \in Free THEN <<>> ELSE content[b]]

Filled(r, j) == {b \in 1..NumBlocks : content[b] = SubSeq(tokens[r], 1, j * BlockSize)}

\* Blocks that were filled with this prefix, or are in this step, serve again.
Hit(r, k) ==
    LET needed == {j \in 1..(k \div BlockSize) : InWindow(j, k)}
    IN  /\ k % BlockSize = 0
        /\ \A j \in needed : Filled(r, j) # {}
        /\ Allocate(r, [j \in 1..(k \div BlockSize) |->
                           IF j \in needed THEN Min(Filled(r, j)) ELSE 0],
                    k \div BlockSize, {}, k)
        /\ UNCHANGED loaded

\* The KV of a part of the prompt comes from another instance: the slots of
\* its blocks are not written.
Load(r, k) ==
    LET len == Cdiv(k, BlockSize)
    IN  /\ runner = "v1"
        /\ k <= prompt[r]
        /\ Allocate(r, [j \in 1..len |-> 0], len, {j \in 1..len : InWindow(j, k)}, 0)
        /\ loaded' = loaded \cup {SlotOf(r, p)' : p \in {p \in 0..(k - 1) : InWindow((p \div BlockSize) + 1, k)}}

\* The first k tokens need not be computed.
Admit(r, k) ==
    /\ status[r] = "waiting"
    /\ k < Len(tokens[r])
    /\ IF runner = "v2" THEN UNCHANGED <<pool, loaded>> ELSE Hit(r, k) \/ Load(r, k)
    /\ status' = [status EXCEPT ![r] = "running"]
    /\ computed' = [computed EXCEPT ![r] = k]
    /\ UNCHANGED <<runner, tokens, prompt, cache, batch, preempts>>

InBatch(r) == r \in Range(batch.reqs)

\* The step with ids of r, from position start, as a row more.
WithRow(r, ids, start, row) ==
    LET here    == [k \in 1..Len(ids) |-> start + k - 1]
        Slot(p) == IF runner = "v2" THEN 0
                   ELSE row[(p \div BlockSize) + 1] * BlockSize + (p % BlockSize)
    IN  [reqs            |-> Append(batch.reqs, r),
         input_ids       |-> batch.input_ids \o ids,
         positions       |-> batch.positions \o here,
         slot_mapping    |-> batch.slot_mapping \o [k \in DOMAIN here |-> Slot(here[k])],
         query_start_loc |-> Append(batch.query_start_loc, NumTokens + Len(ids))]

\* The next n tokens of r join the step. Drafts follow the last known token.
\* Blocks that fell out of the window are given back.
Schedule(r, n, drafts) ==
    LET start == computed[r]
        end   == start + n
        total == end + Len(drafts)
        row   == [j \in DOMAIN table[r] |-> IF InWindow(j, start) THEN table[r][j] ELSE 0]
        len   == Max({Len(row), Cdiv(total, BlockSize)})
    IN  /\ status[r] = "running" /\ ~InBatch(r)
        /\ end <= Len(tokens[r])
        /\ total < MaxLen
        /\ drafts # <<>> => n = 1 /\ end = Len(tokens[r]) /\ start >= prompt[r]
        /\ IF runner = "v2" THEN UNCHANGED pool
           ELSE Allocate(r, row, len, (Len(row) + 1)..len, end)
        /\ batch' = WithRow(r, SubSeq(tokens[r], start + 1, end) \o drafts, start, table'[r])
        /\ UNCHANGED <<runner, status, tokens, prompt, computed, cache, preempts, loaded>>

\* What row q of the step is.
Chunk(q) == SubSeq(batch.input_ids, batch.query_start_loc[q] + 1, batch.query_start_loc[q + 1])

\* So many drafts are accepted, and one token is sampled after them.
Accepted(drafts) == {SubSeq(drafts, 1, m) \o <<t>> : m \in 0..Len(drafts), t \in Generated}

\* A chunk that ends with the last known token is answered, and its drafts.
Answers(q) ==
    LET r == batch.reqs[q]
        n == Len(Chunk(q))
    IN  IF computed[r] + n < Len(tokens[r]) THEN {<<>>}
        ELSE Accepted(SubSeq(Chunk(q), Len(tokens[r]) - computed[r] + 1, n))

\* Mutant: rejected drafts count as computed.
AfterAll(r, chunk, text) == computed[r] + Len(chunk)

\* Rejected drafts are computed again.
After(r, chunk, text) == Min({computed[r] + Len(chunk), Len(text) - 1})

Forward ==
    /\ batch # Empty
    /\ cache' = Written
    /\ \E answers \in {f \in [DOMAIN batch.reqs -> UNION {Answers(q) : q \in DOMAIN batch.reqs}] :
                        \A q \in DOMAIN batch.reqs : f[q] \in Answers(q)} :
          LET Row(r) == CHOOSE q \in DOMAIN batch.reqs : batch.reqs[q] = r
              Text(r) == tokens[r] \o answers[Row(r)]
          IN  /\ tokens' = [r \in Requests |-> IF InBatch(r) THEN Text(r) ELSE tokens[r]]
              /\ computed' = [r \in Requests |->
                    IF ~InBatch(r) THEN computed[r]
                    ELSE After(r, Chunk(Row(r)), Text(r))]
    /\ loaded' = Missing
    /\ batch' = Empty
    /\ UNCHANGED <<runner, status, prompt, pool, preempts>>

\* Preempted, a request is computed anew, also what it generated.
Preempt(r) ==
    /\ status[r] = "running" /\ ~InBatch(r)
    /\ preempts < MaxPreempts
    /\ preempts' = preempts + 1
    /\ status' = [status EXCEPT ![r] = "waiting"]
    /\ computed' = [computed EXCEPT ![r] = 0]
    /\ table' = [table EXCEPT ![r] = <<>>]
    /\ UNCHANGED <<runner, tokens, prompt, content, cache, batch, loaded>>

Finish(r) ==
    /\ status[r] = "running" /\ ~InBatch(r)
    /\ status' = [status EXCEPT ![r] = "done"]
    /\ tokens' = [tokens EXCEPT ![r] = <<>>]
    /\ prompt' = [prompt EXCEPT ![r] = 0]
    /\ computed' = [computed EXCEPT ![r] = 0]
    /\ table' = [table EXCEPT ![r] = <<>>]
    /\ UNCHANGED <<runner, content, cache, batch, preempts, loaded>>

Next ==
    \/ \E r \in Requests :
          \/ \E p \in Prompts : Arrive(r, p)
          \/ \E k \in 0..MaxLen : Admit(r, k)
          \/ \E n \in 1..MaxChunk, drafts \in BoundedSeq(Generated, MaxDrafts) :
                Schedule(r, n, drafts)
          \/ Preempt(r) \/ Finish(r)
    \/ Forward

Spec == Init /\ [][Next]_vars
-----------------------------------------------------------------------------
TypeOK ==
    /\ runner \in {"v2", "v1", "bare"}
    /\ status \in [Requests -> {"out", "waiting", "running", "done"}]
    /\ tokens \in [Requests -> Seq(Tokens)]
    /\ \A r \in Requests :
          /\ prompt[r] \in 0..Len(tokens[r])
          /\ computed[r] \in Nat /\ (tokens[r] # <<>> => computed[r] < Len(tokens[r]))
          /\ table[r] \in Seq(0..NumBlocks)
    /\ \A b \in 1..NumBlocks : content[b] \in Seq(Tokens)
    /\ cache \in [Slots -> {Dead} \cup Nat]
    /\ preempts \in Nat
    /\ loaded \subseteq Slots
    /\ batch.reqs \in Seq(Requests)
    /\ batch.input_ids \in Seq(Tokens)
    /\ Len(batch.query_start_loc) = Len(batch.reqs) + 1

\* The text that a token of the step ends: that of its request, with its drafts.
TextTo(i) ==
    LET q == CHOOSE q \in DOMAIN batch.reqs :
                batch.query_start_loc[q] <= i /\ i < batch.query_start_loc[q + 1]
    IN  SubSeq(tokens[batch.reqs[q]], 1, computed[batch.reqs[q]])
        \o SubSeq(Chunk(q), 1, i - batch.query_start_loc[q] + 1)

\* The n-grams at the end of a text, by themselves.
NgramsOf(text) ==
    [s \in 1..MaxNgram |->
        LET reach == Len(text) - s + 1
        IN  IF reach < 1 \/ \E p \in reach..Len(text) : text[p] \in Images
            THEN PadId ELSE TokenMap[text[reach]]]

\* What lies shift tokens back is looked up in a slot of loaded KV.
ReadsLoaded(i, shift) ==
    LET lookback == Position(i) - shift
        q        == RowOf(i)
        r        == batch.reqs[q]
        col      == ChunkStart(q) - 1 - lookback
    IN  /\ runner # "v2"
        /\ 0 <= lookback /\ lookback < ChunkStart(q)
        /\ LookbackTokenIds(r)[col] = Unknown
        /\ SlotOf(r, lookback) \in Missing

\* However a text is cut into steps, with whatever other requests it shares
\* them and whatever the slots held before: each token is hashed as in the
\* whole text, unless it looks back on a slot whose KV was loaded (then the
\* V1 runner has no id to pass if the token there was generated).
HashesOfWhole ==
    \A i \in BatchTokens :
        (\A shift \in 0..LookbackDepth : ~ReadsLoaded(i, shift)) => Values(i) = NgramsOf(TextTo(i))

\* The checkpoint: a layer's table is its buckets one after the other.
TableRow(layer, n) ==
    LET col == Max({c \in 0..(NumCols - 1) : Offset(layer, c) <= n})
    IN  <<col, n - Offset(layer, col)>>

\* A layer's row for a column of an n-gram.
Bucket(layer, ngram, col) ==
    <<col, Rolling(layer, SubSeq(ngram, 1, (col \div NumHeads) + 2)) % SizesOf(layer)[col + 1]>>

\* What may enter the rolling hash, whatever the texts: also what a slot holds
\* of another text, or before it is written.
HashedIds == {0, PadId} \cup {TokenMap[id] : id \in Tokens \ Images}

\* (in this form TLC enumerates it, and Fetched, once)
Ngrams == {ids : ids \in [1..MaxNgram -> HashedIds]}

\* The rolling hash is an integer.
ASSUME RollingAssumption ==
    \A layer \in Layers, g \in Ngrams, col \in 0..(NumCols - 1) :
        Rolling(layer, SubSeq(g, 1, (col \div NumHeads) + 2)) \in Int

\* n-grams of which every column gets its bucket's row: whatever the number of
\* ranks and the copy on a node, and in any place of a step, also when its
\* tokens are shared out.
Fetched ==
    {g \in Ngrams : \A layer \in Layers, tp \in TpSizes, copy \in LocalCopies :
        LET ids == HashIds(layer, g)
        IN  \A col \in 0..(NumCols - 1) :
              LET row == Embed(tp, layer, copy, ids)[col]
              IN  /\ row >= 0 /\ TableRow(layer, row) = Bucket(layer, g, col)
                  /\ \A n \in 1..MaxChunk : \A i \in 0..(n - 1) :
                        LET step  == [k \in 1..n |-> IF k = i + 1 THEN ids ELSE HashIds(layer, [g EXCEPT ![1] = 0])]
                            share == Cdiv(n, tp)
                        IN  EmbedShare(tp, layer, copy, i \div share, step)[i % share][col] = row}

\* What the layout of the tables comes to: the buckets of a layer, none of them
\* empty, one after the other.
LaidOut ==
    \A layer \in Layers :
       /\ \A c \in 0..NumCols : Offset(layer, c) \in Nat
       /\ \A c \in 0..(NumCols - 1) :
             /\ SizesOf(layer)[c + 1] \in Nat \ {0}
             /\ Offset(layer, c + 1) = Offset(layer, c) + SizesOf(layer)[c + 1]

\* What the step hashes is fetched right.
RowsOfBuckets == \A i \in BatchTokens : Values(i) \in Fetched
=============================================================================
