---------------------------- MODULE GlmScheduler ----------------------------
(***************************************************************************)
(* The steps of the GLM-5.3 engine, as the overlay in                      *)
(* src/cuda-gb10-vllm-glm53-exl3/overlay changes them: a long prefill      *)
(* waits while a peer decodes (patch_scheduler_decode_floor.py), the       *)
(* workspace that the indexer gathers a step's prefills in is sized by     *)
(* what a step may hold (patch_indexer_workspace.py), and the slots of the *)
(* pool tail stay in its only block (patch_kpool_tail_slotmap.py).         *)
(*                                                                         *)
(* The scheduler around the changed lines is vLLM's, not under src/. A     *)
(* block of the pool is a number; the first block of a request is its pool *)
(* tail, the others are of its attention.                                  *)
(***************************************************************************)
EXTENDS Integers, Sequences, SequencesExt, FiniteSetsExt

CONSTANTS
    Requests,
    PromptLens,      \* lengths a prompt may have
    MaxOutput,       \* bound: tokens generated for a request
    Settings,        \* values of GLM53_MIXED_PREFILL_CHUNK
    IntOf,           \* what int() makes of those that are numbers
    Budget,          \* max_num_batched_tokens
    MaxSeqs,         \* max_num_seqs
    MaxModelLen,
    NumSpec,         \* num_speculative_tokens
    NumBlocks, BlockSize,
    TailBlock,       \* tokens of a pool tail
    Kpool,           \* index_kpool: the tokens of an entry of the indexer
    MaxLogits        \* how many logits a chunk may have

Cdiv(a, b) == (a + b - 1) \div b

ASSUME BlocksAssumption ==
    /\ {BlockSize, NumBlocks, TailBlock, Kpool, MaxLogits} \subseteq Nat \ {0}
    /\ NumBlocks >= 1 + Cdiv(MaxModelLen, BlockSize)

\* A step has room for all that decode.
ASSUME BudgetAssumption ==
    /\ {Budget, MaxSeqs, MaxModelLen} \subseteq Nat \ {0} /\ NumSpec \in Nat
    /\ Budget >= MaxSeqs * (1 + NumSpec)
    /\ NumSpec < MaxModelLen

\* What int() makes of a setting is a number.
ASSUME IntAssumption == \A v \in DOMAIN IntOf : IntOf[v] \in Int

ASSUME PromptAssumption == PromptLens \subseteq 1..(MaxModelLen - 1) /\ MaxOutput \in Nat \ {0}

VARIABLES
    setting,    \* GLM53_MIXED_PREFILL_CHUNK
    status,     \* of a request: "out", "here" or "done"
    waiting, running,
    prompt,     \* num_prompt_tokens
    length,     \* num_tokens
    computed,   \* num_computed_tokens
    drafts,     \* how many spec_token_ids
    blocks,     \* a request's blocks
    plan        \* num_scheduled_tokens of the step at work

queues == <<status, waiting, running>>
vars == <<setting, queues, prompt, length, computed, drafts, blocks, plan>>

Idle == [r \in {} |-> 0]

\* The requests of a queue that are in a set, in their order.
Kept(queue, set) ==
    LET kept[i \in 0..Len(queue)] ==
            IF i = 0 THEN <<>>
            ELSE IF queue[i] \in set THEN Append(kept[i - 1], queue[i]) ELSE kept[i - 1]
    IN  kept[Len(queue)]

Init ==
    /\ setting \in Settings
    /\ status = [r \in Requests |-> "out"]
    /\ waiting = <<>> /\ running = <<>>
    /\ prompt = [r \in Requests |-> 0]
    /\ length = [r \in Requests |-> 0]
    /\ computed = [r \in Requests |-> 0]
    /\ drafts = [r \in Requests |-> 0]
    /\ blocks = [r \in Requests |-> <<>>]
    /\ plan = Idle

Arrive(r, n) ==
    /\ plan = Idle
    /\ status[r] = "out"
    /\ status' = [status EXCEPT ![r] = "here"]
    /\ waiting' = Append(waiting, r)
    /\ prompt' = [prompt EXCEPT ![r] = n]
    /\ length' = [length EXCEPT ![r] = n]
    /\ UNCHANGED <<setting, running, computed, drafts, blocks, plan>>
-----------------------------------------------------------------------------
(* The decode floor *)

\* No policy is the cap that never binds.
NoCap == Budget

Cap ==
    IF setting \in {"0", "off", "no"} THEN NoCap
    ELSE IF setting \in {"skip", "-1"} THEN 0
    ELSE IF setting \in DOMAIN IntOf /\ IntOf[setting] > 0 THEN IntOf[setting] ELSE NoCap

\* Mutant: the first step after the prompt does not count.
MixedPrefillPolicyLate(peers, done, r) ==
    IF \E p \in Range(peers) \ {r} : done[p] > prompt[p] THEN Cap ELSE NoCap

\* What r may prefill, given the peers that run and how far they are.
MixedPrefillPolicy(peers, done, r) ==
    IF \E p \in Range(peers) \ {r} : done[p] >= prompt[p] THEN Cap ELSE NoCap
-----------------------------------------------------------------------------
(* schedule(): a step is planned from s, which has what the loops change *)

Needs(len) == 1 + Cdiv(len, BlockSize)

Free(held) == (1..NumBlocks) \ UNION {Range(held[r]) : r \in Requests}

\* The k-th lowest of the blocks that are free.
Nth(free, k) == CHOOSE b \in free : Cardinality(free \cap (1..b)) = k

\* r with blocks for len tokens.
Grown(held, r, len) ==
    LET free == Free(held)
    IN  [held EXCEPT ![r] = @ \o [k \in 1..(Needs(len) - Len(@)) |-> Nth(free, k)]]

Fits(held, r, len) == Needs(len) - Len(held[r]) <= Cardinality(Free(held))

Scheduled(s, r, n) ==
    [s EXCEPT !.plan = [q \in DOMAIN @ \cup {r} |-> IF q = r THEN n ELSE @[q]],
              !.budget = @ - n,
              !.blocks = Grown(@, r, s.computed[r] + n)]

\* Without the last n requests of the queue: preempted, they wait in front.
Preempted(s, n) ==
    LET stay == SubSeq(s.running, 1, Len(s.running) - n)
        gone == SubSeq(s.running, Len(stay) + 1, Len(s.running))
    IN  [s EXCEPT !.running = stay,
                  !.waiting = gone \o @,
                  !.blocks = [r \in Requests |-> IF r \in Range(gone) THEN <<>> ELSE @[r]],
                  !.computed = [r \in Requests |-> IF r \in Range(gone) THEN 0 ELSE @[r]],
                  !.preempting = @ \/ n > 0]

\* Mutant: the policy is for all that run.
ShareAlwaysCapped(s, r) ==
    Min({length[r] + drafts[r] - s.computed[r], s.budget,
         MixedPrefillPolicy(s.running, s.computed, r), MaxModelLen - 1 - s.computed[r]})

\* Mutant: the last positions of the model are not kept free.
ShareToTheEnd(s, r) ==
    LET mixed == IF s.computed[r] < prompt[r]
                 THEN MixedPrefillPolicy(s.running, s.computed, r) ELSE NoCap
    IN  Min({length[r] + drafts[r] - s.computed[r], s.budget, mixed})

\* What a request that runs is given of the step.
Share(s, r) ==
    LET mixed == IF s.computed[r] < prompt[r]
                 THEN MixedPrefillPolicy(s.running, s.computed, r) ELSE NoCap
    IN  Min({length[r] + drafts[r] - s.computed[r], s.budget, mixed,
             MaxModelLen - 1 - s.computed[r]})

\* One turn of the loop over the requests that run, r's share being n. As many
\* others go as must, and at last r itself.
Continue(s, r, n) ==
    LET After(k)  == Preempted(s, k)
        Enough(k) == r \notin Range(After(k).running) \/ Fits(After(k).blocks, r, s.computed[r] + n)
        gone      == CHOOSE k \in 0..Len(s.running) : Enough(k) /\ \A j \in 0..(k - 1) : ~Enough(j)
    IN  IF s.stopped \/ r \notin Range(s.running) \/ n <= 0 THEN {s}
        ELSE {IF r \in Range(t.running) THEN Scheduled(t, r, n) ELSE [t EXCEPT !.stopped = TRUE] :
                 t \in {After(gone)}}

\* Mutant: the policy is for requests that run only.
GrantUncapped(s, r, hit) == Min({length[r] - hit, s.budget})

\* What a request that waits would be given, if it has a hit of such a length
\* in the prefix cache.
Grant(s, r, hit) ==
    LET mixed == IF hit < prompt[r] THEN MixedPrefillPolicy(s.running, s.computed, r) ELSE NoCap
    IN  Min({length[r] - hit, mixed, s.budget})

\* r is put among the requests that run.
Joined(s, r, hit) ==
    [s EXCEPT !.running = Append(@, r), !.waiting = Kept(@, Requests \ {r}),
              !.computed = [@ EXCEPT ![r] = hit]]

\* One turn of the loop over the requests that wait. One that is given nothing
\* keeps its place; one without room ends the loop.
Admit(s, r, hit, n) ==
    IF s.stopped \/ Len(s.running) = MaxSeqs \/ n = 0 THEN s
    ELSE IF ~Fits(s.blocks, r, hit + n) THEN [s EXCEPT !.stopped = TRUE]
    ELSE Scheduled(Joined(s, r, hit), r, n)

\* All of the prefix that whole blocks can hold, or nothing of it.
Hits(r) == {0, ((length[r] - 1) \div BlockSize) * BlockSize}

\* A turn from any of the states ss. (Sets of one state keep TLC from working a
\* state out again wherever it is used.)
Continued(ss, r) == UNION {UNION {Continue(s, r, n) : n \in {Share(s, r)}} : s \in ss}

Admitted(ss, r) ==
    UNION {UNION {{Admit(s, r, hit, n) : n \in {Grant(s, r, hit)}} : hit \in Hits(r)} : s \in ss}

\* The loop over the requests that run, and the one over those that wait.
AllContinued(s) ==
    LET turn[i \in 0..Len(s.running)] ==
            IF i = 0 THEN {s} ELSE Continued(turn[i - 1], s.running[i])
    IN  turn[Len(s.running)]

AllAdmitted(s) ==
    LET turn[i \in 0..Len(s.waiting)] ==
            IF i = 0 THEN {s} ELSE Admitted(turn[i - 1], s.waiting[i])
    IN  turn[Len(s.waiting)]

Start == [running |-> running, waiting |-> waiting, blocks |-> blocks, computed |-> computed,
          budget |-> Budget, plan |-> Idle, preempting |-> FALSE, stopped |-> FALSE]

\* The plans there may be for a step. None is admitted after a preemption.
Planned == UNION {IF s.preempting THEN {s} ELSE AllAdmitted(s) : s \in AllContinued(Start)}

Schedule ==
    /\ plan = Idle
    /\ waiting # <<>> \/ running # <<>>
    /\ \E s \in Planned :
          /\ running' = s.running
          /\ waiting' = s.waiting
          /\ blocks' = s.blocks
          /\ computed' = s.computed
          /\ plan' = s.plan
          /\ drafts' = [r \in Requests |-> IF r \in Range(s.running) THEN drafts[r] ELSE 0]
    /\ UNCHANGED <<setting, status, prompt, length>>

\* f without what it has of those who go.
Without(f, gone) == [r \in Requests |-> IF r \in gone THEN 0 ELSE f[r]]

\* The step runs. A request that reached its last token is given accepted
\* drafts and one token more, and may be done with that.
Forward ==
    /\ plan # Idle
    /\ LET answered == {r \in DOMAIN plan : computed[r] + plan[r] >= length[r]}
       IN  \E accepted \in [answered -> 0..NumSpec], ended \in SUBSET answered :
              LET len(r) == IF r \in answered THEN length[r] + accepted[r] + 1 ELSE length[r]
              IN  /\ \A r \in answered :
                        /\ accepted[r] <= computed[r] + plan[r] - length[r]
                        /\ len(r) >= Min({MaxModelLen, prompt[r] + MaxOutput}) => r \in ended
                  /\ prompt' = Without(prompt, ended)
                  /\ length' = Without([r \in Requests |-> len(r)], ended)
                  /\ computed' = Without([r \in Requests |->
                        IF r \in answered THEN len(r) - 1
                        ELSE IF r \in DOMAIN plan THEN computed[r] + plan[r] ELSE computed[r]], ended)
                  /\ \E next \in [answered \ ended -> 0..NumSpec] :
                        drafts' = [r \in Requests |-> IF r \in answered \ ended THEN next[r]
                                                     ELSE IF r \in DOMAIN plan THEN 0 ELSE drafts[r]]
                  /\ status' = [r \in Requests |-> IF r \in ended THEN "done" ELSE status[r]]
                  /\ running' = Kept(running, Requests \ ended)
                  /\ blocks' = [r \in Requests |-> IF r \in ended THEN <<>> ELSE blocks[r]]
    /\ plan' = Idle
    /\ UNCHANGED <<setting, waiting>>

\* A client goes away between two steps.
Abort(r) ==
    /\ plan = Idle
    /\ status[r] = "here"
    /\ status' = [status EXCEPT ![r] = "done"]
    /\ running' = Kept(running, Requests \ {r})
    /\ waiting' = Kept(waiting, Requests \ {r})
    /\ blocks' = [blocks EXCEPT ![r] = <<>>]
    /\ drafts' = Without(drafts, {r})
    /\ prompt' = Without(prompt, {r})
    /\ length' = Without(length, {r})
    /\ computed' = Without(computed, {r})
    /\ UNCHANGED <<setting, plan>>

Next ==
    \/ \E r \in Requests : Abort(r) \/ \E n \in PromptLens : Arrive(r, n)
    \/ Schedule
    \/ Forward

Spec == Init /\ [][Next]_vars /\ WF_vars(Schedule) /\ WF_vars(Forward)
-----------------------------------------------------------------------------
(* The workspace of the indexer *)

StockEntries == MaxModelLen * 40

\* Mutant: as if the floor never let two prefills into one step.
RightsizedEntriesOne ==
    IF Kpool <= 1 THEN StockEntries
    ELSE Min({Cdiv(MaxModelLen + NumSpec, Kpool), StockEntries})

\* The most that one step can hold.
RightsizedEntries ==
    IF Kpool <= 1 THEN StockEntries
    ELSE Min({Cdiv(MaxModelLen + NumSpec, Kpool) * Max({1, Min({MaxSeqs, Budget})}), StockEntries})

Total(lens, from, to) ==
    LET sum[i \in 0..(to - from + 1)] == IF i = 0 THEN 0 ELSE sum[i - 1] + lens[from + i - 1]
    IN  sum[to - from + 1]

\* Rows are gathered together as long as they fit into the workspace and the
\* logits: the last row of the chunk that starts with one.
Ends(lens, queries, workspace) ==
    LET Together(from, to) ==
            /\ Total(lens, from, to) <= workspace
            /\ Total(queries, from, to) * Total(lens, from, to) <= MaxLogits
    IN  [from \in 1..Len(lens) |->
            Max({from} \cup {to \in from..Len(lens) : \A k \in from..to : Together(from, k)})]

\* The queries of such a chunk are cut to the logits.
Cut(lens, queries, from, to) ==
    LET m    == Total(queries, from, to)
        n    == Total(lens, from, to)
        most == Max({1, IF n > 0 THEN MaxLogits \div n ELSE m})
    IN  [k \in 1..Cdiv(m, most) |->
            [rows |-> <<from, to>>, entries |-> n,
             queries |-> <<(k - 1) * most, Min({k * most, m})>>]]

\* One turn of the loop, which starts a chunk at the row at, if there is one.
NextChunk(lens, queries, ends, c) ==
    IF c.at > Len(lens) THEN c
    ELSE [at |-> ends[c.at] + 1, chunks |-> c.chunks \o Cut(lens, queries, c.at, ends[c.at])]

Chunks(lens, queries, ends) ==
    LET cut[i \in 0..Len(lens)] ==
            IF i = 0 THEN [at |-> 1, chunks |-> <<>>]
            ELSE NextChunk(lens, queries, ends, cut[i - 1])
    IN  cut[Len(lens)].chunks

SplitPrefillChunks(lens, queries, workspace) ==
    Chunks(lens, queries, Ends(lens, queries, workspace))
-----------------------------------------------------------------------------
(* The slots of the tokens of a step *)

\* Mutant: the index is not bounded by the row, and reads on in the table.
SlotUnclamped(table, row, width, size, pos) ==
    LET flat == FlattenSeq(table)
        at   == (row - 1) * width + (pos \div size) + 1
    IN  (IF at <= Len(flat) THEN flat[at] ELSE 0) * size + (pos % size)

\* The slot of a position, by the block table's row, which is so wide.
Slot(table, row, width, size, pos) ==
    table[row][Min({pos \div size, width - 1}) + 1] * size + (pos % size)
-----------------------------------------------------------------------------
TypeOK ==
    /\ setting \in Settings
    /\ status \in [Requests -> {"out", "here", "done"}]
    /\ IsInjective(running \o waiting)
    /\ Range(running \o waiting) = {r \in Requests : status[r] = "here"}
    /\ Len(running) <= MaxSeqs
    /\ prompt \in [Requests -> {0} \cup PromptLens]
    /\ length \in [Requests -> 0..MaxModelLen] /\ computed \in [Requests -> 0..MaxModelLen]
    /\ drafts \in [Requests -> 0..NumSpec]
    /\ \A r \in Requests : /\ Len(blocks[r]) <= Needs(MaxModelLen)
                           /\ Range(blocks[r]) \subseteq 1..NumBlocks
    /\ DOMAIN plan \subseteq Range(running)
    /\ \A r \in DOMAIN plan : plan[r] \in 1..Budget /\ computed[r] + plan[r] < MaxModelLen

Decoding(r) == r \in Range(running) /\ computed[r] >= prompt[r]

\* What a decode takes of a step: its last token and the drafts after it.
Wants(r) == Min({length[r] + drafts[r], MaxModelLen - 1}) - computed[r]

\* All that decode have computed what they have. (One that is computed again
\* after it was preempted may be past its prompt and behind its answer.)
CaughtUp == \A r \in Requests : Decoding(r) => computed[r] + 1 >= length[r]

\* A request that decodes shares its step with no more of another's prompt than
\* the setting allows. It gets all that it asks for, unless it is preempted, where
\* what the setting and the drafts allow to each of those that run is in the budget.
DecodeFloor ==
    [][Schedule =>
         \A r \in Requests : Decoding(r) /\ r \in DOMAIN plan' =>
            /\ \A q \in DOMAIN plan' \ {r} : computed'[q] < prompt[q] => plan'[q] <= Cap
            /\ CaughtUp /\ Len(running) * Max({Cap, 1 + NumSpec}) <= Budget => plan'[r] = Wants(r)]_vars

\* Every request that came is answered or goes away, however often prefills
\* wait for decodes and decodes are preempted: in the end none is left here. (A
\* request comes once, so this is that each that is here will be done.)
Served == <>[](\A r \in Requests : status[r] # "here")

\* A step's rows in the order of the batch.
Rows == Kept(running, DOMAIN plan)

\* Whatever is in a step, and however far its rows run ahead, the smaller
\* workspace has it cut into the chunks that the stock one has it cut into,
\* and holds each of them.
WorkspaceEnough ==
    LET rows    == Rows
        queries == [i \in 1..Len(rows) |-> plan[rows[i]]]
    IN  \A ahead \in [DOMAIN plan -> 0..NumSpec] :
            LET lens   == [i \in 1..Len(rows) |->
                              (computed[rows[i]] + plan[rows[i]] + ahead[rows[i]]) \div Kpool]
                chunks == SplitPrefillChunks(lens, queries, RightsizedEntries)
            IN  /\ chunks = SplitPrefillChunks(lens, queries, StockEntries)
                /\ \A c \in Range(chunks) : c.entries <= RightsizedEntries

Tails(rows) == [i \in 1..Len(rows) |-> SubSeq(blocks[rows[i]], 1, 1)]

\* The rest of a row is what was there before; any block may be.
Table(rows) ==
    [i \in 1..Len(rows) |->
        LET b == Tail(blocks[rows[i]])
        IN  [k \in 1..Cdiv(MaxModelLen, BlockSize) |-> IF k <= Len(b) THEN b[k] ELSE 0]]

\* Each token of a step is written to a block of its own request: its pool tail,
\* round and round, and the block of its attention that is its position's. All of
\* these are different blocks, and no other request has them.
SlotsOwn ==
    LET rows  == Rows
        tails == Tails(rows)
        table == Table(rows)
    IN  \A i \in 1..Len(rows) :
            LET r == rows[i]
            IN  /\ IsInjective(blocks[r])
                /\ \A q \in Requests \ {r} : Range(blocks[q]) \cap Range(blocks[r]) = {}
                /\ \A pos \in computed[r]..(computed[r] + plan[r] - 1) :
                      /\ Slot(tails, i, 1, TailBlock, pos) \div TailBlock = blocks[r][1]
                      /\ Slot(table, i, Cdiv(MaxModelLen, BlockSize), BlockSize, pos) \div BlockSize
                            = blocks[r][2 + pos \div BlockSize]
=============================================================================
