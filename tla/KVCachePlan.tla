---------------------------- MODULE KVCachePlan ----------------------------
(***************************************************************************)
(* How an engine plans its KV cache when it starts: get_kv_cache_configs   *)
(* and resolve_kv_cache_block_sizes, in                                    *)
(* src/cuda-gb10-vllm-dsv41-exl3/patches/kv_cache_utils.py.                *)
(*                                                                         *)
(* The layers are grouped once for all workers. Each worker then projects  *)
(* the groups on the layers it has, plans for the memory it has, and all   *)
(* are cut to the blocks of the poorest. A block identifier belongs to one *)
(* group at a time and stands for the same block on every worker; groups   *)
(* lie over each other in memory.                                          *)
(***************************************************************************)
EXTENDS KVCacheGroups

CONSTANTS
    Configurations,   \* what an engine may be started with
    PrefixUnits       \* what prefix_match_unit may be, 0 for none

\* What grouping makes: every layer of a group has a spec, and every spec a
\* layer; all have one spec, or specs that from_specs() took to be of one type.
GroupOK(g) ==
    /\ g.layers \in Seq(DOMAIN g.spec) /\ Range(g.layers) = DOMAIN g.spec
    /\ DOMAIN g.spec \subseteq Nat
    /\ g.listed = g.layers
    /\ \A l \in DOMAIN g.spec : g.spec[l] \in Specs
    /\ IF g.uniform THEN UniformType(Range(g.spec))
       ELSE \A k, l \in DOMAIN g.spec : g.spec[k] = g.spec[l]

ASSUME ConfigurationAssumption ==
    \A c \in Configurations :
       /\ c.workers \in Seq(Range(c.workers)) /\ c.workers # <<>>
       /\ c.memory \in [DOMAIN c.workers -> Int]
       /\ c.maxLen \in Nat \ {0}
       /\ c.override \in Nat
       /\ c.autoFit \in BOOLEAN

ASSUME GroupingAssumption ==
    \A c \in Configurations : \A gs \in GroupedLayers(c) :
       gs \in Seq(Range(gs)) /\ gs # <<>> /\ \A g \in Range(gs) : GroupOK(g)

ASSUME UnitsAssumption == PrefixUnits \subseteq Nat

VARIABLES
    conf,        \* what this one was started with
    pc,          \* the step that comes next, "done" or "failed"
    error,       \* what it failed of
    groups,      \* the groups of all layers
    projected,   \* the groups of each worker
    memory,      \* bytes for the cache, by worker
    maxLen,      \* max_model_len
    configs,     \* the configuration of each worker
    units        \* scheduler_block_size and hash_block_size

vars == <<conf, pc, error, groups, projected, memory, maxLen, configs, units>>

Workers == DOMAIN conf.workers
-----------------------------------------------------------------------------
(* Lists *)

\* What of a list is in a set.
Kept(s, set) ==
    LET kept[i \in 0..Len(s)] ==
            IF i = 0 THEN <<>>
            ELSE IF s[i] \in set THEN Append(kept[i - 1], s[i]) ELSE kept[i - 1]
    IN  kept[Len(s)]

SumOf(s) ==
    LET sum[i \in 0..Len(s)] == IF i = 0 THEN 0 ELSE sum[i - 1] + s[i]
    IN  sum[Len(s)]
-----------------------------------------------------------------------------
(* The memory of a block *)

SumPages(g) == SumOf([i \in DOMAIN g.layers |-> PageBytes(g.spec[g.layers[i]])])

MambaGroups(gs) == Kept(gs, {g \in Range(gs) : ~g.uniform /\ SpecOf(g).kind = "mamba"})

UniformGroups(gs, kind) ==
    Kept(gs, {g \in Range(gs) : g.uniform /\ \A l \in DOMAIN g.spec : g.spec[l].kind = kind})

OfStates(g, Test(_)) == SelectSeq(g.layers, LAMBDA l : Test(g.spec[l].states))

Pages(g, layers) == {PageBytes(g.spec[l]) : l \in ToSet(layers)}

\* The groups of GLM-5.3, if that is what these are: at most one element.
Glm5Layout(gs) ==
    {a \in [attn : Range(UniformGroups(gs, "mla")), mamba : {MambaGroups(gs)},
            tail : {UniformGroups(gs, "tail")}, draft : {UniformGroups(gs, "swa")}] :
        LET mla == OfStates(a.attn, LAMBDA n : n = 1)
            idx == OfStates(a.attn, LAMBDA n : n > 1)
        IN  /\ a.mamba # <<>>
            /\ 1 + Len(a.mamba) + Len(a.tail) + Len(a.draft) = Len(gs)
            /\ \A l \in DOMAIN a.attn.spec : a.attn.spec[l].pad = 0
            /\ Cardinality(Pages(a.attn, mla)) = 1
            /\ Cardinality(Pages(a.attn, idx)) = 1
            /\ \A g \in Range(a.mamba) : PageBytes(SpecOf(g)) \in Pages(a.attn, mla)
            /\ \A g \in Range(a.tail) :
                  /\ Len(g.layers) = Len(idx)
                  /\ UnpaddedBytes(SpecOf(g)) <= Max(Pages(a.attn, idx))
            /\ \A g \in Range(a.draft) :
                  PageBytes(SpecOf(g)) \in Pages(a.attn, mla) => Len(g.layers) <= Len(mla)}

\* A drafter whose page is not that of MLA has memory of its own.
Rides(a, g) == PageBytes(SpecOf(g)) \in Pages(a.attn, OfStates(a.attn, LAMBDA n : n = 1))
Apart(a)    == Kept(a.draft, {g \in Range(a.draft) : ~Rides(a, g)})
Riding(a)   == Kept(a.draft, {g \in Range(a.draft) : Rides(a, g)})

BytesPerBlock(gs) ==
    IF Glm5Layout(gs) # {}
    THEN Max({SumPages(a.attn) + SumOf(Mapped(Apart(a), SumPages)) : a \in Glm5Layout(gs)})
    ELSE Max({SumPages(g) : g \in Range(gs)})

\* The blocks one request of len tokens takes from the pool.
BlocksPerRequest(gs, len) ==
    SumOf(Mapped(gs, LAMBDA g : Max({BlocksFor(s, len) : s \in Range(g.spec)})))

Fits(gs, len, bytes) == BytesPerBlock(gs) * BlocksPerRequest(gs, len) <= bytes

\* A turn of the bisection: what is left of the lengths is halved.
Turn(gs, bytes, s) ==
    LET mid == (s.left + s.right) \div 2
    IN  IF s.left > s.right THEN s
        ELSE IF Fits(gs, mid, bytes) THEN [s EXCEPT !.left = mid + 1, !.result = mid]
        ELSE [s EXCEPT !.right = mid - 1]

\* The longest request that fits, found in most turns at the latest.
EstimatedMaxLen(gs, most, bytes) ==
    LET search[n \in 0..most] ==
            IF n = 0 THEN [left |-> 1, right |-> most, result |-> 1]
            ELSE Turn(gs, bytes, search[n - 1])
    IN  IF Fits(gs, 1, bytes) THEN search[most].result ELSE 0

-----------------------------------------------------------------------------
(* Where the pages lie *)

Tensor(layers, layerStride, blockStride, offset) ==
    [layers |-> layers, layerStride |-> layerStride, blockStride |-> blockStride,
     offset |-> offset]

\* Mamba and a drafter lie over MLA, tail over indexer, each layer by itself.
Glm5Tensors(a, blocks) ==
    LET mla == OfStates(a.attn, LAMBDA n : n = 1)
        idx == OfStates(a.attn, LAMBDA n : n > 1)
        page    == Max(Pages(a.attn, mla)) * blocks
        idxPage == Max(Pages(a.attn, idx)) * blocks
        At(gs, i, offset) ==
            Mapped(SelectSeq(gs, LAMBDA g : i <= Len(g.layers)),
                   LAMBDA g : LET p == PageBytes(g.spec[g.layers[i]])
                              IN  Tensor(<<g.layers[i]>>, p * blocks, p, offset))
        Over(layers, gs, base, p) ==
            FlattenSeq([i \in DOMAIN layers |->
               At(<<[a.attn EXCEPT !.layers = layers]>> \o gs, i, base + (i - 1) * p)])
        Alone(g, base) ==
            [i \in DOMAIN g.layers |->
                Head(At(<<g>>, i, base + (i - 1) * PageBytes(SpecOf(g)) * blocks))]
        attn == Len(mla) * page
    IN  Over(mla, a.mamba \o Riding(a), 0, page)
        \o Over(idx, a.tail, attn, idxPage)
        \o FlattenSeq(Mapped(Apart(a), LAMBDA g : Alone(g, attn + Len(idx) * idxPage)))

\* Mutant: the regions of a group all start at the first byte.
GroupTensorsStacked(g, blocks, bytes, outermost) ==
    Mapped(Bucketed(g.listed, LAMBDA ls : Cardinality({g.spec[l] : l \in ls}) = 1),
           LAMBDA r : LET p == PageBytes(g.spec[Head(r)])
                      IN  IF outermost THEN Tensor(r, p, bytes, 0)
                          ELSE Tensor(r, p * blocks, p, 0))

\* The layers of a group by their spec, side by side: within a block, or, if
\* layers are outermost, all blocks of one after all blocks of the other.
GroupTensors(g, blocks, bytes, outermost) ==
    LET regions == SelectSeq(Bucketed(g.listed,
                      LAMBDA ls : Cardinality({g.spec[l] : l \in ls}) = 1), LAMBDA r : r # <<>>)
        Page(r)  == PageBytes(g.spec[Head(r)])
        Before(i) == FoldLeft(LAMBDA sum, r : sum + Len(r) * Page(r), 0, SubSeq(regions, 1, i - 1))
    IN  [i \in DOMAIN regions |->
            LET p == Page(regions[i])
            IN  IF outermost THEN Tensor(regions[i], p, bytes, Before(i))
                ELSE Tensor(regions[i], p * blocks, p,
                            (Before(i) * Max({p * blocks, p})) \div p)]

\* Pages of several sizes fit into one pool only if a block is contiguous.
ValidLayout(gs, outermost) ==
    \/ Glm5Layout(gs) # {}
    \/ Cardinality(UNION {Pages(g, g.layers) : g \in Range(gs)}) = 1
    \/ outermost
    \/ Len(gs) = 1

Config(gs, bytes, override, outermost) ==
    LET perBlock == BytesPerBlock(gs)
        blocks   == IF override = 0 THEN bytes \div perBlock ELSE override
        glm5     == Glm5Layout(gs)
    IN  [blocks  |-> blocks,
         size    |-> perBlock * blocks,
         tensors |-> IF glm5 # {} THEN Glm5Tensors(CHOOSE a \in glm5 : TRUE, blocks)
                     ELSE FlattenSeq(Mapped(gs,
                            LAMBDA g : GroupTensors(g, blocks, perBlock, outermost)))]
-----------------------------------------------------------------------------
(* get_kv_cache_configs *)

Init ==
    /\ conf \in Configurations
    /\ pc = "group" /\ error = "none"
    /\ groups = <<>> /\ projected = <<>>
    /\ memory = conf.memory
    /\ maxLen = conf.maxLen
    /\ configs = <<>>
    /\ units = <<>>

Fail(what) ==
    /\ pc' = "failed" /\ error' = what
    /\ UNCHANGED <<conf, groups, projected, memory, maxLen, configs, units>>

\* A group without layers has no spec.
FindGroups ==
    /\ pc = "group"
    /\ \/ GroupedLayers(conf) = {} /\ Fail("grouping")
       \/ \E gs \in GroupedLayers(conf) :
             IF \E g \in Range(gs) : g.layers = <<>> THEN Fail("split")
             ELSE /\ groups' = gs
                  /\ pc' = "project"
                  /\ UNCHANGED <<conf, error, projected, memory, maxLen, configs, units>>

\* Mutant: a group of one type is not cut.
ProjectionWhole(gs, layers) ==
    Mapped(gs, LAMBDA g :
        IF g.uniform THEN g
        ELSE [g EXCEPT !.layers = Kept(@, layers), !.listed = Kept(@, layers)])

\* What is left of a group on a worker. If nothing is, it keeps its spec.
PartOf(g, layers) ==
    LET own == Kept(g.layers, layers)
    IN  [layers  |-> own,
         spec    |-> IF g.uniform /\ own # <<>> THEN Restrict(g.spec, ToSet(own)) ELSE g.spec,
         listed  |-> IF g.uniform /\ own = <<>> THEN g.listed ELSE own,
         uniform |-> g.uniform,
         draft   |-> g.draft /\ own # <<>>]

Projection(gs, layers) == [i \in DOMAIN gs |-> PartOf(gs[i], layers)]

\* With num_gpu_blocks_override the memory is what those blocks take.
Project ==
    LET ps == [w \in Workers |-> Projection(groups, conf.workers[w])]
    IN  /\ pc = "project"
        /\ \/ /\ conf.override # 0 /\ \E w \in Workers : BytesPerBlock(ps[w]) = 0
              /\ Fail("empty")
           \/ /\ conf.override = 0 \/ \A w \in Workers : BytesPerBlock(ps[w]) > 0
              /\ projected' = ps
              /\ memory' = IF conf.override = 0 THEN memory
                           ELSE [w \in Workers |-> conf.override * BytesPerBlock(ps[w])]
              /\ pc' = "fit"
              /\ UNCHANGED <<conf, error, groups, maxLen, configs, units>>

\* Mutant: the null block is not set aside.
UsableAll(w) == memory[w]

\* The pool keeps one block, the null block, to itself.
Usable(w) == memory[w] - BytesPerBlock(projected[w])

\* Mutant: the richest worker decides.
AutoFitRichest ==
    LET lens == {EstimatedMaxLen(projected[w], conf.maxLen, Usable(w)) : w \in Workers}
    IN  /\ pc = "fit"
        /\ IF conf.autoFit /\ Max(lens) = 0 THEN Fail("length")
           ELSE /\ maxLen' = IF conf.autoFit THEN Max(lens) ELSE maxLen
                /\ pc' = "check"
                /\ UNCHANGED <<conf, error, groups, projected, memory, configs, units>>

AutoFit ==
    LET lens == {EstimatedMaxLen(projected[w], conf.maxLen, Usable(w)) : w \in Workers}
    IN  /\ pc = "fit"
        /\ IF conf.autoFit /\ Min(lens) = 0 THEN Fail("length")
           ELSE /\ maxLen' = IF conf.autoFit THEN Min(lens) ELSE maxLen
                /\ pc' = "check"
                /\ UNCHANGED <<conf, error, groups, projected, memory, configs, units>>

Check ==
    /\ pc = "check"
    /\ IF \E w \in Workers : Usable(w) <= 0 \/ ~Fits(projected[w], maxLen, Usable(w))
       THEN Fail("memory")
       ELSE /\ pc' = "configure"
            /\ UNCHANGED <<conf, error, groups, projected, memory, maxLen, configs, units>>

LayersOf(gs) == FlattenSeq(Mapped(gs, LAMBDA g : g.layers))

Configure ==
    /\ pc = "configure"
    /\ IF \E w \in Workers : Len(LayersOf(projected[w])) # Cardinality(conf.workers[w])
       THEN Fail("layers")
       ELSE IF \E w \in Workers : BytesPerBlock(projected[w]) = 0 THEN Fail("empty")
       ELSE IF \E w \in Workers : ~ValidLayout(projected[w], conf.outermost)
       THEN Fail("layout")
       ELSE /\ configs' = [w \in Workers |->
                             Config(projected[w], memory[w], conf.override, conf.outermost)]
            /\ pc' = "shrink"
            /\ UNCHANGED <<conf, error, groups, projected, memory, maxLen, units>>

\* Mutant: every worker gets the memory that the blocks take on worker 1.
ShrinkAlike ==
    LET blocks == Min({configs[w].blocks : w \in Workers})
    IN  /\ pc = "shrink"
        /\ configs' = [w \in Workers |->
              IF configs[w].blocks = blocks THEN configs[w]
              ELSE Config(projected[w], blocks * BytesPerBlock(projected[1]),
                          conf.override, conf.outermost)]
        /\ pc' = "resolve"
        /\ UNCHANGED <<conf, error, groups, projected, memory, maxLen, units>>

\* Every worker is planned anew for the blocks the poorest can afford.
Shrink ==
    LET blocks == Min({configs[w].blocks : w \in Workers})
    IN  /\ pc = "shrink"
        /\ configs' = [w \in Workers |->
              IF configs[w].blocks = blocks THEN configs[w]
              ELSE Config(projected[w], blocks * BytesPerBlock(projected[w]),
                          conf.override, conf.outermost)]
        /\ pc' = "resolve"
        /\ UNCHANGED <<conf, error, groups, projected, memory, maxLen, units>>
-----------------------------------------------------------------------------
(* generate_scheduler_kv_cache_config, resolve_kv_cache_block_sizes *)

\* The scheduler sees worker 1, and of layers of one type the first.
Shown(i) ==
    LET g == projected[1][i]
    IN  IF g.uniform THEN g.spec[Head(g.listed)] ELSE SpecOf(g)

Cacheable(s) == s.kind \notin {"hidden", "tail"}

\* Decode context parallelism spreads attention over dcp ranks.
DcpBlock(s, dcp) == IF s.kind = "mamba" THEN s.block ELSE s.block * dcp

CommonDivisor(S) == Max({d \in 1..Min(S) : \A n \in S : n % d = 0})

\* The least multiple of both.
CommonMultiple(a, b) == Min({n \in {a * k : k \in 1..b} : n % b = 0})

CommonMultipleOf(s) ==
    LET multiple[i \in 0..Len(s)] ==
            IF i = 0 THEN 1 ELSE CommonMultiple(multiple[i - 1], s[i])
    IN  multiple[Len(s)]

\* Mutant: Mamba blocks are not thought to be cut.
HitAlignmentWhole(dcp, align, scheduler, hash) == scheduler

\* The tokens after which a prefix found in the cache may end.
HitAlignment(dcp, align, scheduler, hash) ==
    LET Partial(b) == IF dcp = 1 THEN b > hash ELSE b >= hash
    IN  IF align /\ \E i \in DOMAIN groups : Shown(i).kind = "mamba" /\ Partial(Shown(i).block)
        THEN hash ELSE scheduler

\* unit is prefix_match_unit, 0 without one; align is mamba_cache_mode.
Resolve(dcp, unit, caching, align) ==
    LET shown     == {Shown(i) : i \in DOMAIN groups}
        scheduler == CommonMultipleOf([i \in DOMAIN groups |-> DcpBlock(Shown(i), dcp)])
        cacheable == {s \in shown : Cacheable(s)}
        blocks    == {DcpBlock(s, dcp) : s \in IF cacheable = {} THEN shown ELSE cacheable}
        hash      == IF unit # 0 THEN unit ELSE CommonDivisor(blocks)
        whole     == \/ Len(groups) <= 1
                     \/ ~caching
                     \/ ~align /\ \E s \in shown : s.kind = "mamba"
        Set(h)    == /\ units' = [dcp |-> dcp, align |-> align, caching |-> caching,
                                  scheduler |-> scheduler, hash |-> h]
                     /\ pc' = "done"
                     /\ UNCHANGED <<conf, error, groups, projected, memory, maxLen, configs>>
    IN  /\ pc = "resolve"
        /\ IF whole THEN Set(scheduler)
           ELSE IF \E b \in blocks : b % hash # 0 THEN Fail("unit")
           ELSE IF \E s \in cacheable : HitAlignment(dcp, align, scheduler, hash) % s.states # 0
           THEN Fail("states")
           ELSE Set(hash)

Next ==
    \/ FindGroups \/ Project \/ AutoFit \/ Check \/ Configure \/ Shrink
    \/ \E dcp \in 1..2, unit \in PrefixUnits, caching, align \in BOOLEAN :
          Resolve(dcp, unit, caching, align)

Spec == Init /\ [][Next]_vars
-----------------------------------------------------------------------------
TypeOK ==
    /\ pc \in {"group", "project", "fit", "check", "configure", "shrink", "resolve",
              "done", "failed"}
    /\ error \in {"none", "grouping", "split", "empty", "length", "memory", "layers", "layout",
                 "unit", "states"}
    /\ \A g \in Range(groups) : /\ Range(g.layers) \subseteq DOMAIN g.spec
                                /\ Range(g.spec) \subseteq Specs
    /\ projected # <<>> =>
          /\ DOMAIN projected = Workers
          /\ \A w \in Workers : \A g \in Range(projected[w]) :
                Range(g.layers) \subseteq conf.workers[w] \cap DOMAIN g.spec
    /\ DOMAIN memory = Workers
    /\ maxLen \in 0..conf.maxLen
    /\ \A c \in Range(configs) : c.blocks \in Nat /\ c.size \in Nat

\* The page of the kth layer of a tensor in block b.
PlaceOf(t, k, b) ==
    LET layer == t.layers[k]
        group == CHOOSE i \in DOMAIN groups : layer \in Range(groups[i].layers)
        first == t.offset + (k - 1) * t.layerStride + b * t.blockStride
    IN  [group |-> group, layer |-> layer, block |-> b, first |-> first,
         last |-> first + PageBytes(groups[group].spec[layer]) - 1]

PagesOn(w) ==
    UNION {{PlaceOf(t, k, b) : k \in {k \in DOMAIN t.layers : t.layers[k] \in conf.workers[w]},
                               b \in 0..(configs[w].blocks - 1)} :
              t \in Range(configs[w].tensors)}

\* A block identifier belongs to one group at a time. So whatever the blocks
\* hold, no page of a layer lies over a page of another, or of the same layer
\* in another block: only pages of one block in two groups may overlap. All
\* lie within the memory that is allocated.
PagesDisjoint ==
    \A w \in DOMAIN configs :
       /\ configs[w].size <= memory[w]
       /\ \A p \in PagesOn(w) : p.first >= 0 /\ p.last < configs[w].size
       /\ \A p, q \in PagesOn(w) :
             p = q \/ p.last < q.first \/ q.last < p.first
                   \/ (p.block = q.block /\ p.group # q.group)

\* Every layer of a worker has its pages, in one place and for one group. An
\* engine is turned away for a layer that no group took only if its pages are
\* of several sizes, not as many of each, and were dealt out all the same.
EveryLayerPlanned ==
    /\ \A w \in DOMAIN configs : \A l \in conf.workers[w] :
          /\ Cardinality({i \in DOMAIN projected[w] : l \in Range(projected[w][i].layers)}) = 1
          /\ Cardinality({place \in Range(configs[w].tensors) \X DOMAIN conf.specs :
                LET t == place[1] IN place[2] \in DOMAIN t.layers /\ t.layers[place[2]] = l}) = 1
    /\ error \in {"layers", "split"} =>
          \E b \in Range(PackedBuckets(conf.specs)) :
             /\ conf.outermost /\ conf.specs[Head(b)].kind \in {"swa", "mamba"}
             /\ ~Balanced(ByPage(conf.specs, b))

\* A scheduler that looks at worker 1 and at one layer of a type plans for all
\* workers: as many blocks on each, and a request takes as many on each.
WorkersAgree ==
    pc \in {"resolve", "done"} =>
       \A w \in Workers :
          /\ configs[w].blocks = configs[1].blocks
          /\ BlocksPerRequest(projected[w], maxLen) =
                SumOf([i \in DOMAIN groups |-> BlocksFor(Shown(i), maxLen)])

\* A request of the length the engine says it serves gets its blocks while the
\* null block is kept back, also after the cut to the poorest worker.
LongestRequestFits ==
    pc \in {"resolve", "done"} =>
       \A w \in Workers : BlocksPerRequest(projected[w], maxLen) <= configs[w].blocks - 1

\* A length found by auto-fit is never refused for want of memory, if there is
\* any, and one token more would not fit on some worker.
AutoFitMaximal ==
    conf.autoFit =>
       /\ error = "memory" => \E w \in Workers : memory[w] <= 0
       /\ pc \in {"configure", "shrink", "resolve", "done"} /\ maxLen < conf.maxLen =>
             \E w \in Workers : ~Fits(projected[w], maxLen + 1, Usable(w))

\* The hash unit fits the blocks of every group that the prefix cache serves,
\* and a prefix may end only where no state of a layer the scheduler sees is
\* cut: also with Mamba, whose blocks may then be cut themselves.
PrefixEndsWhole ==
    pc = "done" /\ Len(groups) > 1 /\ units.caching =>
       LET cached == {Shown(i) : i \in {j \in DOMAIN groups : Cacheable(Shown(j))}}
           cut    == units.align /\ \E s \in cached : s.kind = "mamba" /\ s.block > units.hash
           ends   == IF cut THEN units.hash ELSE units.scheduler
       IN  /\ units.scheduler % units.hash = 0
           /\ units.align \/ (\A s \in cached : s.kind # "mamba") =>
                 \A s \in cached : /\ DcpBlock(s, units.dcp) % units.hash = 0
                                   /\ ends % s.states = 0
=============================================================================
