--------------------------- MODULE KVCacheGroups ---------------------------
(***************************************************************************)
(* How the layers of a model are split into the groups whose blocks come   *)
(* from one pool: get_kv_cache_groups and what it calls, in                *)
(* src/cuda-gb10-vllm-dsv41-exl3/patches/kv_cache_utils.py.                *)
(*                                                                         *)
(* A layer is its place in the order of registration, and a map from       *)
(* layers to specs stands for the dict the code passes around. What the    *)
(* code asks of a spec (its page, whether specs merge, the blocks a        *)
(* request needs) is vLLM's kv_cache_interface, not under src/.            *)
(***************************************************************************)
EXTENDS Integers, SequencesExt

CONSTANTS
    Batch,        \* max_num_batched_tokens
    CompactBlock  \* of a padded drafter, 64 in the code

ASSUME BatchAssumption == Batch \in Nat \ {0}
ASSUME CompactAssumption == CompactBlock \in Nat \ {0}

Cdiv(a, b) == (a + b - 1) \div b
-----------------------------------------------------------------------------
(* Specs *)

Kinds == {"full", "mla", "swa", "mamba", "hidden", "tail"}

\* bytes is the size of one state; for Mamba and for a tail, of all a block
\* holds. pad is page_size_padded, 0 without one.
Specs == [kind : Kinds, block : Nat \ {0}, bytes : Nat \ {0}, pad : Nat,
          states : Nat \ {0},     \* tokens_per_state
          window : Nat,           \* of sliding-window attention
          draft : BOOLEAN]        \* non_causal_multi_token_decode

FullAttention(s) == s.kind \in {"full", "mla"}
Attention(s)     == s.kind \in {"full", "mla", "swa", "hidden"}

UnpaddedBytes(s) == IF Attention(s) THEN (s.block \div s.states) * s.bytes ELSE s.bytes

PageBytes(s) == IF s.pad # 0 THEN s.pad ELSE UnpaddedBytes(s)

\* The blocks of its group that one request of len tokens takes.
BlocksFor(s, len) ==
    CASE s.kind \in {"full", "mla", "hidden"} -> Cdiv(len, s.block)
      [] s.kind = "swa" -> Cdiv(Min({s.window - 1 + Batch, len}), s.block) + 1
      [] OTHER -> 1

\* merge() reconciles specs that differ in the mark of the drafter only.
Mergeable(S) == \A s, t \in S : [s EXCEPT !.draft = t.draft] = t

Merged(S) == [CHOOSE s \in S : TRUE EXCEPT !.draft = \E s \in S : s.draft]

\* All need the same number of token slots.
UniformType(S) ==
    \A s, t \in S :
       /\ s.block = t.block
       /\ FullAttention(s) = FullAttention(t)
       /\ ~FullAttention(s) => s.kind = t.kind /\ s.window = t.window

-----------------------------------------------------------------------------
(* Groups *)

\* A group has the layers of one worker or of all, in order; spec is what it
\* has for each of its layers, uniform if it is a UniformTypeKVCacheSpecs,
\* whose layers are listed in it.
Group(layers, spec, uniform) ==
    [layers |-> layers, spec |-> spec, listed |-> layers, uniform |-> uniform, draft |-> FALSE]

SpecOf(g) == g.spec[Min(DOMAIN g.spec)]

SpecsOf(specs, layers) == {specs[l] : l \in ToSet(layers)}

MergedGroup(specs, layers) ==
    LET merged == Merged(SpecsOf(specs, layers))
    IN  Group(layers, [l \in ToSet(layers) |-> merged], FALSE)

UniformGroup(specs, layers) == Group(layers, Restrict(specs, ToSet(layers)), TRUE)

Registered(specs) ==
    SelectSeq([l \in 1..Max(DOMAIN specs) |-> l], LAMBDA l : l \in DOMAIN specs)

\* Mutant: a hand that comes out one short gets nothing more.
EveryWhole(s, i, n) == [k \in 1..(Len(s) \div n) |-> s[i + (k - 1) * n]]

\* Every nth element from the ith on: s[i::n].
Every(s, i, n) == [k \in 1..Cdiv(Len(s) - i + 1, n) |-> s[i + (k - 1) * n]]

\* Dealt out in n hands.
Dealt(s, n) == [i \in 1..n |-> Every(s, i, n)]

\* The first bucket that x fits into takes it, or a new one does.
Bucketed(s, Fits(_)) ==
    LET Put(buckets, x) ==
          LET fits == {i \in DOMAIN buckets : Fits(ToSet(buckets[i]) \cup {x})}
          IN  IF fits = {} THEN Append(buckets, <<x>>)
              ELSE [buckets EXCEPT ![Min(fits)] = Append(@, x)]
    IN  FoldLeft(Put, <<>>, s)

Mapped(s, F(_)) == [i \in DOMAIN s |-> F(s[i])]

-----------------------------------------------------------------------------
(* Ways to group. Each is the set of groupings it comes to: empty if it      *)
(* raises.                                                                   *)

\* Layers of one page size: those that merge share a bucket, and every bucket
\* is dealt out to groups of about one size.
UniformPageGroups(specs) ==
    LET types   == Bucketed(Registered(specs),
                            LAMBDA ls : Cardinality({specs[l] : l \in ls}) = 1)
        merged  == Bucketed(types,
                            LAMBDA ts : Mergeable(UNION {SpecsOf(specs, t) : t \in ts}))
        buckets == Mapped(merged, FlattenSeq)
        sizes   == {Len(b) : b \in ToSet(buckets)}
        size    == IF 2 * Max(sizes) < 3 * Min(sizes) THEN Max(sizes) ELSE Min(sizes)
        Deal(b) == Dealt(b, Cdiv(Len(b), size))
    IN  Mapped(FlattenSeq(Mapped(buckets, Deal)), LAMBDA ls : MergedGroup(specs, ls))

LargestPage(specs) == Max({PageBytes(specs[l]) : l \in DOMAIN specs})

\* The block grows to fill the largest page; Mamba, and attention that is not
\* MLA, may pad their page to it.
UnifiedPage(s, page) ==
    IF s.kind # "mamba" /\ page % PageBytes(s) = 0
    THEN [s EXCEPT !.block = @ * (page \div PageBytes(s))]
    ELSE [s EXCEPT !.pad = IF PageBytes(s) = page THEN @ ELSE page]

CanUnifyPage(s, page) ==
    \/ page % PageBytes(s) = 0
    \/ s.kind \in {"mamba", "full", "swa", "hidden"}

UnifiedPages(specs) ==
    LET page == LargestPage(specs)
    IN  IF \A l \in DOMAIN specs : CanUnifyPage(specs[l], page)
        THEN {[l \in DOMAIN specs |-> UnifiedPage(specs[l], page)]}
        ELSE {}

\* Sliding-window layers are given the blocks of full attention.
Promoted(specs) ==
    LET full   == {specs[l].block : l \in {l \in DOMAIN specs : FullAttention(specs[l])}}
        To(s)  == IF s.kind # "swa" \/ full = {} THEN s
                  ELSE LET block == IF Cardinality(full) = 1 THEN Min(full) ELSE s.block
                           grown == (UnpaddedBytes(s) * block) \div s.block
                       IN  [s EXCEPT !.kind = "full", !.window = 0, !.block = block,
                                     !.pad = IF @ = 0 THEN 0 ELSE Max({@, grown})]
        result == [l \in DOMAIN specs |-> To(specs[l])]
    IN  IF Mergeable(Range(result)) \/ UniformType(Range(result)) THEN {result} ELSE {}

FullAllocation(specs) ==
    LET kinds == {specs[l].kind : l \in DOMAIN specs}
    IN  IF {"mla", "swa"} \subseteq kinds /\ "hidden" \notin kinds
        THEN {<<UniformGroup(p, Registered(p))>> :
                 p \in {q \in Promoted(specs) : UniformType(Range(q))}}
        ELSE {}
-----------------------------------------------------------------------------
(* GLM-5.3: Mamba shares the pages of MLA, a tail those of an indexer        *)

KindIn(specs, kinds) == SelectSeq(Registered(specs), LAMBDA l : specs[l].kind \in kinds)

MlaLayers(specs)     == SelectSeq(KindIn(specs, {"mla"}), LAMBDA l : specs[l].states = 1)
IndexerLayers(specs) == SelectSeq(KindIn(specs, {"mla"}), LAMBDA l : specs[l].states > 1)

\* The image of GLM-5.3 is patched for a DFlash2 drafter, which slides.
IsGlm5(specs, dflash) ==
    /\ KindIn(specs, {"mamba"}) # <<>>
    /\ KindIn(specs, {"full", "hidden"}) = <<>>
    /\ dflash \/ KindIn(specs, {"swa"}) = <<>>
    /\ IndexerLayers(specs) # <<>>

\* The block of the drafter is made to fill the page of MLA, if the blocks then
\* divide one another; else it is small, and its page is padded.
DrafterSpec(specs, s) ==
    LET page  == PageBytes(specs[Head(MlaLayers(specs))])
        block == specs[Head(MlaLayers(specs))].block
        fit   == page \div s.bytes
    IN  IF /\ page % s.bytes = 0 /\ fit > 0
           /\ fit % CompactBlock = 0
           /\ fit % block = 0 \/ block % fit = 0
           /\ Len(KindIn(specs, {"swa"})) <= Len(MlaLayers(specs))
        THEN [s EXCEPT !.block = fit]
        ELSE [s EXCEPT !.block = CompactBlock, !.pad = page]

DrafterGroups(specs) ==
    LET layers == KindIn(specs, {"swa"})
        grown  == [l \in ToSet(layers) |-> DrafterSpec(specs, specs[l])]
    IN  IF layers = <<>> THEN <<>> ELSE <<UniformGroup(grown, layers)>>

\* Mutant: the stages are not looked at.
BalancedOverall(specs, stages) ==
    {Cdiv(Len(KindIn(specs, {"mamba"})), Len(MlaLayers(specs)))}

\* On no stage of the pipeline may a group have more Mamba layers than the
\* stage has MLA layers.
BalancedCounts(specs, stages) ==
    LET On(stage, ls) == Len(SelectSeq(ls, LAMBDA l : l \in stage))
        mamba == KindIn(specs, {"mamba"})
        busy  == {stage \in stages : On(stage, mamba) > 0}
    IN  IF \E stage \in busy : On(stage, MlaLayers(specs)) = 0 THEN {}
        ELSE {Max({Cdiv(Len(mamba), Len(MlaLayers(specs)))} \cup
                  {Cdiv(On(stage, mamba), On(stage, MlaLayers(specs))) : stage \in busy})}

Glm5Groups(specs, stages) ==
    LET mamba   == KindIn(specs, {"mamba"})
        tails   == KindIn(specs, {"tail"})
        page    == PageBytes(specs[Head(MlaLayers(specs))])
        idxPage == PageBytes(specs[Head(IndexerLayers(specs))])
        padded  == [l \in DOMAIN specs |->
                       CASE specs[l].kind = "mamba" -> [specs[l] EXCEPT !.pad = page]
                         [] specs[l].kind = "tail"  -> [specs[l] EXCEPT !.pad = idxPage]
                         [] OTHER                   -> specs[l]]
        Pages(ls) == {PageBytes(specs[l]) : l \in ToSet(ls)}
    IN  IF \/ \E l \in ToSet(KindIn(specs, {"mla"})) : specs[l].pad # 0
           \/ Cardinality(Pages(IndexerLayers(specs))) # 1
           \/ Cardinality(Pages(MlaLayers(specs))) # 1
           \/ ~UniformType(SpecsOf(specs, KindIn(specs, {"mla"})))
           \/ ~UniformType(SpecsOf(padded, tails))
           \/ Cardinality(SpecsOf(specs, mamba)) # 1
           \/ specs[Head(mamba)].bytes > page
           \/ \E g \in Range(DrafterGroups(specs)) : PageBytes(SpecOf(g)) < UnpaddedBytes(SpecOf(g))
        THEN {}
        ELSE {<<UniformGroup(specs, KindIn(specs, {"mla"}))>>
              \o (IF tails = <<>> THEN <<>> ELSE <<UniformGroup(padded, tails)>>)
              \o Mapped(Dealt(mamba, n), LAMBDA ls : MergedGroup(padded, ls))
              \o DrafterGroups(specs) :
                 n \in BalancedCounts(specs, stages)}

-----------------------------------------------------------------------------
(* Packing: layers of several page sizes side by side in one block           *)

\* The d that pads the values least when each is rounded up to a multiple of
\* it; the largest of those.
ApproximateGcd(values, least) ==
    LET Padding(d) == MapThenFoldSet(+, 0, LAMBDA i : (d - (values[i] % d)) % d,
                                     LAMBDA I : CHOOSE i \in I : TRUE, DOMAIN values)
        ds   == least..Max(Range(values))
        best == {d \in ds : \A e \in ds : Padding(d) <= Padding(e)}
    IN  IF ds = {} THEN least ELSE Max(best)

\* The layers of a bucket by the size of their page.
ByPage(specs, bucket) ==
    Bucketed(bucket, LAMBDA ls : Cardinality({PageBytes(specs[l]) : l \in ls}) = 1)

Repeats(byPage)  == Max({Len(ls) : ls \in Range(byPage)})
Balanced(byPage) == Cardinality({Len(ls) : ls \in Range(byPage)}) = 1

\* A bucket of several page sizes is a pattern that repeats, and each group has
\* the same number of repeats; 0 where nothing needs packing. With
\* DSV41_KV_GROUPING=fine a group may have a single one.
RepeatsPerGroup(byPages, fine) ==
    LET balanced == SelectSeq(byPages, Balanced)
        whole    == {Repeats(p) : p \in {q \in Range(balanced) : Len(q) > 1}}
    IN  IF whole = {} THEN 0
        ELSE ApproximateGcd(Mapped(balanced, Repeats), IF fine THEN 1 ELSE Max(whole))

PackedBuckets(specs) ==
    Bucketed(Registered(specs), LAMBDA ls : UniformType({specs[l] : l \in ls}))

\* Groups that hold states are split until they fit the block that the other
\* groups need anyway. A split deals out whole repeats of the pattern.
PackedGroups(specs, fine) ==
    LET buckets == PackedBuckets(specs)
        byPages == Mapped(buckets, LAMBDA b : ByPage(specs, b))
        repeats == RepeatsPerGroup(byPages, fine)
        First(b)    == specs[Head(b)]
        IsState(b)  == First(b).kind = "mamba" \/ (repeats = 0 /\ First(b).kind = "swa")
        Page(ls)    == PageBytes(specs[Head(ls)])
        NumGroups(p)  == IF Balanced(p) /\ repeats # 0 THEN Cdiv(Repeats(p), repeats) ELSE 1
        Widest(p, n)  == FoldLeft(LAMBDA sum, ls : sum + Cdiv(Len(ls), n) * Page(ls), 0, p)
        anchor == Max({Widest(byPages[i], IF IsState(buckets[i]) THEN Len(buckets[i])
                                          ELSE NumGroups(byPages[i])) : i \in DOMAIN buckets})
        Count(i) ==
            IF ~IsState(buckets[i]) THEN NumGroups(byPages[i])
            ELSE LET states == Max({1, anchor \div PageBytes(First(buckets[i]))})
                 IN  Max({NumGroups(byPages[i]), Cdiv(Len(buckets[i]), states)})
        Pattern(p) == [k \in 1..Min({Len(ls) : ls \in Range(p)}) |-> Mapped(p, LAMBDA ls : ls[k])]
        Split(i) ==
            IF Count(i) = 1 THEN <<buckets[i]>>
            ELSE Mapped(Dealt(Pattern(byPages[i]), Count(i)), FlattenSeq)
    IN  Mapped(FlattenSeq([i \in DOMAIN buckets |-> Split(i)]),
               LAMBDA ls : UniformGroup(specs, ls))
-----------------------------------------------------------------------------
(* get_kv_cache_groups *)

\* The groups that hold layers of the drafter. A DeepSeek-V4 drafter cannot be
\* told from its spec; its layer is the last one registered.
Annotated(groups, specs, byPosition) ==
    LET Has(g)  == \E l \in DOMAIN g.spec : g.spec[l].draft
        last(g) == byPosition /\ Max(DOMAIN specs) \in ToSet(g.layers)
    IN  Mapped(groups, LAMBDA g : [g EXCEPT !.draft = Has(g) \/ last(g)])

\* Layers that store hidden states have a block table of their own.
HiddenGroup(groups, l, s) ==
    LET page  == PageBytes(SpecOf(groups[1]))
        most  == Max({1, page \div s.bytes})
        fits  == {b \in 1..most : \A g \in ToSet(groups) : SpecOf(g).block % b = 0}
    IN  Group(<<l>>, l :> [s EXCEPT !.block = Max(fits), !.pad = page], FALSE)

\* Every way that applies is tried in this order.
KVCacheGroups(conf) ==
    LET specs  == conf.specs
        hidden == KindIn(specs, {"hidden"})
        others == Restrict(specs, DOMAIN specs \ ToSet(hidden))
        Drafted(groups, byPosition) ==
            IF conf.drafter = "none" THEN groups
            ELSE Annotated(groups, others, byPosition /\ conf.drafter = "deepseek_v4")
        Plain(l) == Group(<<l>>, l :> specs[l], FALSE)
        Unified(u) ==
            LET groups == UniformPageGroups(u)
            IN  Drafted(groups \o Mapped(hidden, LAMBDA l : HiddenGroup(groups, l, specs[l])),
                        FALSE)
    IN  IF Mergeable(Range(specs))   THEN {<<MergedGroup(specs, Registered(specs))>>}
        ELSE IF UniformType(Range(specs)) THEN {<<UniformGroup(specs, Registered(specs))>>}
        ELSE IF IsGlm5(specs, conf.dflash) THEN Glm5Groups(specs, Range(conf.workers))
        ELSE IF conf.outermost /\ Cardinality({PageBytes(s) : s \in Range(others)}) > 1
        THEN {Drafted(PackedGroups(others, conf.fine), TRUE) \o Mapped(hidden, Plain)}
        ELSE IF UnifiedPages(others) # {} THEN {Unified(u) : u \in UnifiedPages(others)}
        ELSE FullAllocation(specs)

\* With the hybrid manager disabled every layer is given one type first.
GroupedLayers(conf) ==
    IF conf.hybrid \/ Mergeable(Range(conf.specs)) \/ UniformType(Range(conf.specs))
    THEN KVCacheGroups(conf)
    ELSE UNION {KVCacheGroups([conf EXCEPT !.specs = p]) : p \in Promoted(conf.specs)}
=============================================================================
