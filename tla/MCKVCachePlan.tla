--------------------------- MODULE MCKVCachePlan ---------------------------
EXTENDS KVCachePlan

Layer(kind, block, bytes, states, window) ==
    [kind |-> kind, block |-> block, bytes |-> bytes, pad |-> 0, states |-> states,
     window |-> window, draft |-> FALSE]

Full    == Layer("full", 2, 1, 1, 0)
Wide    == Layer("full", 2, 2, 1, 0)
Huge    == Layer("full", 2, 8, 1, 0)
Sliding == Layer("swa", 2, 1, 1, 3)
Broad   == Layer("swa", 2, 2, 1, 3)
Mla     == Layer("mla", 2, 2, 1, 0)
Drafter == [Mla EXCEPT !.draft = TRUE]
Indexer == Layer("mla", 2, 1, 2, 0)
Odd     == Layer("mla", 3, 1, 1, 0)
Mamba   == Layer("mamba", 4, 2, 1, 0)
Deep    == Layer("mla", 4, 2, 1, 0)
Sparse  == Layer("mla", 4, 1, 2, 0)
KpoolTail == Layer("tail", 2, 1, 1, 0)
Hidden  == Layer("hidden", 2, 1, 1, 0)

\* One worker, two that share all layers, two stages of a pipeline.
Placed(n) ==
    {<<1..n>>, <<1..n, 1..n>>} \cup {<<1..k, (k + 1)..n>> : k \in 1..(n - 1)}

\* What is the same unless a family of engines is about it.
Engine(specs, workers, bytes, outermost) ==
    [specs |-> specs, workers |-> workers, memory |-> SubSeq(bytes, 1, Len(workers)),
     hybrid |-> TRUE, outermost |-> outermost, drafter |-> "none", override |-> 0,
     dflash |-> FALSE, fine |-> FALSE, maxLen |-> 7, autoFit |-> FALSE]

Engines(models, memories) ==
    UNION {{Engine(m, ws, bytes, outermost) :
               ws \in Placed(Len(m)), bytes \in memories, outermost \in BOOLEAN} : m \in models}

Fitted(engines) == {[e EXCEPT !.autoFit = TRUE] : e \in engines}

Mixed == UNION {[1..n -> {Full, Wide, Sliding, Broad, Mamba}] : n \in 1..3}

\* Buckets whose pattern repeats, one that is not balanced, and a drafter that
\* cannot be told by its spec.
Packed ==
    {<<Mla, Indexer, Sliding, Sliding, Mla, Indexer>>,
     <<Indexer, Mla, Mla, Indexer, Broad, Sliding, Sliding>>,
     <<Full, Wide, Mamba, Full, Wide, Mamba, Mamba>>,
     <<Mla, Indexer, Broad, Broad, Drafter>>}

\* The last one has an indexer whose blocks are not those of MLA.
Glm == {<<Mamba, Mla, Indexer, KpoolTail, Mamba, Mamba, Mla, Indexer, KpoolTail>>,
        <<Mla, Indexer, Mamba, Mamba, Mamba, Mla>>, <<Indexer, Mla, Mamba, Mla>>,
        <<Mamba, Mla, Sparse>>}

\* Sliding windows of one length with pages of two sizes, not as many of each.
Uneven == {<<Huge, Broad, Sliding, Sliding, Broad, Broad>>, <<Full, Broad, Broad, Sliding>>}

\* GLM-5.3 with a drafter whose block can fill the page of MLA, with one that
\* cannot, and with more drafter layers than a stage has MLA layers.
Slim    == Layer("swa", 4, 1, 1, 3)
Thick   == Layer("swa", 4, 3, 1, 3)
Heavy   == Layer("swa", 4, 5, 1, 3)
DFlash  == UNION {{<<Mamba, Deep, Sparse, Mamba, Deep, d, d>>, <<Mamba, Deep, Sparse, d, d>>} :
                     d \in {Slim, Thick, Heavy}}

Stored == {<<Full, Mamba, Hidden>>, <<Wide, Hidden, Sliding>>}

Small == <<31, 19>>
Large == <<64, 90>>
Ample == <<150, 130>>

MCConfigurations ==
    LET plain == Engines(Mixed, {Small}) \cup Engines(Packed \cup Glm \cup Stored, {Small, Large})
                 \cup Engines(Uneven, {Large})
        mixed == Engines([1..2 -> {Full, Wide, Sliding, Broad, Mla, Odd}], {Small})
    IN  plain \cup Fitted(plain)
        \cup {[e EXCEPT !.hybrid = FALSE] : e \in mixed}
        \cup {[e EXCEPT !.override = 6] : e \in Fitted(mixed \cup Engines(Uneven, {Large}))}
        \cup {[e EXCEPT !.dflash = TRUE] :
                 e \in {f \in Engines(DFlash, {Ample}) : ~f.outermost}}
        \cup {[e EXCEPT !.fine = TRUE] : e \in Engines(Packed, {Large})}
        \cup {[e EXCEPT !.drafter = "deepseek_v4"] : e \in Engines(Packed, {Large})}
=============================================================================
