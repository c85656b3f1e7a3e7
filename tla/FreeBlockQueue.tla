--------------------------- MODULE FreeBlockQueue ---------------------------
(***************************************************************************)
(* The free blocks of the KV cache, as a doubly linked list through the    *)
(* blocks themselves, between a fake head and a fake tail.                 *)
(*                                                                         *)
(* src/cuda-gb10-vllm-dsv41-exl3/patches/kv_cache_utils.py, class          *)
(* FreeKVCacheBlockQueue. Its caller, vLLM's block pool, is not under      *)
(* src/: it allocates from the front, takes a block with a cached prefix   *)
(* out of the middle when a request hits it, gives back only what it       *)
(* holds, and looks through the list with a generator that it may leave    *)
(* suspended while it does any of these.                                   *)
(***************************************************************************)
EXTENDS Integers

CONSTANTS
    NumBlocks,          \* blocks 0..NumBlocks - 1
    Head, Tail,         \* the fake blocks, block_id -1 both
    None

ASSUME NumAssumption == NumBlocks \in Nat

BlockIds == 0 .. NumBlocks - 1

Nodes == BlockIds \cup {Head, Tail}

ASSUME NodesAssumption ==
    /\ Head \notin BlockIds /\ Tail \notin BlockIds /\ Head # Tail
    /\ None \notin Nodes

VARIABLES
    next, prev,     \* next_free_block and prev_free_block of each block
    num,            \* num_free_blocks
    held,           \* the blocks the pool has taken and not given back
    curr            \* curr_block of the pool's generator, None without one

links == <<next, prev>>
vars  == <<links, num, held, curr>>

TypeOK ==
    /\ next \in [Nodes -> Nodes \cup {None}]
    /\ prev \in [Nodes -> Nodes \cup {None}]
    /\ num \in Nat
    /\ held \subseteq BlockIds
    /\ curr \in BlockIds \cup {None}

-----------------------------------------------------------------------------
(* Paths: the first of k blocks is element 1, elements 0 and k + 1 are its   *)
(* neighbours.                                                               *)

Path(a, blocks, k, z) ==
    [i \in 0 .. k + 1 |-> IF i = 0 THEN a ELSE IF i = k + 1 THEN z ELSE blocks[i]]

\* Along the path every element is linked to the one after it and back; the
\* blocks dropped from the list lose both links; the others keep theirs.
After(path, k, old, x) ==
    IF \E i \in 0..k : path[i] = x
    THEN path[(CHOOSE i \in 0..k : path[i] = x) + 1]
    ELSE old[x]

Before(path, k, old, x) ==
    IF \E i \in 0..k : path[i + 1] = x
    THEN path[CHOOSE i \in 0..k : path[i + 1] = x]
    ELSE old[x]

Relink(path, k, dropped) ==
    /\ next' = [x \in Nodes |-> IF x \in dropped THEN None ELSE After(path, k, next, x)]
    /\ prev' = [x \in Nodes |-> IF x \in dropped THEN None ELSE Before(path, k, prev, x)]

Unlinked == [x \in Nodes |-> None]

Init ==
    /\ LET all == Path(Head, [i \in 1..NumBlocks |-> i - 1], NumBlocks, Tail) IN
          /\ next = [x \in Nodes |-> After(all, NumBlocks, Unlinked, x)]
          /\ prev = [x \in Nodes |-> Before(all, NumBlocks, Unlinked, x)]
    /\ num = NumBlocks
    /\ held = {}
    /\ curr = None

-----------------------------------------------------------------------------
popleft ==
    LET first == next[Head] IN
    /\ first \notin {Tail, None}            \* else ValueError
    /\ next[first] # None                   \* else RuntimeError
    /\ Relink(Path(Head, <<>>, 0, next[first]), 0, {first})
    /\ num' = num - 1
    /\ held' = held \cup {first}
    /\ UNCHANGED curr

\* The n blocks from the head on, found by following their links.
FirstBlocks(n, ret) ==
    /\ ret[1] = next[Head]
    /\ \A i \in 1 .. n - 1 : ret[i + 1] = next[ret[i]]

\* Mutant: the popped blocks keep their links.
popleft_n_linked(n) ==
    /\ n <= num
    /\ \E ret \in [1..n -> Nodes] :
          /\ FirstBlocks(n, ret)
          /\ Relink(Path(Head, <<>>, 0, next[ret[n]]), 0, {})
          /\ num' = num - n
          /\ held' = held \cup {ret[i] : i \in 1..n}
    /\ UNCHANGED curr

\* n = 0 returns at once. The assertion that n blocks are free is the caller's
\* to keep.
popleft_n(n) ==
    /\ n <= num
    /\ \E ret \in [1..n -> Nodes] :
          /\ FirstBlocks(n, ret)
          /\ Relink(Path(Head, <<>>, 0, next[ret[n]]), 0, {ret[i] : i \in 1..n})
          /\ num' = num - n
          /\ held' = held \cup {ret[i] : i \in 1..n}
    /\ UNCHANGED curr

\* A block that is not in the list has no links, and the call raises.
remove(block) ==
    /\ prev[block] # None /\ next[block] # None     \* else RuntimeError
    /\ Relink(Path(prev[block], <<>>, 0, next[block]), 0, {block})
    /\ num' = num - 1
    /\ held' = held \cup {block}
    /\ UNCHANGED curr

append(block) ==
    /\ Relink(Path(prev[Tail], <<block>>, 1, Tail), 1, {})
    /\ num' = num + 1
    /\ held' = held \ {block}
    /\ UNCHANGED curr

\* k blocks the pool holds, in some order.
Batch(k) == {b \in [1..k -> held] : \A i, j \in 1..k : b[i] = b[j] => i = j}

\* Mutant: the old first block is not linked back to the last new one.
prepend_n_oneway(k, blocks) ==
    LET path == Path(Head, blocks, k, next[Head]) IN
    /\ next' = [x \in Nodes |-> After(path, k, next, x)]
    /\ prev' = [x \in Nodes |-> IF x = next[Head] THEN prev[x] ELSE Before(path, k, prev, x)]
    /\ num' = num + k
    /\ held' = held \ {blocks[i] : i \in 1..k}
    /\ UNCHANGED curr

prepend_n(k, blocks) ==
    /\ Relink(Path(Head, blocks, k, next[Head]), k, {})
    /\ num' = num + k
    /\ held' = held \ {blocks[i] : i \in 1..k}
    /\ UNCHANGED curr

\* Mutant: the new blocks end up before the last one.
append_n_before_last(k, blocks) ==
    /\ IF num = 0
       THEN Relink(Path(Head, blocks, k, Tail), k, {})
       ELSE Relink(Path(prev[prev[Tail]], blocks, k, prev[Tail]), k, {})
    /\ num' = num + k
    /\ held' = held \ {blocks[i] : i \in 1..k}
    /\ UNCHANGED curr

append_n(k, blocks) ==
    /\ Relink(Path(prev[Tail], blocks, k, Tail), k, {})
    /\ num' = num + k
    /\ held' = held \ {blocks[i] : i \in 1..k}
    /\ UNCHANGED curr

\* What the generator is left suspended at, unless it has come to the end.
Yield(block) == IF block \in {None, Tail} THEN None ELSE block

\* A new generator, from a cursor on, or from the head. An old one is dropped.
iter_blocks_after(cursor) ==
    /\ curr' = Yield(next[IF cursor = None THEN Head ELSE cursor])
    /\ UNCHANGED <<links, num, held>>

iter_next ==
    /\ curr # None
    /\ curr' = Yield(next[curr])
    /\ UNCHANGED <<links, num, held>>

Next ==
    \/ popleft
    \/ \E block \in BlockIds : remove(block)
    \/ \E block \in held : append(block)
    \/ \E k \in 1..NumBlocks :
          \/ popleft_n(k)
          \/ \E blocks \in Batch(k) : prepend_n(k, blocks) \/ append_n(k, blocks)
    \/ \E cursor \in BlockIds \cup {None} : iter_blocks_after(cursor)
    \/ iter_next

Spec == Init /\ [][Next]_vars
-----------------------------------------------------------------------------
(* Properties *)

\* The links encode the list s, forwards and backwards, and nothing else: a
\* block that is not in it has none, which is how remove() tells.
LinkedAs(s) ==
    LET path == Path(Head, s, num, Tail) IN
    /\ \A i \in 0..num : next[path[i]] = path[i + 1] /\ prev[path[i + 1]] = path[i]
    /\ \A i, j \in 1..num : s[i] = s[j] => i = j
    /\ held = {b \in BlockIds : \A i \in 1..num : s[i] # b}
    /\ \A b \in held : next[b] = None /\ prev[b] = None
    /\ next[Tail] = None /\ prev[Head] = None

\* However blocks are taken and given back, the links form one chain through
\* exactly the blocks that are free, as many as num_free_blocks says.
WellLinked ==
    \E s \in [1..num -> BlockIds] : LinkedAs(s)

\* A generator never yields a block that is in use, though the one it is
\* suspended at, or its cursor, may have been taken and given back meanwhile.
YieldsFree ==
    [][(curr' # curr /\ curr' # None) => curr' \notin held']_vars

\* The list as get_all_free_blocks reads it.
get_all_free_blocks == CHOOSE s \in [1..num -> BlockIds] : LinkedAs(s)

\* The links implement the list the pool expects, in its order of reuse.
List == INSTANCE FreeList WITH Blocks <- BlockIds, order <- get_all_free_blocks
KeepsOrder == List!Spec
=============================================================================
