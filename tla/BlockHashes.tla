----------------------------- MODULE BlockHashes -----------------------------
(***************************************************************************)
(* The hashes by which full KV-cache blocks are found again: computed for  *)
(* a request when it is created, extended as tokens are generated, and     *)
(* viewed by each cache group at its own block size.                       *)
(*                                                                         *)
(* src/cuda-gb10-vllm-dsv41-exl3/patches/kv_cache_utils.py. The callers    *)
(* (vllm's Request) are not under src/; the comments in the hasher say     *)
(* when it is called: for the prompt as a whole, then after generating.    *)
(*                                                                         *)
(* A hash is modelled by what is hashed: the hash function is taken to     *)
(* have no collisions. An item is a multi-modal input; its placeholder     *)
(* tokens are the same whatever it is, and its length is a matter of which *)
(* one it is. Embedded prompts are left out.                               *)
(***************************************************************************)
EXTENDS Integers, Sequences, FiniteSetsExt

CONSTANTS
    Requests,
    Items,             \* identifiers of multi-modal inputs
    LengthOf,          \* how many placeholder tokens an item has
    Texts,             \* tokens that are not placeholders
    Placeholder,
    Adapters,          \* LoRA names
    Salts,             \* cache salts
    None,              \* no adapter, no salt
    HashBlockSize,     \* hash_block_size
    ScaleFactor,       \* a group's block size, in hash blocks
    MaxPrompt,         \* bound: tokens of a prompt
    MaxItems,          \* bound: items of a prompt
    MaxTokens          \* bound: tokens of a request

ASSUME SizesAssumption == {HashBlockSize, ScaleFactor} \subseteq Nat \ {0}
ASSUME BoundsAssumption == {MaxPrompt, MaxItems, MaxTokens} \subseteq Nat /\ MaxPrompt <= MaxTokens
ASSUME ItemsAssumption == LengthOf \in [Items -> Nat \ {0}]
ASSUME NoneAssumption == Placeholder \notin Texts /\ None \notin Adapters \cup Salts

\* The code does not tell a name from a salt that is the same string, but it
\* does tell them from an item with its offset.
ASSUME NamesAssumption ==
    /\ Adapters \cap Salts = {}
    /\ \A name \in Adapters \cup Salts : name \notin Items \X Int

Features == [identifier : Items, offset : 0 .. MaxPrompt - 1]

End(f) == f.offset + LengthOf[f.identifier]

\* The items of a prompt of n tokens lie in it, one after the other.
Layouts(n) ==
    {fs \in UNION {[1..k -> Features] : k \in 0..MaxItems} :
        /\ \A i \in DOMAIN fs : End(fs[i]) <= n
        /\ \A i, j \in DOMAIN fs : i < j => End(fs[i]) <= fs[j].offset}

Inside(fs, p) == \E i \in DOMAIN fs : fs[i].offset <= p /\ p < End(fs[i])

Inputs == [features : Seq(Features), lora : Adapters \cup {None}, salt : Salts \cup {None},
           prompt : 0..MaxPrompt, tokens : Seq(Texts \cup {Placeholder})]

VARIABLES
    request,       \* what each request is: its mm_features, sorted by offset,
                   \* lora name, cache_salt, the length of its prompt and
                   \* all_token_ids
    block_hashes   \* Request.block_hashes

vars == <<request, block_hashes>>

-----------------------------------------------------------------------------
(* The hasher *)

\* The first item from the ith on that ends after token x, and the first that
\* begins there or later: behind the last one if there is none.
EndsAfter(fs, i, x)  == Min({j \in i..Len(fs) : x < End(fs[j])} \cup {Len(fs) + 1})
BeginsFrom(fs, i, x) == Min({j \in i..Len(fs) : x <= fs[j].offset} \cup {Len(fs) + 1})

\* The items from the ith on that a block holds, with their offset in it.
ItemKeys(fs, start, i) ==
    LET first == EndsAfter(fs, i, start)
        Key(f) == <<f.identifier, f.offset - start>>
    IN  [k \in 1 .. BeginsFrom(fs, i, start + HashBlockSize) - first |-> Key(fs[first + k - 1])]

\* The first item from the ith on that a block does not hold the end of.
NextItem(fs, start, i) == EndsAfter(fs, i, start + HashBlockSize)

KeyOf(name) == IF name = None THEN <<>> ELSE <<name>>

\* generate_block_hash_extra_keys(): one flat tuple of all of them.
ExtraKeys(q, start, i) ==
    KeyOf(q.lora) \o ItemKeys(q.features, start, i)
        \o KeyOf(IF start = 0 THEN q.salt ELSE None)

NoneHash == <<>>

BlockHash(parent, block, extra_keys) == <<parent, block, extra_keys>>

\* Mutant: once a block is hashed no item is searched for.
FirstItemNone(fs, from) == IF from = 0 THEN 1 ELSE Len(fs) + 1

\* Where the search for items starts: at the last one once a block is hashed.
FirstItem(fs, from) == IF from = 0 \/ fs = <<>> THEN 1 ELSE Len(fs)

\* Mutant: a block that ends with the last token does not count as full.
NumBlocksLate(toks) == (Len(toks) - 1) \div HashBlockSize

NumBlocks(toks) == Len(toks) \div HashBlockSize

\* The kth block, hashed after the one before it.
HashNext(q, last, k) ==
    LET start == (k - 1) * HashBlockSize
    IN  [hash |-> BlockHash(last.hash, SubSeq(q.tokens, start + 1, start + HashBlockSize),
                            ExtraKeys(q, start, last.item)),
         item |-> NextItem(q.features, start, last.item)]

\* request_block_hasher(): the hashes of the full blocks that have none yet,
\* each over the one before.
NewHashes(q, hashes) ==
    LET from == Len(hashes)
        to   == NumBlocks(q.tokens)
        walk[k \in from..to] ==
            IF k = from
            THEN [hash |-> IF from = 0 THEN NoneHash ELSE hashes[from],
                  item |-> FirstItem(q.features, from)]
            ELSE HashNext(q, walk[k - 1], k)
    IN [k \in 1 .. to - from |-> walk[from + k].hash]

\* Mutant: a group's hash is that of the first hash block of its block.
GroupHashFirst(hashes, idx) == hashes[(idx - 1) * ScaleFactor + 1]

\* BlockHashListWithBlockSize: the hash of a group's block is that of the last
\* hash block in it.
GroupHash(hashes, idx) == hashes[idx * ScaleFactor]

NumGroupBlocks(hashes) == Len(hashes) \div ScaleFactor

-----------------------------------------------------------------------------
NoRequest == [features |-> <<>>, lora |-> None, salt |-> None, prompt |-> 0, tokens |-> <<>>]

Init ==
    /\ request = [r \in Requests |-> NoRequest]
    /\ block_hashes = [r \in Requests |-> <<>>]

\* A request becomes q, and its new full blocks are hashed.
Becomes(r, q) ==
    /\ request' = [request EXCEPT ![r] = q]
    /\ block_hashes' = [block_hashes EXCEPT ![r] = @ \o NewHashes(q, @)]

\* A request arrives with its prompt.
Arrive(r) ==
    /\ request[r] = NoRequest
    /\ \E n \in 1..MaxPrompt :
       \E fs \in Layouts(n), text \in [1..n -> Texts],
          a \in Adapters \cup {None}, s \in Salts \cup {None} :
          Becomes(r, [features |-> fs, lora |-> a, salt |-> s, prompt |-> n,
                      tokens |-> [p \in 1..n |-> IF Inside(fs, p - 1) THEN Placeholder
                                                                    ELSE text[p]]])

\* A token is generated.
Generate(r) ==
    /\ request[r] # NoRequest
    /\ Len(request[r].tokens) < MaxTokens
    /\ \E t \in Texts :
          Becomes(r, [request[r] EXCEPT !.tokens = Append(@, t)])

Next == \E r \in Requests : Arrive(r) \/ Generate(r)

Spec == Init /\ [][Next]_vars
-----------------------------------------------------------------------------
(* Properties *)

\* Types, and every full block of a request has its hash, no other has.
TypeOK ==
    /\ request \in [Requests -> Inputs]
    /\ \A r \in Requests :
          LET hashed == Len(block_hashes[r]) * HashBlockSize
          IN  Len(request[r].tokens) \in hashed .. hashed + HashBlockSize - 1

\* What the KV of the first n tokens depends on.
Prefix(q, n) ==
    [tokens |-> SubSeq(q.tokens, 1, n),
     items  |-> {q.features[i] : i \in {j \in DOMAIN q.features : q.features[j].offset < n}},
     lora   |-> q.lora,
     salt   |-> q.salt]

SameBlocks(hash, num, span) ==
    \A r, s \in Requests :
        \A i \in 1..num[r], j \in 1..num[s] :
            hash[r][i] = hash[s][j] <=>
                /\ i = j
                /\ Prefix(request[r], i * span) = Prefix(request[s], j * span)

\* The items of the block, not the first, that a prompt ends in the middle of.
ItemsInTail(q) ==
    LET tail == NumBlocks(SubSeq(q.tokens, 1, q.prompt)) * HashBlockSize
    IN  {i \in DOMAIN q.features : tail > 0 /\ End(q.features[i]) > tail}

\* kv_cache_utils.py:803: each hash uniquely fingerprints the prefix ending at
\* its boundary.
HashIsOfPrefix ==
    SameBlocks(block_hashes, [r \in Requests |-> Len(block_hashes[r])], HashBlockSize)

\* Two requests share a block's hash just when all that its KV depends on is
\* the same, whether the block was hashed with the prompt or completed later by
\* generated tokens; as long as no prompt ends in a block of several items.
HashIsOfPrefixUnlessItemsInTail ==
    (\A r \in Requests : Cardinality(ItemsInTail(request[r])) <= 1) => HashIsOfPrefix

\* And so for the blocks of a group that are several hash blocks long, of which
\* a group sees the full ones.
GroupHashIsOfPrefix ==
    (\A r \in Requests : Cardinality(ItemsInTail(request[r])) <= 1) =>
        SameBlocks([r \in Requests |->
                       [i \in 1 .. NumGroupBlocks(block_hashes[r]) |-> GroupHash(block_hashes[r], i)]],
                   [r \in Requests |-> Len(request[r].tokens) \div (HashBlockSize * ScaleFactor)],
                   HashBlockSize * ScaleFactor)
=============================================================================
