-------------------------- MODULE EngramHashProofs --------------------------
(***************************************************************************)
(* Every token of a step is hashed as in the whole text of its request,    *)
(* for any n-gram size, block size and number of blocks, and however       *)
(* requests, chunks, drafts, prefix hits and preemptions are mixed.        *)
(*                                                                         *)
(* The V2 runner passes the window before a chunk. The V1 runner passes    *)
(* what is of the prompt, and the kernel looks the rest up in the slot     *)
(* cache: that it finds the text there rests on how the block pool gives   *)
(* out blocks (PoolInv).                                                   *)
(*                                                                         *)
(* The argument: a block belongs to one request unless it is filled with a *)
(* prefix both texts have (SharedOK, ContentOK), and a step writes only to *)
(* slots of blocks that are not complete. So no two tokens of a step have  *)
(* a slot, and what is computed of a text is not overwritten (TextsRight,  *)
(* BlocksRight), as long as attention, and so a lookback, may need it.     *)
(*                                                                         *)
(* Last, the rows: every rank count and every local copy gives the columns *)
(* of an n-gram the rows of their buckets.                                 *)
(***************************************************************************)
EXTENDS EngramHash, WellFoundedInduction, SequenceTheorems, TLAPS

\* A request that runs has a token to compute.
RequestsOK ==
    /\ tokens \in [Requests -> Seq(Tokens)]
    /\ computed \in [Requests -> Nat] /\ prompt \in [Requests -> Nat]
    /\ status \in [Requests -> {"out", "waiting", "running", "done"}]
    /\ \A r \in Requests : status[r] = "running" => computed[r] < Len(tokens[r])

\* The step has rows of running requests, with a token or more in each.
RowsOK ==
    /\ batch.reqs \in Seq(Requests)
    /\ \A q \in 1..Len(batch.reqs) : status[batch.reqs[q]] = "running"
    /\ batch.query_start_loc \in Seq(Nat)
    /\ Len(batch.query_start_loc) = Len(batch.reqs) + 1
    /\ batch.query_start_loc[1] = 0
    /\ batch.query_start_loc[Len(batch.reqs) + 1] = NumTokens
    /\ \A q1, q2 \in 1..(Len(batch.reqs) + 1) :
          q1 < q2 => batch.query_start_loc[q1] < batch.query_start_loc[q2]

\* A row has the positions that follow what is computed of its request.
PositionsOK ==
    /\ batch.input_ids \in Seq(Tokens)
    /\ batch.positions \in Seq(Nat)
    /\ Len(batch.positions) = NumTokens
    /\ \A q \in 1..Len(batch.reqs) :
          \A i \in batch.query_start_loc[q]..(batch.query_start_loc[q + 1] - 1) :
             batch.positions[i + 1] = computed[batch.reqs[q]] + (i - batch.query_start_loc[q])

IInv == RequestsOK /\ RowsOK /\ PositionsOK
-----------------------------------------------------------------------------
(* The step of a runner preserves the rows *)

\* Drafts are tokens.
LEMMA DraftsAreTokens ==
    ASSUME NEW drafts \in BoundedSeq(Generated, MaxDrafts)
    PROVE  drafts \in Seq(Tokens) /\ Len(drafts) \in Nat
<1>1. Generated \subseteq Tokens /\ MaxDrafts \in Nat
    BY TokenAssumption, BoundAssumption
<1>2. PICK m \in 0..MaxDrafts : drafts \in [1..m -> Generated]
    BY DEF BoundedSeq, SeqOf
<1>3. m \in Nat /\ drafts \in [1..m -> Tokens]
    BY <1>1, <1>2
<1> QED BY <1>3

\* A part of a sequence, given that it lies within it.
LEMMA PartOf ==
    ASSUME NEW S, NEW s \in Seq(S), NEW a \in Nat, NEW b \in Nat, a <= b, b <= Len(s)
    PROVE  /\ SubSeq(s, a + 1, b) \in Seq(S)
           /\ Len(SubSeq(s, a + 1, b)) = b - a
           /\ \A j \in 1..(b - a) : SubSeq(s, a + 1, b)[j] = s[a + j]
<1>1. \A j \in 1..(b - a) : a + j \in 1..Len(s)
    OBVIOUS
<1>2. SubSeq(s, a + 1, b) = [j \in 1..(b - a) |-> s[a + j]]
    OBVIOUS
<1>3. SubSeq(s, a + 1, b) \in [1..(b - a) -> S]
    <2>1. \A j \in 1..(b - a) : s[a + j] \in S
        BY <1>1
    <2> QED BY <1>2, <2>1, Zenon
<1>4. b - a \in Nat
    OBVIOUS
<1>5. SubSeq(s, a + 1, b) \in Seq(S)
    BY <1>3, <1>4
<1>6. Len(SubSeq(s, a + 1, b)) = b - a
    BY <1>3, <1>4, <1>5
<1> QED BY <1>2, <1>5, <1>6

\* The minimum of two integers is one of them.
LEMMA MinOfTwo ==
    ASSUME NEW a \in Int, NEW b \in Int
    PROVE  Min({a, b}) = IF a <= b THEN a ELSE b
BY DEF Min

\* A row of k tokens more keeps the boundaries.
LEMMA BoundariesExtended ==
    ASSUME NEW m \in Nat, NEW loc \in Seq(Nat), Len(loc) = m + 1, loc[1] = 0,
           \A q1, q2 \in 1..(m + 1) : q1 < q2 => loc[q1] < loc[q2],
           NEW k \in Nat \ {0},
           NEW new, new = Append(loc, loc[m + 1] + k)
    PROVE  /\ new \in Seq(Nat)
           /\ Len(new) = m + 2
           /\ \A q \in 1..(m + 1) : new[q] = loc[q]
           /\ new[m + 2] = loc[m + 1] + k
           /\ \A q1, q2 \in 1..(m + 2) : q1 < q2 => new[q1] < new[q2]
<1>1. \A q \in 1..(m + 1) : loc[q] \in Nat
    BY ElementOfSeq
<1>2. loc[m + 1] + k \in Nat
    BY <1>1
<1>3. new \in Seq(Nat) /\ Len(new) = m + 2
    BY <1>2
<1>4. \A q \in 1..(m + 1) : new[q] = loc[q]
    BY <1>2
<1>5. new[m + 2] = loc[m + 1] + k
    BY <1>2
<1>6. \A q \in 1..(m + 1) : loc[q] <= loc[m + 1]
    BY <1>1
<1>7. ASSUME NEW q1 \in 1..(m + 2), NEW q2 \in 1..(m + 2), q1 < q2
      PROVE  new[q1] < new[q2]
    <2>1. CASE q2 = m + 2
        BY <2>1, <1>1, <1>4, <1>5, <1>6, <1>7
    <2>2. CASE q2 # m + 2
        <3>1. q1 \in 1..(m + 1) /\ q2 \in 1..(m + 1)
            BY <2>2, <1>7
        <3> QED BY <3>1, <1>4, <1>7
    <2> QED BY <2>1, <2>2
<1> QED BY <1>3, <1>4, <1>5, <1>7

\* A row ends within the step.
LEMMA RowEnds ==
    ASSUME RowsOK, NEW q \in 1..Len(batch.reqs)
    PROVE  /\ batch.query_start_loc[q] \in Nat
           /\ batch.query_start_loc[q + 1] \in Nat
           /\ NumTokens \in Nat
           /\ batch.query_start_loc[q] < batch.query_start_loc[q + 1]
           /\ batch.query_start_loc[q + 1] <= NumTokens
<1> DEFINE loc == batch.query_start_loc
           m   == Len(batch.reqs)
<1>1. m \in Nat /\ loc \in Seq(Nat) /\ Len(loc) = m + 1
    BY DEF RowsOK
<1>2. \A p \in 1..(m + 1) : loc[p] \in Nat
    BY <1>1, ElementOfSeq
<1>3. loc[m + 1] = NumTokens
    BY DEF RowsOK
<1>4. \A q1, q2 \in 1..(m + 1) : q1 < q2 => loc[q1] < loc[q2]
    BY DEF RowsOK
<1>5. q \in 1..(m + 1) /\ q + 1 \in 1..(m + 1) /\ m + 1 \in 1..(m + 1)
    BY <1>1
<1> HIDE DEF loc, m
<1>6. loc[q] < loc[q + 1] /\ loc[q + 1] <= loc[m + 1]
    BY <1>1, <1>2, <1>4, <1>5
<1> QED BY <1>2, <1>3, <1>5, <1>6 DEF loc

\* Two sequences one after the other.
LEMMA Joined ==
    ASSUME NEW S, NEW s \in Seq(S), NEW t \in Seq(S),
           NEW a \in Nat, a = Len(s), NEW b \in Nat, b = Len(t)
    PROVE  /\ s \o t \in Seq(S)
           /\ Len(s \o t) = a + b
           /\ \A j \in 1..a : (s \o t)[j] = s[j]
           /\ \A j \in 1..b : (s \o t)[a + j] = t[j]
<1>1. \A j \in 1..b : a + j \in 1..(a + b) /\ ~(a + j <= a) /\ a + j - a = j
    OBVIOUS
<1>2. \A j \in 1..a : j \in 1..(a + b) /\ j <= a
    OBVIOUS
<1>3. \A j \in 1..(a + b) : (s \o t)[j] = IF j <= a THEN s[j] ELSE t[j - a]
    BY ConcatProperties
<1>4. s \o t \in Seq(S) /\ Len(s \o t) = a + b
    BY ConcatProperties
<1>5. \A j \in 1..a : (s \o t)[j] = s[j]
    BY <1>2, <1>3, Zenon
<1>6. ASSUME NEW j \in 1..b PROVE (s \o t)[a + j] = t[j]
    <2> DEFINE i == a + j
    <2>1. i \in 1..(a + b) /\ ~(i <= a) /\ i - a = j
        BY <1>1
    <2> HIDE DEF i
    <2>2. (s \o t)[i] = IF i <= a THEN s[i] ELSE t[i - a]
        BY <1>3, <2>1, Zenon
    <2>3. (s \o t)[i] = t[j]
        BY <2>1, <2>2, Zenon
    <2> QED BY <2>3 DEF i
<1> QED BY <1>4, <1>5, <1>6, Zenon

\* A step to which k tokens of r are added keeps the invariant.
LEMMA RowAdded ==
    ASSUME RequestsOK, RowsOK, PositionsOK, NEW r \in Requests, status[r] = "running",
           NEW ids \in Seq(Tokens), NEW k \in Nat \ {0}, k = Len(ids),
           NEW row, batch' = WithRow(r, ids, computed[r], row),
           UNCHANGED <<status, computed>>
    PROVE  (RowsOK /\ PositionsOK)'
<1> DEFINE start == computed[r]
           m     == Len(batch.reqs)
           loc   == batch.query_start_loc
           here  == [j \in 1..Len(ids) |-> start + j - 1]
           pos   == batch.positions
<1>1. start \in Nat
    BY DEF RequestsOK
<1>2. /\ batch'.reqs = Append(batch.reqs, r)
      /\ batch'.input_ids = batch.input_ids \o ids
      /\ batch'.positions = pos \o here
      /\ batch'.query_start_loc = Append(loc, NumTokens + Len(ids))
    BY DEF WithRow
<1>3. /\ m \in Nat /\ loc \in Seq(Nat) /\ Len(loc) = m + 1 /\ loc[1] = 0
      /\ \A q1, q2 \in 1..(m + 1) : q1 < q2 => loc[q1] < loc[q2]
      /\ batch.reqs \in Seq(Requests) /\ batch.input_ids \in Seq(Tokens) /\ pos \in Seq(Nat)
      /\ NumTokens = Len(batch.input_ids) /\ NumTokens \in Nat
      /\ loc[m + 1] = NumTokens /\ Len(pos) = NumTokens
    BY DEF RowsOK, PositionsOK, NumTokens
<1>4. here \in Seq(Nat) /\ Len(here) = k /\ \A j \in 1..k : here[j] = start + j - 1
    <2>1. \A j \in 1..k : start + j - 1 \in Nat
        BY <1>1
    <2>2. here \in [1..k -> Nat]
        BY <2>1
    <2> QED BY <2>2
<1>5. \A q \in 1..m : /\ status[batch.reqs[q]] = "running"
                      /\ \A i \in loc[q]..(loc[q + 1] - 1) :
                            pos[i + 1] = computed[batch.reqs[q]] + (i - loc[q])
                      /\ loc[q] \in Nat /\ loc[q + 1] \in Nat /\ loc[q + 1] <= NumTokens
    BY RowEnds DEF RowsOK, PositionsOK
<1> HIDE DEF start, m, loc, here, pos
<1>6. /\ batch'.query_start_loc \in Seq(Nat)
      /\ Len(batch'.query_start_loc) = m + 2
      /\ \A q \in 1..(m + 1) : batch'.query_start_loc[q] = loc[q]
      /\ batch'.query_start_loc[m + 2] = NumTokens + k
      /\ \A q1, q2 \in 1..(m + 2) : q1 < q2 => batch'.query_start_loc[q1] < batch'.query_start_loc[q2]
    <2>1. batch'.query_start_loc = Append(loc, loc[m + 1] + k)
        BY <1>2, <1>3, Zenon
    <2>2. /\ m \in Nat /\ loc \in Seq(Nat) /\ Len(loc) = m + 1 /\ loc[1] = 0
          /\ \A q1, q2 \in 1..(m + 1) : q1 < q2 => loc[q1] < loc[q2]
          /\ k \in Nat \ {0}
        BY <1>3, Zenon
    <2> DEFINE new == batch'.query_start_loc
    <2> HIDE DEF new
    <2>3. new = Append(loc, loc[m + 1] + k)
        BY <2>1 DEF new
    <2>4. new \in Seq(Nat) /\ Len(new) = m + 2
        BY ONLY <2>2, <2>3, BoundariesExtended
    <2>5. \A q \in 1..(m + 1) : new[q] = loc[q]
        BY ONLY <2>2, <2>3, BoundariesExtended
    <2>6. new[m + 2] = loc[m + 1] + k
        BY ONLY <2>2, <2>3, BoundariesExtended
    <2>7. \A q1, q2 \in 1..(m + 2) : q1 < q2 => new[q1] < new[q2]
        BY ONLY <2>2, <2>3, BoundariesExtended
    <2> QED BY <1>3, <2>4, <2>5, <2>6, <2>7, Zenon DEF new
<1>7. batch'.input_ids \in Seq(Tokens) /\ NumTokens' = NumTokens + k
    BY <1>2, <1>3, Joined DEF NumTokens
<1>8. /\ batch'.positions \in Seq(Nat)
      /\ Len(batch'.positions) = NumTokens + k
      /\ \A j \in 1..NumTokens : batch'.positions[j] = pos[j]
      /\ \A j \in 1..k : batch'.positions[NumTokens + j] = here[j]
    <2>1. k \in Nat
        OBVIOUS
    <2>2. k = Len(here) /\ NumTokens = Len(pos)
        BY <1>3, <1>4, Zenon
    <2>3. pos \in Seq(Nat) /\ here \in Seq(Nat) /\ NumTokens \in Nat
        BY <1>3, <1>4, Zenon
    <2>4. pos \o here \in Seq(Nat) /\ Len(pos \o here) = NumTokens + k
        BY ONLY <2>1, <2>2, <2>3, Joined
    <2>5. \A j \in 1..NumTokens : (pos \o here)[j] = pos[j]
        BY ONLY <2>1, <2>2, <2>3, Joined
    <2>6. \A j \in 1..k : (pos \o here)[NumTokens + j] = here[j]
        BY ONLY <2>1, <2>2, <2>3, Joined
    <2> QED BY <1>2, <2>4, <2>5, <2>6, Zenon
<1>9. /\ batch'.reqs \in Seq(Requests) /\ Len(batch'.reqs) = m + 1
      /\ \A q \in 1..m : batch'.reqs[q] = batch.reqs[q]
      /\ batch'.reqs[m + 1] = r
    BY <1>2, <1>3 DEF m
<1>10. m + 1 + 1 = m + 2 /\ 1 \in 1..(m + 1) /\ m + 1 \in 1..(m + 1)
       /\ \A q \in 1..(m + 1) : q = m + 1 \/ (q \in 1..m /\ q + 1 \in 1..(m + 1))
    BY <1>3
<1>11. RowsOK'
    <2>1. \A q \in 1..(m + 1) : status'[batch'.reqs[q]] = "running"
        BY <1>5, <1>9, <1>10
    <2>2. batch'.query_start_loc[1] = 0
        BY <1>3, <1>6, <1>10
    <2> QED BY <1>6, <1>7, <1>9, <1>10, <2>1, <2>2 DEF RowsOK
<1>12. PositionsOK'
    <2>1. SUFFICES ASSUME NEW q \in 1..(m + 1),
                          NEW i \in batch'.query_start_loc[q]..(batch'.query_start_loc[q + 1] - 1)
                   PROVE  batch'.positions[i + 1] = computed'[batch'.reqs[q]] + (i - batch'.query_start_loc[q])
        BY <1>7, <1>8, <1>9 DEF PositionsOK
    <2>2. CASE q = m + 1
        <3>1. batch'.query_start_loc[q] = NumTokens /\ batch'.query_start_loc[q + 1] = NumTokens + k
            BY <1>3, <1>6, <1>10, <2>2
        <3>2. i \in NumTokens..(NumTokens + k - 1)
            BY <1>3, <2>1, <3>1
        <3> DEFINE j == i + 1 - NumTokens
        <3>3. j \in 1..k /\ NumTokens + j = i + 1 /\ start + j - 1 = start + (i - NumTokens)
            BY <1>1, <1>3, <3>2
        <3> HIDE DEF j
        <3>4. batch'.positions[i + 1] = start + (i - NumTokens)
            BY <1>4, <1>8, <3>3
        <3> QED BY <1>9, <2>2, <3>1, <3>4 DEF start
    <2>3. CASE q # m + 1
        <3>1. /\ batch'.query_start_loc[q] = loc[q] /\ batch'.query_start_loc[q + 1] = loc[q + 1]
              /\ batch'.reqs[q] = batch.reqs[q] /\ q \in 1..m
            BY <1>6, <1>9, <1>10, <2>3
        <3>2. i \in loc[q]..(loc[q + 1] - 1)
            BY <3>1
        <3>3. /\ loc[q] \in Nat /\ loc[q + 1] \in Nat /\ loc[q + 1] <= NumTokens
              /\ NumTokens \in Nat
            BY <1>3, <1>5, <3>1, Zenon
        <3>4. i + 1 \in 1..NumTokens
            BY ONLY <3>2, <3>3
        <3>5. batch'.positions[i + 1] = pos[i + 1]
            BY <1>8, <3>4, Zenon
        <3>6. pos[i + 1] = computed[batch.reqs[q]] + (i - loc[q])
            BY <1>5, <3>1, <3>2, Zenon
        <3>7. computed'[batch'.reqs[q]] = computed[batch.reqs[q]]
            BY <3>1
        <3> QED BY <3>1, <3>5, <3>6, <3>7, Zenon
    <2> QED BY <2>2, <2>3
<1> QED BY <1>11, <1>12

\* A chunk of a request joins the step.
LEMMA ScheduleKeeps ==
    ASSUME IInv, NEW r \in Requests, NEW n \in 1..MaxChunk,
           NEW drafts \in BoundedSeq(Generated, MaxDrafts), Schedule(r, n, drafts)
    PROVE  IInv'
<1> DEFINE part == SubSeq(tokens[r], computed[r] + 1, computed[r] + n)
<1>1. n \in Nat \ {0} /\ drafts \in Seq(Tokens) /\ Len(drafts) \in Nat
    BY DraftsAreTokens, BoundAssumption
<1>2. computed[r] \in Nat /\ tokens[r] \in Seq(Tokens)
    BY DEF IInv, RequestsOK
<1>3. /\ status[r] = "running" /\ computed[r] + n <= Len(tokens[r])
      /\ UNCHANGED <<runner, status, tokens, prompt, computed, cache, preempts>>
      /\ batch' = WithRow(r, part \o drafts, computed[r], table'[r])
    BY Zenon DEF Schedule
<1>4. part \in Seq(Tokens) /\ Len(part) = n
    <2>1. computed[r] + n \in Nat /\ computed[r] <= computed[r] + n /\ computed[r] + n - computed[r] = n
        BY <1>1, <1>2
    <2> QED BY <1>2, <1>3, <2>1, PartOf
<1> HIDE DEF part
<1>5. part \o drafts \in Seq(Tokens) /\ Len(part \o drafts) = n + Len(drafts)
    BY <1>1, <1>4, Joined
<1>6. n + Len(drafts) \in Nat \ {0}
    BY <1>1
<1>7. RequestsOK'
    BY <1>3 DEF IInv, RequestsOK
<1>8. (RowsOK /\ PositionsOK)'
    BY <1>3, <1>5, <1>6, RowAdded DEF IInv
<1> QED BY <1>7, <1>8 DEF IInv

\* A row of the step is a part of its tokens, and not an empty one.
LEMMA ChunkFacts ==
    ASSUME RowsOK, PositionsOK, NEW q \in 1..Len(batch.reqs)
    PROVE  /\ Chunk(q) \in Seq(Tokens)
           /\ Len(Chunk(q)) \in Nat \ {0}
           /\ Len(Chunk(q)) = batch.query_start_loc[q + 1] - batch.query_start_loc[q]
           /\ \A j \in 1..Len(Chunk(q)) :
                 Chunk(q)[j] = batch.input_ids[batch.query_start_loc[q] + j]
<1> DEFINE a == batch.query_start_loc[q]
           b == batch.query_start_loc[q + 1]
<1>1. a \in Nat /\ b \in Nat /\ a < b /\ b <= Len(batch.input_ids)
    BY RowEnds DEF NumTokens
<1>2. batch.input_ids \in Seq(Tokens) /\ Chunk(q) = SubSeq(batch.input_ids, a + 1, b)
    BY DEF PositionsOK, Chunk
<1> HIDE DEF a, b
<1>3. /\ Chunk(q) \in Seq(Tokens) /\ Len(Chunk(q)) = b - a
      /\ \A j \in 1..(b - a) : Chunk(q)[j] = batch.input_ids[a + j]
    BY <1>1, <1>2, PartOf
<1>4. b - a \in Nat \ {0}
    BY <1>1
<1> QED BY <1>3, <1>4 DEF a, b

\* What a request is answered is tokens.
LEMMA AnswersAreTokens ==
    ASSUME IInv, NEW q \in 1..Len(batch.reqs), NEW answer \in Answers(q)
    PROVE  answer \in Seq(Tokens)
<1> DEFINE r      == batch.reqs[q]
           a      == Len(tokens[r]) - computed[r]
           n      == Len(Chunk(q))
           drafts == SubSeq(Chunk(q), a + 1, n)
<1>1. /\ r \in Requests /\ computed[r] \in Nat /\ tokens[r] \in Seq(Tokens)
      /\ computed[r] < Len(tokens[r])
    <2>1. r \in Requests
        BY ElementOfSeq DEF IInv, RowsOK
    <2>2. status[r] = "running"
        BY DEF IInv, RowsOK
    <2> HIDE DEF r
    <2> QED BY <2>1, <2>2 DEF IInv, RequestsOK
<1>2. Chunk(q) \in Seq(Tokens) /\ n \in Nat
    BY ChunkFacts DEF IInv
<1>3. CASE computed[r] + n < Len(tokens[r])
    <2>1. Answers(q) = {<<>>}
        BY <1>3 DEF Answers
    <2> QED BY <2>1
<1>4. CASE ~(computed[r] + n < Len(tokens[r]))
    <2>1. Answers(q) = Accepted(drafts)
        BY <1>4, Zenon DEF Answers
    <2>2. PICK m \in 0..Len(drafts), t \in Generated : answer = SubSeq(drafts, 1, m) \o <<t>>
        <3> HIDE DEF drafts
        <3> QED BY <2>1 DEF Accepted
    <2>3. a \in Nat /\ a <= n
        BY <1>1, <1>2, <1>4
    <2> HIDE DEF a
    <2>4. drafts \in Seq(Tokens) /\ Len(drafts) \in Nat
        BY <1>2, <2>3, PartOf
    <2> HIDE DEF drafts
    <2>5. m \in Nat /\ 0 <= m /\ m <= Len(drafts) /\ 0 + 1 = 1
        BY <2>4
    <2>6. SubSeq(drafts, 0 + 1, m) \in Seq(Tokens)
        BY <2>4, <2>5, PartOf
    <2>7. <<t>> \in Seq(Tokens)
        BY TokenAssumption
    <2> QED BY <2>2, <2>5, <2>6, <2>7, ConcatProperties
<1> QED BY <1>3, <1>4

\* A step without rows.
LEMMA EmptyFacts ==
    /\ Empty.reqs = <<>> /\ Empty.input_ids = <<>> /\ Empty.positions = <<>>
    /\ Empty.query_start_loc = <<0>>
BY DEF Empty

\* The step is computed: what it answers is added to the texts.
LEMMA ForwardKeeps ==
    ASSUME IInv, Forward
    PROVE  IInv'
<1>1. batch' = Empty /\ status' = status /\ prompt' = prompt
    BY DEF Forward
<1>2. (RowsOK /\ PositionsOK)'
    BY <1>1, EmptyFacts DEF RowsOK, PositionsOK, NumTokens
<1>3. PICK answers \in {f \in [DOMAIN batch.reqs -> UNION {Answers(q) : q \in DOMAIN batch.reqs}] :
                           \A q \in DOMAIN batch.reqs : f[q] \in Answers(q)} :
          LET Row(r) == CHOOSE q \in DOMAIN batch.reqs : batch.reqs[q] = r
              Text(r) == tokens[r] \o answers[Row(r)]
          IN  /\ tokens' = [r \in Requests |-> IF InBatch(r) THEN Text(r) ELSE tokens[r]]
              /\ computed' = [r \in Requests |->
                    IF ~InBatch(r) THEN computed[r]
                    ELSE After(r, Chunk(Row(r)), Text(r))]
    BY DEF Forward
<1> DEFINE Row(r)  == CHOOSE q \in DOMAIN batch.reqs : batch.reqs[q] = r
           Text(r) == tokens[r] \o answers[Row(r)]
<1>4. /\ tokens' = [r \in Requests |-> IF InBatch(r) THEN Text(r) ELSE tokens[r]]
      /\ computed' = [r \in Requests |->
            IF ~InBatch(r) THEN computed[r] ELSE After(r, Chunk(Row(r)), Text(r))]
    BY <1>3, Zenon
<1>5. ASSUME NEW r \in Requests
      PROVE  /\ tokens'[r] \in Seq(Tokens) /\ computed'[r] \in Nat
             /\ status[r] = "running" => computed'[r] < Len(tokens'[r])
    <2>1. tokens[r] \in Seq(Tokens) /\ computed[r] \in Nat
          /\ (status[r] = "running" => computed[r] < Len(tokens[r]))
        BY DEF IInv, RequestsOK
    <2>2. CASE ~InBatch(r)
        BY <1>4, <2>1, <2>2
    <2>3. CASE InBatch(r)
        <3> DEFINE q == Row(r)
        <3>1. DOMAIN batch.reqs = 1..Len(batch.reqs)
            BY DEF IInv, RowsOK
        <3>2. \E p \in DOMAIN batch.reqs : batch.reqs[p] = r
            BY <2>3 DEF InBatch, Range
        <3>3. q \in DOMAIN batch.reqs /\ batch.reqs[q] = r
            BY <3>2, Zenon
        <3>4. answers[q] \in Answers(q)
            BY <1>3, <3>3, Zenon
        <3>5. tokens'[r] = tokens[r] \o answers[q]
              /\ computed'[r] = After(r, Chunk(q), tokens[r] \o answers[q])
            BY <1>4, <2>3, Zenon
        <3> HIDE DEF q
        <3>6. answers[q] \in Seq(Tokens)
            BY <3>1, <3>3, <3>4, AnswersAreTokens
        <3>7. status[r] = "running"
            BY <3>1, <3>3 DEF IInv, RowsOK
        <3>8. Len(Chunk(q)) \in Nat
            BY <3>1, <3>3, ChunkFacts DEF IInv
        <3>9. tokens'[r] \in Seq(Tokens) /\ Len(tokens'[r]) = Len(tokens[r]) + Len(answers[q])
            BY <2>1, <3>5, <3>6, ConcatProperties
        <3>10. Len(tokens[r]) \in Nat /\ Len(answers[q]) \in Nat
            BY <2>1, <3>6
        <3> DEFINE len  == Len(tokens'[r])
                   done == computed[r] + Len(Chunk(q))
        <3>11. len \in Nat \ {0} /\ done \in Nat
            <4>1. computed[r] \in Nat /\ computed[r] < Len(tokens[r])
                BY <2>1, <3>7, Zenon
            <4>2. Len(tokens[r]) + Len(answers[q]) \in Nat \ {0} /\ computed[r] + Len(Chunk(q)) \in Nat
                <5>1. \A i, j, k, l \in Nat : j < i => i + k \in Nat \ {0} /\ j + l \in Nat
                    OBVIOUS
                <5> QED BY <3>8, <3>10, <4>1, <5>1, Zenon
            <4> QED BY <4>2, <3>9, Zenon
        <3>12. computed'[r] = Min({done, len - 1})
            BY <3>5 DEF After
        <3> HIDE DEF len, done
        <3>13. computed'[r] \in Nat /\ computed'[r] < len
            <4>1. Min({done, len - 1}) = IF done <= len - 1 THEN done ELSE len - 1
                BY <3>11, MinOfTwo
            <4> QED BY <3>11, <3>12, <4>1
        <3> QED BY <3>9, <3>13 DEF len
    <2> QED BY <2>2, <2>3
<1>6. RequestsOK'
    <2>1. DOMAIN tokens' = Requests /\ DOMAIN computed' = Requests
        BY <1>4
    <2>2. tokens' \in [Requests -> Seq(Tokens)] /\ computed' \in [Requests -> Nat]
        BY <1>4, <1>5
    <2> QED BY <1>1, <1>5, <2>2 DEF IInv, RequestsOK
<1> QED BY <1>2, <1>6 DEF IInv

\* A step with the rows it had, of requests that still run and have computed
\* what they had.
LEMMA RowsStay ==
    ASSUME RowsOK, PositionsOK, UNCHANGED batch,
           \A q \in 1..Len(batch.reqs) :
              status'[batch.reqs[q]] = "running" /\ computed'[batch.reqs[q]] = computed[batch.reqs[q]]
    PROVE  (RowsOK /\ PositionsOK)'
BY DEF RowsOK, PositionsOK, NumTokens

\* The invariant holds in every state of every behaviour.
LEMMA InvariantHolds == Spec => []IInv
<1>1. Init => IInv
    <2> SUFFICES ASSUME Init PROVE IInv
        OBVIOUS
    <2>1. batch = Empty /\ status = [r \in Requests |-> "out"]
          /\ tokens = [r \in Requests |-> <<>>] /\ computed = [r \in Requests |-> 0] /\ prompt = [r \in Requests |-> 0]
        BY DEF Init, None, Zero
    <2>2. RequestsOK
        BY <2>1 DEF RequestsOK
    <2>3. RowsOK /\ PositionsOK
        BY <2>1, EmptyFacts DEF RowsOK, PositionsOK, NumTokens
    <2> QED BY <2>2, <2>3 DEF IInv
<1>2. IInv /\ [Next]_vars => IInv'
    <2> SUFFICES ASSUME IInv, [Next]_vars PROVE IInv'
        OBVIOUS
    <2>0. \A q \in 1..Len(batch.reqs) : batch.reqs[q] \in Requests /\ status[batch.reqs[q]] = "running"
        BY DEF IInv, RowsOK
    <2>00. ASSUME NEW r \in Requests, ~InBatch(r)
           PROVE  \A q \in 1..Len(batch.reqs) : batch.reqs[q] # r
        BY <2>00 DEF InBatch, Range, IInv, RowsOK
    <2>1. ASSUME NEW r \in Requests, NEW p \in Prompts, Arrive(r, p) PROVE IInv'
        <3>1. p \in Seq(Tokens) /\ Len(p) \in Nat
            BY TokenAssumption
        <3>2. RequestsOK'
            BY <2>1, <3>1 DEF Arrive, IInv, RequestsOK
        <3>3. \A q \in 1..Len(batch.reqs) :
                 status'[batch.reqs[q]] = "running" /\ computed'[batch.reqs[q]] = computed[batch.reqs[q]]
            BY <2>0, <2>1 DEF Arrive, IInv, RequestsOK
        <3> QED BY <2>1, <3>2, <3>3, RowsStay DEF Arrive, IInv
    <2>2. ASSUME NEW r \in Requests, NEW k \in 0..MaxLen, Admit(r, k) PROVE IInv'
        <3>1. /\ status[r] = "waiting" /\ k < Len(tokens[r]) /\ k \in Nat
              /\ status' = [status EXCEPT ![r] = "running"]
              /\ computed' = [computed EXCEPT ![r] = k]
              /\ UNCHANGED <<tokens, prompt, batch>>
            BY <2>2, BoundAssumption DEF Admit
        <3>2. RequestsOK'
            BY <3>1 DEF IInv, RequestsOK
        <3>3. \A q \in 1..Len(batch.reqs) :
                 status'[batch.reqs[q]] = "running" /\ computed'[batch.reqs[q]] = computed[batch.reqs[q]]
            BY <2>0, <3>1 DEF IInv, RequestsOK
        <3> QED BY <3>1, <3>2, <3>3, RowsStay DEF IInv
    <2>3. ASSUME NEW r \in Requests, NEW n \in 1..MaxChunk,
                 NEW drafts \in BoundedSeq(Generated, MaxDrafts), Schedule(r, n, drafts)
          PROVE  IInv'
        BY <2>3, ScheduleKeeps
    <2>4. ASSUME NEW r \in Requests, Preempt(r) PROVE IInv'
        <3>1. RequestsOK'
            BY <2>4 DEF Preempt, IInv, RequestsOK
        <3>2. \A q \in 1..Len(batch.reqs) :
                 status'[batch.reqs[q]] = "running" /\ computed'[batch.reqs[q]] = computed[batch.reqs[q]]
            BY <2>0, <2>00, <2>4 DEF Preempt, IInv, RequestsOK
        <3> QED BY <2>4, <3>1, <3>2, RowsStay DEF Preempt, IInv
    <2>5. ASSUME NEW r \in Requests, Finish(r) PROVE IInv'
        <3>1. RequestsOK'
            BY <2>5 DEF Finish, IInv, RequestsOK
        <3>2. \A q \in 1..Len(batch.reqs) :
                 status'[batch.reqs[q]] = "running" /\ computed'[batch.reqs[q]] = computed[batch.reqs[q]]
            BY <2>0, <2>00, <2>5 DEF Finish, IInv, RequestsOK
        <3> QED BY <2>5, <3>1, <3>2, RowsStay DEF Finish, IInv
    <2>6. CASE Forward
        BY <2>6, ForwardKeeps
    <2>7. CASE UNCHANGED vars
        BY <2>7 DEF vars, IInv, RequestsOK, RowsOK, PositionsOK, NumTokens
    <2> QED BY <2>1, <2>2, <2>3, <2>4, <2>5, <2>6, <2>7 DEF Next
<1> QED BY <1>1, <1>2, PTL DEF Spec
-----------------------------------------------------------------------------
(* What a token is hashed as *)

\* A set of naturals that is not empty has its minimum as an element.
LEMMA MinOfNaturals ==
    ASSUME NEW T \in SUBSET Nat, T # {}
    PROVE  Min(T) \in T /\ \A k \in T : Min(T) <= k
<1>1. \E m \in T : \A k \in T : m <= k
    <2>1. PICK m \in T : \A k \in T : <<k, m>> \notin OpToRel(<, Nat)
        BY WFMin, NatLessThanWellFounded, Zenon
    <2>2. ASSUME NEW k \in T PROVE m <= k
        <3>1. ~ (k < m)
            BY <2>1, Zenon DEF OpToRel
        <3> QED BY <3>1
    <2> QED BY <2>2
<1>2. Min(T) = CHOOSE m \in T : \A k \in T : m <= k
    BY Zenon DEF Min
<1> QED BY <1>1, <1>2, Zenon

\* A token lies in one row, which is the one the kernel finds.
LEMMA RowOfToken ==
    ASSUME RowsOK, NEW i \in BatchTokens
    PROVE  /\ RowOf(i) \in 1..Len(batch.reqs)
           /\ batch.query_start_loc[RowOf(i)] <= i
           /\ i < batch.query_start_loc[RowOf(i) + 1]
           /\ \A q \in 1..Len(batch.reqs) :
                 batch.query_start_loc[q] <= i /\ i < batch.query_start_loc[q + 1] => q = RowOf(i)
<1> DEFINE loc == batch.query_start_loc
           m   == Len(batch.reqs)
           T   == {q \in 1..m : i < loc[q + 1]}
           row == RowOf(i)
<1>1. /\ m \in Nat /\ loc[1] = 0 /\ loc[m + 1] = NumTokens
      /\ \A q1, q2 \in 1..(m + 1) : q1 < q2 => loc[q1] < loc[q2]
    BY DEF RowsOK
<1>2. \A q \in 1..(m + 1) : loc[q] \in Nat
    BY ElementOfSeq DEF RowsOK
<1>3. row = Min(T)
    BY Zenon DEF RowOf
<1> HIDE DEF loc, m, row
<1>4. i \in Nat /\ NumTokens \in Nat /\ i < NumTokens
    <2>1. NumTokens \in Nat
        BY <1>1, <1>2
    <2> QED BY <2>1 DEF BatchTokens
<1>5. m \in T
    <2>1. m # 0
        BY <1>1, <1>4
    <2> QED BY <1>1, <1>4, <2>1
<1>6. T \in SUBSET Nat
    OBVIOUS
<1>7. row \in T /\ \A k \in T : row <= k
    <2> HIDE DEF T
    <2> QED BY <1>3, <1>5, <1>6, MinOfNaturals
<1>8. loc[row] <= i
    <2>1. CASE row = 1
        BY <1>1, <1>4, <2>1
    <2>2. CASE row # 1
        <3>1. row - 1 \in 1..m /\ row - 1 + 1 = row /\ row \in 1..(m + 1)
            BY <1>1, <1>7, <2>2
        <3>2. row - 1 \notin T
            BY <1>7
        <3>3. ~(i < loc[row])
            BY <3>1, <3>2
        <3> QED BY <1>2, <1>4, <3>1, <3>3
    <2> QED BY <2>1, <2>2
<1>9. ASSUME NEW q \in 1..m, loc[q] <= i, i < loc[q + 1] PROVE q = row
    <2>1. row <= q
        BY <1>7, <1>9
    <2>2. CASE row < q
        <3>1. row + 1 \in 1..(m + 1) /\ q \in 1..(m + 1) /\ (row + 1 = q \/ row + 1 < q)
            BY <1>1, <1>7, <2>2
        <3>2. loc[row + 1] <= loc[q]
            BY <1>1, <1>2, <3>1
        <3>3. i < loc[row + 1]
            BY <1>7
        <3> QED BY <1>2, <1>4, <1>9, <3>1, <3>2, <3>3
    <2> QED BY <1>1, <1>7, <2>1, <2>2
<1> QED BY <1>7, <1>8, <1>9 DEF loc, m, row

\* Token i lies in row q, of r, which begins at a with position c.
InText(i, q, r, a, c) ==
    /\ r \in Requests /\ a \in Nat /\ c \in Nat /\ a <= i /\ i \in Nat
    /\ c < Len(tokens[r])
    /\ Position(i) = c + (i - a)
    /\ ChunkStart(q) = c
    /\ Len(TextTo(i)) = Position(i) + 1
    /\ \A k \in 0..Position(i) :
          /\ TextTo(i)[k + 1] \in Tokens
          /\ k < c => TextTo(i)[k + 1] = tokens[r][k + 1]
          /\ k >= c => TextTo(i)[k + 1] = batch.input_ids[a + (k - c) + 1]

\* The text a token ends: its request's, as far as it is computed, and then
\* the tokens of the step.
LEMMA TextOfToken ==
    ASSUME IInv, NEW i \in BatchTokens,
           NEW q, q = RowOf(i), NEW r, r = batch.reqs[q],
           NEW a, a = batch.query_start_loc[q], NEW c, c = computed[r]
    PROVE  InText(i, q, r, a, c)
<1> DEFINE b    == batch.query_start_loc[q + 1]
           head == SubSeq(tokens[r], 0 + 1, c)
           n    == i - a + 1
           tail == SubSeq(Chunk(q), 0 + 1, n)
<1>1. q \in 1..Len(batch.reqs) /\ a <= i /\ i < b
    BY RowOfToken DEF IInv
<1>2. a \in Nat /\ b \in Nat /\ NumTokens \in Nat /\ a < b /\ b <= NumTokens
    BY <1>1, RowEnds DEF IInv
<1>3. i \in Nat /\ i < NumTokens
    BY <1>2 DEF BatchTokens
<1>4. r \in Requests /\ status[r] = "running"
    BY <1>1 DEF IInv, RowsOK
<1>5. c \in Nat /\ tokens[r] \in Seq(Tokens) /\ c < Len(tokens[r])
    BY <1>4 DEF IInv, RequestsOK
<1>6. \A j \in a..(b - 1) : Position(j) = c + (j - a)
    BY <1>1 DEF IInv, PositionsOK, Position
<1>7. Position(i) = c + (i - a)
    <2>1. i \in a..(b - 1)
        BY <1>1, <1>2, <1>3
    <2> QED BY <1>6, <2>1
<1>8. ChunkStart(q) = c
    <2>1. NumTokens - 1 \in Int /\ a <= NumTokens - 1 /\ a \in Int
        BY <1>1, <1>2, <1>3
    <2>2. Min({a, NumTokens - 1}) = a
        BY <2>1, MinOfTwo
    <2>3. a \in a..(b - 1) /\ c + (a - a) = c
        <3> HIDE DEF b
        <3>1. a \in Int /\ b \in Int /\ a < b /\ c \in Int
            BY <1>2, <1>5
        <3> QED BY ONLY <3>1
    <2>4. Position(a) = c
        BY <1>6, <2>3
    <2> QED BY <2>2, <2>4, Zenon DEF ChunkStart
<1>9. /\ Chunk(q) \in Seq(Tokens) /\ Len(Chunk(q)) = b - a
      /\ \A j \in 1..(b - a) : Chunk(q)[j] = batch.input_ids[a + j]
    BY <1>1, ChunkFacts DEF IInv
<1>10. n \in Nat \ {0} /\ n <= Len(Chunk(q)) /\ n <= b - a /\ b - a \in Nat
    <2> HIDE DEF b
    <2>1. i - a + 1 \in Nat \ {0} /\ i - a + 1 <= b - a /\ b - a \in Nat
        BY <1>1, <1>2, <1>3
    <2> QED BY <1>9, <2>1, Zenon
<1>11. TextTo(i) = head \o tail
    <2>1. q = CHOOSE p \in DOMAIN batch.reqs :
                 batch.query_start_loc[p] <= i /\ i < batch.query_start_loc[p + 1]
        <3>1. DOMAIN batch.reqs = 1..Len(batch.reqs)
            BY DEF IInv, RowsOK
        <3>2. \A p \in DOMAIN batch.reqs :
                 batch.query_start_loc[p] <= i /\ i < batch.query_start_loc[p + 1] => p = q
            BY <3>1, RowOfToken DEF IInv
        <3>3. q \in DOMAIN batch.reqs
            BY <1>1, <3>1
        <3> QED BY <1>1, <3>2, <3>3, Zenon
    <2>2. TextTo(i) = SubSeq(tokens[r], 1, c) \o SubSeq(Chunk(q), 1, n)
        BY <2>1, Zenon DEF TextTo
    <2> QED BY <2>2
<1> HIDE DEF b, n
<1>12. /\ head \in Seq(Tokens) /\ Len(head) = c
       /\ \A j \in 1..c : head[j] = tokens[r][j]
    <2>1. 0 \in Nat /\ 0 <= c /\ c <= Len(tokens[r]) /\ c - 0 = c /\ \A j \in 1..c : 0 + j = j
        BY <1>5
    <2> QED BY <1>5, <2>1, PartOf
<1>13. /\ tail \in Seq(Tokens) /\ Len(tail) = n
       /\ \A j \in 1..n : tail[j] = Chunk(q)[j]
    <2>1. 0 \in Nat /\ 0 <= n /\ n - 0 = n /\ \A j \in 1..n : 0 + j = j
        BY <1>10
    <2> QED BY <1>9, <1>10, <2>1, PartOf
<1> HIDE DEF head, tail
<1>14. n \in Nat /\ Position(i) \in Nat /\ c + n = Position(i) + 1
    <2>1. i - a \in Nat /\ i - a + 1 \in Nat
        BY <1>1, <1>2, <1>3
    <2>2. Position(i) \in Nat /\ c + (i - a + 1) = Position(i) + 1
        BY ONLY <1>5, <1>7, <2>1
    <2> QED BY <2>1, <2>2 DEF n
<1>15. /\ TextTo(i) \in Seq(Tokens) /\ Len(TextTo(i)) = c + n
       /\ \A j \in 1..c : TextTo(i)[j] = head[j]
       /\ \A j \in 1..n : TextTo(i)[c + j] = tail[j]
    <2>1. head \o tail \in Seq(Tokens) /\ Len(head \o tail) = c + n
        BY <1>5, <1>12, <1>13, <1>14, Joined
    <2>2. \A j \in 1..c : (head \o tail)[j] = head[j]
        BY <1>5, <1>12, <1>13, <1>14, Joined
    <2>3. \A j \in 1..n : (head \o tail)[c + j] = tail[j]
        <3>1. head \in Seq(Tokens) /\ tail \in Seq(Tokens) /\ c \in Nat /\ n \in Nat
              /\ c = Len(head) /\ n = Len(tail)
            BY <1>5, <1>12, <1>13, <1>14, Zenon
        <3> QED BY ONLY <3>1, Joined
    <2> QED BY <1>11, <2>1, <2>2, <2>3, Zenon
<1>16. ASSUME NEW k \in 0..Position(i)
       PROVE  /\ TextTo(i)[k + 1] \in Tokens
              /\ k < c => TextTo(i)[k + 1] = tokens[r][k + 1]
              /\ k >= c => TextTo(i)[k + 1] = batch.input_ids[a + (k - c) + 1]
    <2>1. k \in Nat /\ k + 1 \in 1..(c + n)
        BY <1>5, <1>14
    <2>2. TextTo(i)[k + 1] \in Tokens
        BY <1>15, <2>1, ElementOfSeq
    <2>3. ASSUME k < c PROVE TextTo(i)[k + 1] = tokens[r][k + 1]
        <3>1. k + 1 \in 1..c
            BY <1>5, <2>1, <2>3
        <3> QED BY <1>12, <1>15, <3>1
    <2>4. ASSUME k >= c PROVE TextTo(i)[k + 1] = batch.input_ids[a + (k - c) + 1]
        <3> DEFINE j == k - c + 1
        <3>1. j \in 1..n /\ j \in 1..(b - a) /\ c + j = k + 1 /\ a + j = a + (k - c) + 1
            <4>1. a \in Int /\ b - a \in Int /\ c \in Int /\ n \in Int /\ k \in Int
                  /\ k < c + n /\ n <= b - a
                BY <1>2, <1>5, <1>10, <1>14, <2>1
            <4> DEFINE d == b - a
            <4> HIDE DEF d
            <4>2. j \in 1..n /\ c + j = k + 1 /\ a + j = a + (k - c) + 1
                BY <2>4, <4>1
            <4>3. n <= d /\ d \in Int
                BY <4>1 DEF d
            <4>4. j \in 1..d
                <5> HIDE DEF j
                <5> QED BY <4>1, <4>2, <4>3
            <4> QED BY <4>2, <4>4 DEF d
        <3> HIDE DEF j
        <3>2. TextTo(i)[c + j] = batch.input_ids[a + j]
            <4>1. TextTo(i)[c + j] = tail[j]
                BY <1>15, <3>1, Zenon
            <4>2. tail[j] = Chunk(q)[j]
                BY <1>13, <3>1, Zenon
            <4>3. Chunk(q)[j] = batch.input_ids[a + j]
                BY <1>9, <3>1, Zenon
            <4> QED BY <4>1, <4>2, <4>3, Zenon
        <3> QED BY <3>1, <3>2
    <2> QED BY <2>2, <2>3, <2>4
<1>17. Len(TextTo(i)) = Position(i) + 1
    BY <1>14, <1>15, Zenon
<1> QED BY <1>1, <1>2, <1>3, <1>4, <1>5, <1>7, <1>8, <1>16, <1>17, Zenon DEF InText
-----------------------------------------------------------------------------
(* Blocks and positions *)

\* Division with a remainder.
LEMMA DivMod ==
    ASSUME NEW B \in Nat \ {0}, NEW n \in Nat
    PROVE  n = B * (n \div B) + (n % B)
OBVIOUS

\* A block size times an integer.
LEMMA Multiples ==
    ASSUME NEW m \in Int, NEW k \in Int
    PROVE  /\ m * BlockSize \in Int
           /\ (m + 1) * BlockSize = m * BlockSize + BlockSize
           /\ m < k => (m + 1) * BlockSize <= k * BlockSize
           /\ m <= k => m * BlockSize <= k * BlockSize
           /\ m * BlockSize < k * BlockSize => m < k
<1>1. BlockSize \in Nat \ {0}
    BY BlockAssumption
<1>2. \A i \in Nat : i * BlockSize \in Nat
    BY <1>1
<1>3. \A i, d \in Int : (i + d) * BlockSize = i * BlockSize + d * BlockSize
    BY <1>1
<1>4. \A i \in Int : i * BlockSize \in Int
    BY <1>1
<1>5. ASSUME NEW i \in Int, NEW l \in Int, i <= l PROVE i * BlockSize <= l * BlockSize
    <2> DEFINE x == i * BlockSize
               y == (l - i) * BlockSize
               z == l * BlockSize
    <2>1. l - i \in Nat /\ i + (l - i) = l
        BY <1>5
    <2>2. z = x + y /\ x \in Int /\ y \in Nat
        BY <2>1, <1>2, <1>3, <1>4
    <2> HIDE DEF x, y, z
    <2>3. x <= z
        BY <2>2
    <2> QED BY <2>3 DEF x, z
<1>6. \A i \in Int : (i + 1) * BlockSize = i * BlockSize + BlockSize
    <2>1. 1 * BlockSize = BlockSize /\ 1 \in Int
        BY <1>1
    <2> QED BY <1>3, <2>1, Zenon
<1>7. m < k => (m + 1) * BlockSize <= k * BlockSize
    <2>1. m < k => m + 1 <= k /\ m + 1 \in Int
        OBVIOUS
    <2> QED BY <1>5, <2>1, Zenon
<1>8. ASSUME m * BlockSize < k * BlockSize PROVE m < k
    <2>1. CASE k <= m
        <3> DEFINE x == m * BlockSize
                   y == k * BlockSize
        <3>1. y <= x /\ x \in Int /\ y \in Int /\ x < y
            BY <1>4, <1>5, <1>8, <2>1
        <3> HIDE DEF x, y
        <3> QED BY <3>1
    <2> QED BY <2>1
<1> QED BY <1>4, <1>5, <1>6, <1>7, <1>8, Zenon

\* The place in the table of the block of position p.
PlaceOf(p) == (p \div BlockSize) + 1

\* A position lies in the block of its place.
LEMMA PlaceFacts ==
    ASSUME NEW p \in Nat
    PROVE  /\ PlaceOf(p) \in Nat \ {0}
           /\ p % BlockSize \in 0..(BlockSize - 1)
           /\ p = (PlaceOf(p) - 1) * BlockSize + (p % BlockSize)
           /\ (PlaceOf(p) - 1) * BlockSize <= p
           /\ p < PlaceOf(p) * BlockSize
<1> DEFINE d == p \div BlockSize
           o == p % BlockSize
<1>1. BlockSize \in Nat \ {0}
    BY BlockAssumption
<1>2. o \in 0..(BlockSize - 1)
    BY <1>1
<1>3. d \in Int /\ d >= 0 /\ BlockSize * d = d * BlockSize
    BY <1>1
<1>4. p = BlockSize * d + o
    BY <1>1, DivMod
<1> HIDE DEF d, o
<1>5. d * BlockSize \in Int /\ (d + 1) * BlockSize = d * BlockSize + BlockSize
    BY <1>3, Multiples
<1>6. p = d * BlockSize + o /\ d * BlockSize <= p /\ p < (d + 1) * BlockSize
    BY <1>1, <1>2, <1>3, <1>4, <1>5
<1>7. PlaceOf(p) = d + 1 /\ PlaceOf(p) - 1 = d /\ PlaceOf(p) \in Nat \ {0}
    BY <1>3 DEF PlaceOf, d
<1> QED BY <1>2, <1>6, <1>7, Zenon DEF o

\* An offset in a block tells blocks apart.
LEMMA BlocksApart ==
    ASSUME NEW b \in Int, NEW c \in Int, NEW o \in 0..(BlockSize - 1), NEW u \in 0..(BlockSize - 1),
           b * BlockSize + o = c * BlockSize + u
    PROVE  b = c /\ o = u
<1>1. BlockSize \in Nat \ {0}
    BY BlockAssumption
<1>2. /\ b * BlockSize \in Int /\ c * BlockSize \in Int
      /\ (b + 1) * BlockSize = b * BlockSize + BlockSize
      /\ (c + 1) * BlockSize = c * BlockSize + BlockSize
      /\ b < c => (b + 1) * BlockSize <= c * BlockSize
      /\ c < b => (c + 1) * BlockSize <= b * BlockSize
    BY Multiples
<1> DEFINE x == b * BlockSize
           y == c * BlockSize
<1>3. /\ x \in Int /\ y \in Int /\ x + o = y + u
      /\ b < c => x + BlockSize <= y
      /\ c < b => y + BlockSize <= x
      /\ b = c => x = y
    BY <1>2
<1> HIDE DEF x, y
<1> QED BY <1>1, <1>3

\* The positions of the j-th block.
LEMMA PositionOf ==
    ASSUME NEW j \in Nat \ {0}, NEW o \in 0..(BlockSize - 1), NEW p, p = (j - 1) * BlockSize + o
    PROVE  p \in Nat /\ PlaceOf(p) = j /\ p % BlockSize = o /\ p < j * BlockSize
<1>1. BlockSize \in Nat \ {0}
    BY BlockAssumption
<1> DEFINE x == (j - 1) * BlockSize
<1>2. j - 1 \in Nat /\ x \in Nat
    BY <1>1
<1>3. p \in Nat
    <2> HIDE DEF x
    <2>1. p = x + o
        BY DEF x
    <2> QED BY <1>1, <1>2, <2>1
<1>4. PlaceOf(p) - 1 \in Int /\ p % BlockSize \in 0..(BlockSize - 1)
      /\ (j - 1) * BlockSize + o = (PlaceOf(p) - 1) * BlockSize + (p % BlockSize)
      /\ PlaceOf(p) \in Nat /\ p < PlaceOf(p) * BlockSize
    BY <1>3, PlaceFacts
<1>5. j - 1 = PlaceOf(p) - 1 /\ o = p % BlockSize
    BY <1>2, <1>4, BlocksApart
<1>6. j = PlaceOf(p)
    BY <1>4, <1>5
<1> QED BY <1>3, <1>4, <1>5, <1>6

\* A position before the end of the m-th block lies in that block or before it.
LEMMA PlaceWithin ==
    ASSUME NEW p \in Nat, NEW m \in Int, p < m * BlockSize
    PROVE  PlaceOf(p) <= m
<1>1. PlaceOf(p) \in Int /\ (PlaceOf(p) - 1) * BlockSize <= p /\ PlaceOf(p) - 1 \in Int
    BY PlaceFacts
<1> DEFINE x == (PlaceOf(p) - 1) * BlockSize
           y == m * BlockSize
<1>2. x \in Int /\ y \in Int /\ x <= p /\ p < y
    BY <1>1, Multiples
<1> HIDE DEF x, y
<1>3. x < y
    BY <1>2
<1>4. PlaceOf(p) - 1 < m
    BY <1>1, <1>3, Multiples DEF x, y
<1> QED BY <1>1, <1>4

\* The blocks for n positions.
LEMMA CdivCovers ==
    ASSUME NEW n \in Nat
    PROVE  Cdiv(n, BlockSize) \in Nat /\ n <= Cdiv(n, BlockSize) * BlockSize
<1>1. BlockSize \in Nat \ {0} /\ n + BlockSize - 1 \in Nat
    BY BlockAssumption
<1> DEFINE p == n + BlockSize - 1
<1>2. Cdiv(n, BlockSize) = PlaceOf(p) - 1
    <2>1. PlaceOf(p) \in Nat /\ p \div BlockSize \in Int
        BY <1>1, PlaceFacts
    <2> QED BY <2>1 DEF Cdiv, PlaceOf
<1>3. PlaceOf(p) \in Nat \ {0} /\ p < PlaceOf(p) * BlockSize
    BY <1>1, PlaceFacts
<1> DEFINE c == PlaceOf(p) - 1
<1>4. c \in Nat /\ c + 1 = PlaceOf(p)
    BY <1>3
<1>5. c * BlockSize \in Int /\ (c + 1) * BlockSize = c * BlockSize + BlockSize
    BY <1>4, Multiples
<1> HIDE DEF c
<1>6. p < c * BlockSize + BlockSize
    BY <1>3, <1>4, <1>5
<1>7. n <= c * BlockSize
    <2> DEFINE x == c * BlockSize
    <2>1. x \in Int /\ n + BlockSize - 1 < x + BlockSize
        BY <1>5, <1>6
    <2> HIDE DEF x
    <2> QED BY <1>1, <2>1 DEF x
<1> QED BY <1>2, <1>4, <1>7 DEF c
-----------------------------------------------------------------------------
(* The invariant of the block pool and the slot cache *)

\* The block of a position.
BlockAt(r, p) == table[r][PlaceOf(p)]

\* How far row q takes its request.
RowEnd(q) ==
    computed[batch.reqs[q]] + (batch.query_start_loc[q + 1] - batch.query_start_loc[q])

\* A request that runs has different blocks up to what is computed, and those
\* in its window.
TablesOK ==
    /\ table \in [Requests -> Seq(0..NumBlocks)]
    /\ \A r \in Requests :
          /\ status[r] # "running" => table[r] = <<>>
          /\ status[r] = "running" => computed[r] <= Len(table[r]) * BlockSize
          /\ \A j \in 1..Len(table[r]) : InWindow(j, computed[r]) => table[r][j] # 0
          /\ \A i, j \in 1..Len(table[r]) : table[r][i] = table[r][j] /\ table[r][i] # 0 => i = j

\* The rows of a step are of different requests, their tokens are the texts'
\* as far as these go, and the slots are those of the table.
StepOK ==
    /\ batch.slot_mapping \in Seq(Slots) /\ Len(batch.slot_mapping) = NumTokens
    /\ \A q1, q2 \in 1..Len(batch.reqs) : batch.reqs[q1] = batch.reqs[q2] => q1 = q2
    /\ \A q \in 1..Len(batch.reqs) :
          /\ RowEnd(q) <= Len(table[batch.reqs[q]]) * BlockSize
          /\ \A i \in batch.query_start_loc[q]..(batch.query_start_loc[q + 1] - 1) :
                /\ batch.slot_mapping[i + 1] = SlotOf(batch.reqs[q], Position(i))
                /\ Position(i) < Len(tokens[batch.reqs[q]]) =>
                      batch.input_ids[i + 1] = tokens[batch.reqs[q]][Position(i) + 1]

\* A block of a request that is filled was so with a prefix of its text, which
\* is computed or in the step.
ContentOK ==
    /\ content \in [1..NumBlocks -> Seq(Tokens)]
    /\ \A r \in Requests : \A j \in 1..Len(table[r]) :
          table[r][j] # 0 /\ content[table[r][j]] # <<>> =>
             /\ j * BlockSize <= Len(tokens[r])
             /\ content[table[r][j]] = SubSeq(tokens[r], 1, j * BlockSize)
             /\ ~InBatch(r) => j * BlockSize <= computed[r]
             /\ \A q \in 1..Len(batch.reqs) : batch.reqs[q] = r => j * BlockSize <= RowEnd(q)

\* Blocks are shared when they are filled, and no more than one request writes
\* to a block.
SharedOK ==
    \A r1, r2 \in Requests : \A j1 \in 1..Len(table[r1]), j2 \in 1..Len(table[r2]) :
       r1 # r2 /\ table[r1][j1] = table[r2][j2] /\ table[r1][j1] # 0 =>
          /\ content[table[r1][j1]] # <<>>
          /\ j1 * BlockSize <= computed[r1] \/ j2 * BlockSize <= computed[r2]

\* A slot has the id of its token when the step is written, or its KV was
\* loaded.
Right(s, id) == s \in Missing \/ Written[s] = Compressed(id)

\* The slots of a filled block, of the request that runs or of none.
BlocksRight ==
    \A b \in 1..NumBlocks : content[b] # <<>> =>
       \E m \in Nat \ {0} :
          /\ Len(content[b]) = m * BlockSize
          /\ \A o \in 0..(BlockSize - 1) :
                Right(b * BlockSize + o, content[b][(m - 1) * BlockSize + o + 1])

\* The slots of what is computed.
TextsRight ==
    \A r \in Requests : \A p \in 0..(computed[r] - 1) :
       status[r] = "running" /\ BlockAt(r, p) # 0 => Right(SlotOf(r, p), tokens[r][p + 1])

PoolInv ==
    runner # "v2" => TablesOK /\ StepOK /\ ContentOK /\ SharedOK /\ BlocksRight /\ TextsRight

\* The slots of the step are written.
StepWritten ==
    /\ \A i \in BatchTokens : Written[batch.slot_mapping[i + 1]] = Compressed(batch.input_ids[i + 1])
    /\ \A s \in Slots : s \notin Range(batch.slot_mapping) => Written[s] = cache[s]

\* The block of a position within the table.
LEMMA BlockOfPosition ==
    ASSUME TablesOK, NEW r \in Requests, NEW p \in Nat, p < Len(table[r]) * BlockSize
    PROVE  /\ PlaceOf(p) \in 1..Len(table[r])
           /\ BlockAt(r, p) \in 0..NumBlocks
           /\ p % BlockSize \in 0..(BlockSize - 1)
           /\ SlotOf(r, p) = BlockAt(r, p) * BlockSize + (p % BlockSize)
<1>1. table[r] \in Seq(0..NumBlocks) /\ Len(table[r]) \in Nat
    BY DEF TablesOK
<1>2. PlaceOf(p) \in Nat \ {0} /\ p % BlockSize \in 0..(BlockSize - 1)
    BY PlaceFacts
<1>3. PlaceOf(p) <= Len(table[r])
    BY <1>1, PlaceWithin
<1>4. PlaceOf(p) \in 1..Len(table[r])
    BY <1>1, <1>2, <1>3
<1>5. BlockAt(r, p) \in 0..NumBlocks
    BY <1>1, <1>4, ElementOfSeq DEF BlockAt
<1> QED BY <1>2, <1>4, <1>5, Zenon DEF SlotOf, BlockAt, PlaceOf

\* A slot lies in the cache.
LEMMA SlotInRange ==
    ASSUME NEW b \in 0..NumBlocks, NEW o \in 0..(BlockSize - 1)
    PROVE  b * BlockSize + o \in Slots
<1>1. BlockSize \in Nat \ {0} /\ NumBlocks \in Nat
    BY BlockAssumption
<1>2. /\ b * BlockSize \in Int /\ 0 * BlockSize <= b * BlockSize
      /\ (b + 1) * BlockSize = b * BlockSize + BlockSize
      /\ (b + 1) * BlockSize <= (NumBlocks + 1) * BlockSize
      /\ (NumBlocks + 1) * BlockSize \in Int
    <2>1. b \in Int /\ NumBlocks + 1 \in Int /\ b < NumBlocks + 1 /\ 0 \in Int /\ 0 <= b
        BY <1>1
    <2> QED BY <2>1, Multiples, Zenon
<1>3. 0 * BlockSize = 0
    BY <1>1
<1> DEFINE x == b * BlockSize
           y == (NumBlocks + 1) * BlockSize
<1>4. x \in Int /\ 0 <= x /\ x + BlockSize <= y /\ y \in Int
    BY <1>2, <1>3
<1> HIDE DEF x, y
<1>5. x + o \in 0..(y - 1)
    BY <1>1, <1>4
<1> QED BY <1>5 DEF Slots, x, y
-----------------------------------------------------------------------------
(* The slots of a step *)

\* Token i of the step, at position p of r, is in row q and its slot in a block
\* of r which is not complete before the step.
InStep(i, q, r, p) ==
    /\ q \in 1..Len(batch.reqs) /\ r = batch.reqs[q] /\ r \in Requests /\ status[r] = "running"
    /\ batch.query_start_loc[q] \in Nat /\ batch.query_start_loc[q] <= i
    /\ i < batch.query_start_loc[q + 1]
    /\ p = Position(i) /\ p \in Nat /\ computed[r] \in Nat
    /\ p = computed[r] + (i - batch.query_start_loc[q])
    /\ p < RowEnd(q)
    /\ PlaceOf(p) \in 1..Len(table[r])
    /\ BlockAt(r, p) \in 1..NumBlocks
    /\ computed[r] < PlaceOf(p) * BlockSize
    /\ p % BlockSize \in 0..(BlockSize - 1)
    /\ batch.slot_mapping[i + 1] = SlotOf(r, p)
    /\ SlotOf(r, p) = BlockAt(r, p) * BlockSize + (p % BlockSize)

\* A block that ends behind a position is in its window.
LEMMA InOwnWindow ==
    ASSUME NEW j \in Int, NEW k \in Int, k < j * BlockSize
    PROVE  InWindow(j, k)
<1>1. j * BlockSize \in Int /\ Window \in Nat \ {0}
    BY Multiples, BlockAssumption
<1> DEFINE x == j * BlockSize
<1>2. x \in Int /\ k < x
    BY <1>1
<1> HIDE DEF x
<1>3. x > k - (Window - 1)
    BY <1>1, <1>2
<1> QED BY <1>3 DEF InWindow, x

\* The tokens of a row.
LEMMA TokensOfRow ==
    ASSUME IInv, TablesOK, StepOK, NEW q \in 1..Len(batch.reqs),
           NEW i \in batch.query_start_loc[q]..(batch.query_start_loc[q + 1] - 1)
    PROVE  InStep(i, q, batch.reqs[q], Position(i))
<1> DEFINE r == batch.reqs[q]
           p == Position(i)
           a == batch.query_start_loc[q]
           b == batch.query_start_loc[q + 1]
<1>1. a \in Nat /\ b \in Nat
    BY RowEnds DEF IInv
<1>2. r \in Requests /\ status[r] = "running"
    BY DEF IInv, RowsOK
<1>3. computed[r] \in Nat
    BY <1>2 DEF IInv, RequestsOK
<1>4. p = computed[r] + (i - a)
    BY DEF IInv, PositionsOK, Position
<1>5. p \in Nat /\ computed[r] <= p /\ p < RowEnd(q)
    <2>1. RowEnd(q) = computed[r] + (b - a)
        BY DEF RowEnd
    <2> HIDE DEF p, r, a, b
    <2>2. i \in a..(b - 1)
        BY DEF a, b
    <2> QED BY <1>1, <1>3, <1>4, <2>1, <2>2
<1>6. RowEnd(q) <= Len(table[r]) * BlockSize /\ batch.slot_mapping[i + 1] = SlotOf(r, p)
    BY DEF StepOK
<1> HIDE DEF r, p
<1>7. p < Len(table[r]) * BlockSize
    <2>1. RowEnd(q) \in Int
        BY <1>1, <1>3 DEF RowEnd, a, b, r
    <2>2. Len(table[r]) \in Int
        BY <1>2 DEF TablesOK
    <2> DEFINE x == Len(table[r]) * BlockSize
    <2>3. x \in Int /\ RowEnd(q) <= x
        BY <1>6, <2>2, Multiples
    <2> HIDE DEF x
    <2>4. p < x
        BY <1>5, <2>1, <2>3
    <2> QED BY <2>4 DEF x
<1>8. /\ PlaceOf(p) \in 1..Len(table[r]) /\ BlockAt(r, p) \in 0..NumBlocks
      /\ p % BlockSize \in 0..(BlockSize - 1)
      /\ SlotOf(r, p) = BlockAt(r, p) * BlockSize + (p % BlockSize)
    BY <1>2, <1>5, <1>7, BlockOfPosition
<1>9. computed[r] < PlaceOf(p) * BlockSize
    <2>1. p < PlaceOf(p) * BlockSize /\ PlaceOf(p) \in Int
        BY <1>5, PlaceFacts
    <2> DEFINE x == PlaceOf(p) * BlockSize
    <2>2. x \in Int /\ p < x
        BY <2>1, Multiples
    <2> HIDE DEF x
    <2>3. computed[r] < x
        BY <1>3, <1>5, <2>2
    <2> QED BY <2>3 DEF x
<1>10. BlockAt(r, p) # 0
    <2>1. InWindow(PlaceOf(p), computed[r])
        BY <1>3, <1>8, <1>9, InOwnWindow
    <2> QED BY <1>2, <1>8, <2>1 DEF TablesOK, BlockAt
<1>11. BlockAt(r, p) \in 1..NumBlocks
    BY <1>8, <1>10, BlockAssumption
<1>12. a <= i /\ i < b
    BY <1>1
<1> QED BY <1>1, <1>2, <1>3, <1>4, <1>5, <1>6, <1>8, <1>9, <1>11, <1>12, Zenon DEF InStep, r, p, a, b

\* A token of the step.
LEMMA TokenInStep ==
    ASSUME IInv, TablesOK, StepOK, NEW i \in BatchTokens
    PROVE  /\ InStep(i, RowOf(i), batch.reqs[RowOf(i)], Position(i))
           /\ i + 1 \in DOMAIN batch.slot_mapping
<1>1. /\ RowOf(i) \in 1..Len(batch.reqs)
      /\ batch.query_start_loc[RowOf(i)] <= i
      /\ i < batch.query_start_loc[RowOf(i) + 1]
    BY RowOfToken DEF IInv
<1>2. /\ batch.query_start_loc[RowOf(i)] \in Nat
      /\ batch.query_start_loc[RowOf(i) + 1] \in Nat /\ NumTokens \in Nat
    BY <1>1, RowEnds DEF IInv
<1>3. i \in batch.query_start_loc[RowOf(i)]..(batch.query_start_loc[RowOf(i) + 1] - 1)
    BY <1>1, <1>2 DEF BatchTokens
<1>4. i + 1 \in 1..NumTokens /\ DOMAIN batch.slot_mapping = 1..NumTokens
    BY <1>2 DEF BatchTokens, StepOK
<1> QED BY <1>1, <1>3, <1>4, TokensOfRow

\* A slot of the step belongs to one token.
LEMMA SlotsOfStep ==
    ASSUME IInv, TablesOK, StepOK, ContentOK, SharedOK,
           NEW i1 \in BatchTokens, NEW i2 \in BatchTokens,
           batch.slot_mapping[i1 + 1] = batch.slot_mapping[i2 + 1]
    PROVE  i1 = i2
<1> DEFINE q1 == RowOf(i1)
           q2 == RowOf(i2)
           r1 == batch.reqs[q1]
           r2 == batch.reqs[q2]
           p1 == Position(i1)
           p2 == Position(i2)
<1>1. InStep(i1, q1, r1, p1) /\ InStep(i2, q2, r2, p2)
    BY TokenInStep
<1> HIDE DEF q1, q2, r1, r2, p1, p2
<1>2. BlockAt(r1, p1) = BlockAt(r2, p2) /\ p1 % BlockSize = p2 % BlockSize
    <2>1. BlockAt(r1, p1) * BlockSize + (p1 % BlockSize) = BlockAt(r2, p2) * BlockSize + (p2 % BlockSize)
        BY <1>1, Zenon DEF InStep
    <2>2. BlockAt(r1, p1) \in Int /\ BlockAt(r2, p2) \in Int
        BY <1>1 DEF InStep
    <2>3. p1 % BlockSize \in 0..(BlockSize - 1) /\ p2 % BlockSize \in 0..(BlockSize - 1)
        BY <1>1, Zenon DEF InStep
    <2> QED BY <2>1, <2>2, <2>3, BlocksApart
<1>3. /\ r1 \in Requests /\ r2 \in Requests
      /\ PlaceOf(p1) \in 1..Len(table[r1]) /\ PlaceOf(p2) \in 1..Len(table[r2])
      /\ table[r1][PlaceOf(p1)] = table[r2][PlaceOf(p2)] /\ table[r1][PlaceOf(p1)] # 0
    BY <1>1, <1>2 DEF InStep, BlockAt
<1>4. r1 = r2
    <2> SUFFICES ASSUME r1 # r2 PROVE FALSE
        OBVIOUS
    <2>1. PlaceOf(p1) * BlockSize <= computed[r1] \/ PlaceOf(p2) * BlockSize <= computed[r2]
        BY <1>3, Zenon DEF SharedOK
    <2>2. PlaceOf(p1) * BlockSize \in Int /\ PlaceOf(p2) * BlockSize \in Int
        BY <1>3, Multiples
    <2> DEFINE x1 == PlaceOf(p1) * BlockSize
               x2 == PlaceOf(p2) * BlockSize
    <2>3. x1 \in Int /\ x2 \in Int /\ (x1 <= computed[r1] \/ x2 <= computed[r2])
          /\ computed[r1] < x1 /\ computed[r2] < x2
        BY <1>1, <2>1, <2>2 DEF InStep
    <2>4. computed[r1] \in Nat /\ computed[r2] \in Nat
        BY <1>1, Zenon DEF InStep
    <2> HIDE DEF x1, x2
    <2> QED BY <2>3, <2>4
<1>5. PlaceOf(p1) = PlaceOf(p2)
    BY <1>3, <1>4, Zenon DEF TablesOK
<1>6. p1 = p2
    <2>1. p1 \in Nat /\ p2 \in Nat
        BY <1>1, Zenon DEF InStep
    <2>2. p1 = (PlaceOf(p1) - 1) * BlockSize + (p1 % BlockSize)
          /\ p2 = (PlaceOf(p2) - 1) * BlockSize + (p2 % BlockSize)
        BY <2>1, PlaceFacts
    <2> QED BY <1>2, <1>5, <2>2, Zenon
<1>7. q1 = q2
    BY <1>1, <1>4, Zenon DEF InStep, StepOK
<1> DEFINE a == batch.query_start_loc[q1]
           c == computed[r1]
<1>8. p1 = c + (i1 - a) /\ p2 = c + (i2 - a) /\ a \in Nat /\ c \in Nat
    BY <1>1, <1>4, <1>7, Zenon DEF InStep
<1>9. NumTokens \in Nat
    <2>1. q1 \in 1..Len(batch.reqs)
        BY <1>1, Zenon DEF InStep
    <2> QED BY <2>1, RowEnds DEF IInv
<1>10. i1 \in Int /\ i2 \in Int
    BY <1>9 DEF BatchTokens
<1> HIDE DEF a, c
<1>11. a \in Int /\ c \in Int
    BY <1>8
<1>12. c + (i1 - a) = c + (i2 - a)
    BY <1>6, <1>8, Zenon
<1> QED BY ONLY <1>10, <1>11, <1>12

\* The greatest element of a set of one.
LEMMA MaxOfOne ==
    ASSUME NEW i \in Int
    PROVE  Max({i}) = i
BY DEF Max

\* When the step is written, its slots hold its tokens, and no others change.
LEMMA WrittenByStep ==
    ASSUME IInv, runner # "v2", TablesOK, StepOK, ContentOK, SharedOK
    PROVE  StepWritten
<1> DEFINE Here(s) == {i \in BatchTokens : batch.slot_mapping[i + 1] = s}
           New(s)  == IF Here(s) = {} THEN cache[s]
                      ELSE Compressed(batch.input_ids[Max(Here(s)) + 1])
<1>1. Written = [s \in Slots |-> New(s)]
    BY Zenon DEF Written
<1>2. ASSUME NEW i \in BatchTokens
      PROVE  Written[batch.slot_mapping[i + 1]] = Compressed(batch.input_ids[i + 1])
    <2> DEFINE s == batch.slot_mapping[i + 1]
               q == RowOf(i)
               r == batch.reqs[q]
               p == Position(i)
    <2>1. InStep(i, q, r, p)
        BY TokenInStep
    <2>2. s \in Slots
        <3>1. /\ BlockAt(r, p) \in 0..NumBlocks /\ p % BlockSize \in 0..(BlockSize - 1)
              /\ s = BlockAt(r, p) * BlockSize + (p % BlockSize)
            <4> HIDE DEF q, r, p
            <4> QED BY <2>1, BlockAssumption DEF InStep
        <3> HIDE DEF s, r, p
        <3> QED BY <3>1, SlotInRange
    <2>3. Here(s) = {i}
        <3>1. \A j \in BatchTokens : batch.slot_mapping[j + 1] = s => j = i
            BY SlotsOfStep
        <3> HIDE DEF s
        <3>2. i \in Here(s)
            BY DEF s
        <3> QED BY <3>1, <3>2
    <2>4. i \in Int
        <3>1. NumTokens \in Nat
            BY <2>1, RowEnds, Zenon DEF IInv, InStep
        <3> QED BY <3>1 DEF BatchTokens
    <2>5. Max(Here(s)) = i
        BY <2>3, <2>4, MaxOfOne
    <2>6. New(s) = Compressed(batch.input_ids[i + 1])
        <3> HIDE DEF s
        <3>1. Here(s) # {}
            BY <2>3
        <3> HIDE DEF Here
        <3> QED BY <3>1, <2>5
    <2> HIDE DEF s, New
    <2>7. Written[s] = Compressed(batch.input_ids[i + 1])
        BY <1>1, <2>2, <2>6
    <2> QED BY <2>7 DEF s
<1>3. ASSUME NEW s \in Slots, s \notin Range(batch.slot_mapping)
      PROVE  Written[s] = cache[s]
    <2>1. Here(s) = {}
        BY <1>3, TokenInStep DEF Range
    <2>2. New(s) = cache[s]
        BY <2>1
    <2> HIDE DEF New
    <2> QED BY <1>1, <2>2
<1> HIDE DEF Here, New
<1> QED BY <1>2, <1>3, Zenon DEF StepWritten
-----------------------------------------------------------------------------
(* What the block pool gives *)

\* What the block pool has given r: len places, those in new with free blocks.
Allocated(r, row, len, new, full) ==
    /\ table' \in [Requests -> Seq(0..NumBlocks)]
    /\ Len(table'[r]) = len
    /\ \A j \in 1..len : j \notin new => table'[r][j] = row[j]
    /\ \A j \in new : table'[r][j] \in Free
    /\ \A i, j \in 1..len : table'[r][i] = table'[r][j] /\ table'[r][i] # 0 => i = j
    /\ \A r2 \in Requests : r2 # r => table'[r2] = table[r2]
    /\ content' \in [1..NumBlocks -> Seq(Tokens)]
    /\ \A b \in 1..NumBlocks :
          (\A j \in 1..len : table'[r][j] # b) => content'[b] = content[b]
    /\ \A j \in 1..len : table'[r][j] # 0 =>
          content'[table'[r][j]] =
             IF j * BlockSize <= full THEN SubSeq(tokens[r], 1, j * BlockSize)
             ELSE IF table'[r][j] \in Free THEN <<>> ELSE content[table'[r][j]]

\* A beginning of a text.
LEMMA Beginning ==
    ASSUME NEW s \in Seq(Tokens), NEW k \in Nat, k <= Len(s)
    PROVE  /\ SubSeq(s, 1, k) \in Seq(Tokens)
           /\ Len(SubSeq(s, 1, k)) = k
           /\ \A j \in 1..k : SubSeq(s, 1, k)[j] = s[j]
<1>1. 0 + 1 = 1 /\ k - 0 = k /\ 0 <= k /\ 0 \in Nat /\ \A j \in 1..k : 0 + j = j
    OBVIOUS
<1>2. /\ SubSeq(s, 0 + 1, k) \in Seq(Tokens)
      /\ Len(SubSeq(s, 0 + 1, k)) = k - 0
      /\ \A j \in 1..(k - 0) : SubSeq(s, 0 + 1, k)[j] = s[0 + j]
    BY <1>1, PartOf
<1> QED BY <1>1, <1>2

LEMMA AllocateFacts ==
    ASSUME NEW r \in Requests, NEW row, NEW len \in Nat, NEW new \in SUBSET (1..len), NEW full \in Nat,
           table \in [Requests -> Seq(0..NumBlocks)], content \in [1..NumBlocks -> Seq(Tokens)],
           tokens[r] \in Seq(Tokens), full <= Len(tokens[r]),
           \A j \in 1..len : j \notin new => row[j] \in 0..NumBlocks,
           \A i, j \in 1..len : i \notin new /\ j \notin new /\ row[i] = row[j] /\ row[i] # 0 => i = j,
           new = {} \/ \A j \in 1..len : j \notin new => row[j] \notin Free,
           Allocate(r, row, len, new, full)
    PROVE  Allocated(r, row, len, new, full)
<1> DEFINE fresh    == CHOOSE f \in Injection(new, Free) : TRUE
           Result   == [j \in 1..len |-> IF j \in new THEN fresh[j] ELSE row[j]]
           Place(b) == CHOOSE j \in 1..len : Result[j] = b
           Filling(b) == IF b \notin Range(Result) THEN content[b]
                         ELSE IF Place(b) * BlockSize <= full THEN SubSeq(tokens[r], 1, Place(b) * BlockSize)
                         ELSE IF b \in Free THEN <<>> ELSE content[b]
<1>1. /\ Injection(new, Free) # {}
      /\ table' = [table EXCEPT ![r] = Result]
      /\ content' = [b \in 1..NumBlocks |-> Filling(b)]
    BY Zenon DEF Allocate
<1>2. fresh \in Injection(new, Free)
    BY <1>1, Zenon
<1> HIDE DEF fresh
<1>3. fresh \in [new -> Free] /\ \A i, j \in new : fresh[i] = fresh[j] => i = j
    BY <1>2 DEF Injection, IsInjective
<1>4. Free \subseteq 1..NumBlocks /\ NumBlocks \in Nat
    BY BlockAssumption DEF Free
<1>5. /\ \A j \in 1..len : j \notin new => Result[j] = row[j]
      /\ \A j \in new : Result[j] = fresh[j] /\ Result[j] \in Free
    BY <1>3
<1>6. Result \in Seq(0..NumBlocks) /\ Len(Result) = len /\ DOMAIN Result = 1..len
    <2>1. \A j \in 1..len : (IF j \in new THEN fresh[j] ELSE row[j]) \in 0..NumBlocks
        <3>1. \A j \in new : fresh[j] \in 0..NumBlocks
            <4>1. \A b \in Free : b \in 0..NumBlocks
                BY <1>4
            <4> QED BY <1>3, <4>1
        <3> QED BY <3>1
    <2>2. Result \in [1..len -> 0..NumBlocks]
        BY <2>1
    <2> QED BY <2>2
<1>7. ASSUME NEW i \in 1..len, NEW j \in 1..len, Result[i] = Result[j], Result[i] # 0
      PROVE  i = j
    <2> HIDE DEF Result
    <2>1. CASE i \in new /\ j \in new
        BY <1>3, <1>5, <1>7, <2>1
    <2>2. CASE i \notin new /\ j \notin new
        <3>1. row[i] = row[j] /\ row[i] # 0
            BY <1>5, <1>7, <2>2
        <3> QED BY <2>2, <3>1
    <2>3. CASE i \in new /\ j \notin new
        <3>1. Result[i] \in Free /\ Result[j] = row[j] /\ row[j] \notin Free
            BY <1>5, <2>3
        <3> QED BY <1>7, <3>1
    <2>4. CASE i \notin new /\ j \in new
        <3>1. Result[j] \in Free /\ Result[i] = row[i] /\ row[i] \notin Free
            BY <1>5, <2>4
        <3> QED BY <1>7, <3>1
    <2> QED BY <2>1, <2>2, <2>3, <2>4
<1>8. ASSUME NEW j \in 1..len PROVE Place(Result[j]) \in 1..len /\ Result[Place(Result[j])] = Result[j]
    <2> HIDE DEF Result
    <2> QED BY Zenon
<1>9. table' \in [Requests -> Seq(0..NumBlocks)] /\ table'[r] = Result
      /\ \A r2 \in Requests : r2 # r => table'[r2] = table[r2]
    <2> HIDE DEF Result
    <2> QED BY <1>1, <1>6
<1>10. ASSUME NEW j \in 1..len, Result[j] # 0
       PROVE  /\ Result[j] \in 1..NumBlocks /\ Result[j] \in Range(Result)
              /\ Place(Result[j]) = j
    <2> HIDE DEF Result, Place
    <2>0. Place(Result[j]) \in 1..len /\ Result[Place(Result[j])] = Result[j]
        BY <1>8, Zenon
    <2>1. Place(Result[j]) = j
        BY <1>7, <1>10, <2>0
    <2>2. Result[j] \in 0..NumBlocks
        BY <1>6, ElementOfSeq
    <2>3. Result[j] \in 1..NumBlocks
        BY <1>4, <1>10, <2>2
    <2>4. Result[j] \in Range(Result)
        BY <1>6, Zenon DEF Range
    <2> QED BY <2>1, <2>3, <2>4
<1>11. ASSUME NEW b \in 1..NumBlocks, \A j \in 1..len : Result[j] # b
       PROVE  content'[b] = content[b]
    <2>1. b \notin Range(Result)
        BY <1>6, <1>11 DEF Range
    <2>2. Filling(b) = content[b]
        BY <2>1
    <2> HIDE DEF Filling
    <2> QED BY <1>1, <2>2
<1>12. ASSUME NEW j \in 1..len, Result[j] # 0
       PROVE  content'[Result[j]] =
                 IF j * BlockSize <= full THEN SubSeq(tokens[r], 1, j * BlockSize)
                 ELSE IF Result[j] \in Free THEN <<>> ELSE content[Result[j]]
    <2> DEFINE b == Result[j]
    <2>1. b \in 1..NumBlocks /\ b \in Range(Result) /\ Place(b) = j
        BY <1>10, <1>12
    <2> HIDE DEF b, Place, Result
    <2>2. content'[b] = Filling(b)
        BY <1>1, <2>1
    <2>3. Filling(b) = IF j * BlockSize <= full THEN SubSeq(tokens[r], 1, j * BlockSize)
                       ELSE IF b \in Free THEN <<>> ELSE content[b]
        BY <2>1, Zenon
    <2> QED BY <2>2, <2>3, Zenon DEF b
<1>13. ASSUME NEW b \in 1..NumBlocks PROVE Filling(b) \in Seq(Tokens)
    <2>1. content[b] \in Seq(Tokens) /\ <<>> \in Seq(Tokens)
        OBVIOUS
    <2>2. ASSUME b \in Range(Result), Place(b) * BlockSize <= full
          PROVE  SubSeq(tokens[r], 1, Place(b) * BlockSize) \in Seq(Tokens)
        <3>1. PICK j \in 1..len : Result[j] = b
            BY <1>6, <2>2 DEF Range
        <3>2. Place(b) \in 1..len
            <4> HIDE DEF Result
            <4> QED BY <3>1, Zenon
        <3> HIDE DEF Place
        <3>3. Place(b) \in Nat /\ BlockSize \in Nat
            BY <3>2, BlockAssumption
        <3> DEFINE x == Place(b) * BlockSize
        <3>4. x \in Nat /\ x <= full
            BY <2>2, <3>3
        <3> HIDE DEF x
        <3>5. x <= Len(tokens[r])
            BY <3>4
        <3>6. SubSeq(tokens[r], 1, x) \in Seq(Tokens)
            BY <3>4, <3>5, Beginning
        <3> QED BY <3>6 DEF x
    <2> HIDE DEF Place, Result
    <2> QED BY <2>1, <2>2, Zenon
<1>14. content' \in [1..NumBlocks -> Seq(Tokens)]
    <2> HIDE DEF Filling
    <2> QED BY <1>1, <1>13
<1> HIDE DEF Result, Place, Filling
<1>15. \A i, j \in 1..len : Result[i] = Result[j] /\ Result[i] # 0 => i = j
    BY <1>7
<1> QED BY <1>5, <1>6, <1>9, <1>11, <1>12, <1>14, <1>15 DEF Allocated
-----------------------------------------------------------------------------
(* What keeps the slots as they are *)

\* What is right about a slot stays so.
Kept(s) == \A id \in Tokens : Right(s, id) => Right(s, id)'

\* A step that does not change the batch or the cache, and takes no slot from
\* those loaded, keeps the slots.
LEMMA SlotsKept ==
    ASSUME UNCHANGED <<runner, batch, cache>>, loaded \subseteq loaded'
    PROVE  \A s \in Slots : Kept(s)
<1>1. Written' = Written
    BY Zenon DEF Written, BatchTokens, NumTokens
<1>2. Missing \subseteq Missing'
    BY DEF Missing
<1> QED BY <1>1, <1>2 DEF Kept, Right

\* Blocks keep what they were filled with, or lose it.
LEMMA BlocksKept ==
    ASSUME BlocksRight, content \in [1..NumBlocks -> Seq(Tokens)],
           \A b \in 1..NumBlocks : content'[b] = content[b] \/ content'[b] = <<>>,
           \A s \in Slots : Kept(s)
    PROVE  BlocksRight'
<1> SUFFICES ASSUME NEW b \in 1..NumBlocks, content'[b] # <<>>
             PROVE  \E m \in Nat \ {0} :
                       /\ Len(content'[b]) = m * BlockSize
                       /\ \A o \in 0..(BlockSize - 1) :
                             Right(b * BlockSize + o, content[b][(m - 1) * BlockSize + o + 1])'
    BY Zenon DEF BlocksRight
<1>1. content'[b] = content[b] /\ content[b] # <<>>
    OBVIOUS
<1>2. PICK m \in Nat \ {0} :
         /\ Len(content[b]) = m * BlockSize
         /\ \A o \in 0..(BlockSize - 1) :
               Right(b * BlockSize + o, content[b][(m - 1) * BlockSize + o + 1])
    BY <1>1, Zenon DEF BlocksRight
<1>3. ASSUME NEW o \in 0..(BlockSize - 1)
      PROVE  Right(b * BlockSize + o, content[b][(m - 1) * BlockSize + o + 1])'
    <2> DEFINE k == (m - 1) * BlockSize + o
    <2>1. k \in Nat /\ k < m * BlockSize
        BY PositionOf
    <2>2. k + 1 \in 1..Len(content[b])
        <3> HIDE DEF k
        <3> DEFINE x == m * BlockSize
        <3>1. x \in Int /\ Len(content[b]) = x /\ k < x
            BY <1>2, <2>1, Multiples
        <3> HIDE DEF x
        <3> QED BY <2>1, <3>1
    <2>3. content[b][k + 1] \in Tokens
        <3> HIDE DEF k
        <3>1. content[b] \in Seq(Tokens)
            OBVIOUS
        <3> QED BY <2>2, <3>1, ElementOfSeq
    <2>4. b \in 0..NumBlocks
        BY BlockAssumption
    <2>5. b * BlockSize + o \in Slots
        BY <2>4, SlotInRange
    <2>6. Right(b * BlockSize + o, content[b][k + 1])'
        <3>1. Right(b * BlockSize + o, content[b][k + 1])
            BY <1>2
        <3> HIDE DEF k
        <3> DEFINE s == b * BlockSize + o
                   id == content[b][k + 1]
        <3>2. s \in Slots /\ Kept(s)
            BY <2>5
        <3>3. s \in Missing' \/ Written'[s] = Compressed(id)
            <4> HIDE DEF id
            <4>1. id \in Tokens /\ Right(s, id)
                BY <2>3, <3>1 DEF id
            <4> QED BY <3>2, <4>1, Zenon DEF Kept, Right
        <3>4. s \in Missing' \/ Written'[s] = Compressed(content'[b][k + 1])
            BY <1>1, <3>3
        <3> QED BY <3>4 DEF Right
    <2> QED BY <2>6 DEF k
<1> QED BY <1>1, <1>2, <1>3
-----------------------------------------------------------------------------
(* A request leaves, or arrives *)

\* The invariant, when the runner is not V2.
PoolOK == TablesOK /\ StepOK /\ ContentOK /\ SharedOK /\ BlocksRight /\ TextsRight

\* The requests but r are as they were.
OthersStay(r) ==
    \A r2 \in Requests : r2 # r =>
       /\ status'[r2] = status[r2] /\ tokens'[r2] = tokens[r2]
       /\ computed'[r2] = computed[r2] /\ table'[r2] = table[r2]

\* The request of a row is another than one that is not in the step.
LEMMA RowsOfOthers ==
    ASSUME IInv, NEW r \in Requests, ~InBatch(r), NEW q \in 1..Len(batch.reqs)
    PROVE  /\ batch.reqs[q] \in Requests /\ batch.reqs[q] # r
           /\ status[batch.reqs[q]] = "running"
BY DEF InBatch, Range, IInv, RowsOK

\* The rows of a step are untouched by what happens to a request not in it.
LEMMA StepStays ==
    ASSUME IInv, StepOK, NEW r \in Requests, ~InBatch(r), OthersStay(r), UNCHANGED batch
    PROVE  StepOK'
<1>1. batch'.slot_mapping \in Seq(Slots) /\ Len(batch'.slot_mapping) = NumTokens'
      /\ \A q1, q2 \in 1..Len(batch'.reqs) : batch'.reqs[q1] = batch'.reqs[q2] => q1 = q2
    BY DEF StepOK, NumTokens
<1>2. ASSUME NEW q \in 1..Len(batch.reqs)
      PROVE  /\ RowEnd(q)' <= Len(table'[batch'.reqs[q]]) * BlockSize
             /\ \A i \in batch'.query_start_loc[q]..(batch'.query_start_loc[q + 1] - 1) :
                   /\ batch'.slot_mapping[i + 1] = SlotOf(batch.reqs[q], Position(i))'
                   /\ Position(i)' < Len(tokens'[batch'.reqs[q]]) =>
                         batch'.input_ids[i + 1] = tokens'[batch'.reqs[q]][Position(i)' + 1]
    <2> DEFINE r2 == batch.reqs[q]
    <2>1. r2 \in Requests /\ r2 # r
        BY RowsOfOthers
    <2>2. /\ tokens'[r2] = tokens[r2] /\ computed'[r2] = computed[r2] /\ table'[r2] = table[r2]
          /\ batch' = batch
        BY <2>1, Zenon DEF OthersStay
    <2>3. RowEnd(q)' = RowEnd(q)
        BY <2>2, Zenon DEF RowEnd
    <2>4. \A i : Position(i)' = Position(i)
        BY <2>2, Zenon DEF Position
    <2>5. \A i : SlotOf(batch.reqs[q], Position(i))' = SlotOf(batch.reqs[q], Position(i))
        BY <2>2, <2>4, Zenon DEF SlotOf
    <2>6. /\ RowEnd(q) <= Len(table[batch.reqs[q]]) * BlockSize
          /\ \A i \in batch.query_start_loc[q]..(batch.query_start_loc[q + 1] - 1) :
                /\ batch.slot_mapping[i + 1] = SlotOf(batch.reqs[q], Position(i))
                /\ Position(i) < Len(tokens[batch.reqs[q]]) =>
                      batch.input_ids[i + 1] = tokens[batch.reqs[q]][Position(i) + 1]
        BY Zenon DEF StepOK
    <2> QED BY <2>2, <2>3, <2>4, <2>5, <2>6, Zenon
<1>3. batch' = batch
    OBVIOUS
<1> QED BY <1>1, <1>2, <1>3, Zenon DEF StepOK

\* A request that does not run, and has no blocks, is no matter.
LEMMA Leaves ==
    ASSUME IInv, PoolOK, NEW r \in Requests, ~InBatch(r), OthersStay(r),
           status'[r] # "running", table' \in [Requests -> Seq(0..NumBlocks)], table'[r] = <<>>,
           UNCHANGED <<runner, content, cache, batch, loaded>>
    PROVE  PoolOK'
<1>0. TablesOK /\ StepOK /\ ContentOK /\ SharedOK /\ BlocksRight /\ TextsRight
    BY DEF PoolOK
<1>1. \A r2 \in Requests : r2 # r =>
         /\ status'[r2] = status[r2] /\ tokens'[r2] = tokens[r2]
         /\ computed'[r2] = computed[r2] /\ table'[r2] = table[r2]
    BY Zenon DEF OthersStay
<1>2. 1..Len(table'[r]) = {}
    OBVIOUS
<1>3. TablesOK'
    <2>1. ASSUME NEW r2 \in Requests
          PROVE  /\ status'[r2] # "running" => table'[r2] = <<>>
                 /\ status'[r2] = "running" => computed'[r2] <= Len(table'[r2]) * BlockSize
                 /\ \A j \in 1..Len(table'[r2]) : InWindow(j, computed[r2])' => table'[r2][j] # 0
                 /\ \A i, j \in 1..Len(table'[r2]) :
                       table'[r2][i] = table'[r2][j] /\ table'[r2][i] # 0 => i = j
        <3>1. CASE r2 = r
            BY <1>2, <3>1
        <3>2. CASE r2 # r
            <4>1. status'[r2] = status[r2] /\ computed'[r2] = computed[r2] /\ table'[r2] = table[r2]
                BY <1>1, <3>2, Zenon
            <4>2. \A j : InWindow(j, computed[r2])' = InWindow(j, computed[r2])
                BY <4>1, Zenon DEF InWindow
            <4> QED BY <1>0, <4>1, <4>2, Zenon DEF TablesOK
        <3> QED BY <3>1, <3>2
    <2> QED BY <2>1, Zenon DEF TablesOK
<1>4. StepOK'
    BY <1>0, StepStays
<1>5. ContentOK'
    <2>1. ASSUME NEW r2 \in Requests, NEW j \in 1..Len(table'[r2]),
                 table'[r2][j] # 0, content'[table'[r2][j]] # <<>>
          PROVE  /\ j * BlockSize <= Len(tokens'[r2])
                 /\ content'[table'[r2][j]] = SubSeq(tokens'[r2], 1, j * BlockSize)
                 /\ ~InBatch(r2)' => j * BlockSize <= computed'[r2]
                 /\ \A q \in 1..Len(batch'.reqs) : batch'.reqs[q] = r2 => j * BlockSize <= RowEnd(q)'
        <3>1. r2 # r
            BY <1>2, <2>1
        <3>2. /\ tokens'[r2] = tokens[r2] /\ computed'[r2] = computed[r2] /\ table'[r2] = table[r2]
              /\ content' = content /\ batch' = batch
            BY <1>1, <3>1, Zenon
        <3>3. InBatch(r2)' = InBatch(r2)
            BY <3>2 DEF InBatch
        <3>4. \A q : batch.reqs[q] = r2 => RowEnd(q)' = RowEnd(q)
            BY <3>2, Zenon DEF RowEnd
        <3>5. j \in 1..Len(table[r2]) /\ table[r2][j] # 0 /\ content[table[r2][j]] # <<>>
            BY <2>1, <3>2
        <3>6. /\ j * BlockSize <= Len(tokens[r2])
              /\ content[table[r2][j]] = SubSeq(tokens[r2], 1, j * BlockSize)
              /\ ~InBatch(r2) => j * BlockSize <= computed[r2]
              /\ \A q \in 1..Len(batch.reqs) : batch.reqs[q] = r2 => j * BlockSize <= RowEnd(q)
            BY <1>0, <3>5, Zenon DEF ContentOK
        <3> QED BY <3>2, <3>3, <3>4, <3>6, Zenon
    <2> QED BY <1>0, <2>1, Zenon DEF ContentOK
<1>6. SharedOK'
    <2>1. ASSUME NEW r1 \in Requests, NEW r2 \in Requests,
                 NEW j1 \in 1..Len(table'[r1]), NEW j2 \in 1..Len(table'[r2]),
                 r1 # r2, table'[r1][j1] = table'[r2][j2], table'[r1][j1] # 0
          PROVE  /\ content'[table'[r1][j1]] # <<>>
                 /\ j1 * BlockSize <= computed'[r1] \/ j2 * BlockSize <= computed'[r2]
        <3>1. r1 # r /\ r2 # r
            BY <1>2
        <3>2. /\ table'[r1] = table[r1] /\ table'[r2] = table[r2] /\ content' = content
              /\ computed'[r1] = computed[r1] /\ computed'[r2] = computed[r2]
            BY <1>1, <3>1, Zenon
        <3> QED BY <1>0, <2>1, <3>2, Zenon DEF SharedOK
    <2> QED BY <2>1, Zenon DEF SharedOK
<1>7. \A s \in Slots : Kept(s)
    BY SlotsKept
<1>8. BlocksRight'
    BY <1>0, <1>7, BlocksKept DEF ContentOK
<1>9. TextsRight'
    <2>1. ASSUME NEW r2 \in Requests, NEW p \in 0..(computed'[r2] - 1),
                 status'[r2] = "running", BlockAt(r2, p)' # 0
          PROVE  Right(SlotOf(r2, p), tokens[r2][p + 1])'
        <3>1. r2 # r
            BY <2>1
        <3>2. /\ tokens'[r2] = tokens[r2] /\ computed'[r2] = computed[r2] /\ table'[r2] = table[r2]
              /\ status[r2] = "running"
            BY <1>1, <2>1, <3>1, Zenon
        <3>3. BlockAt(r2, p) # 0 /\ SlotOf(r2, p)' = SlotOf(r2, p)
            BY <2>1, <3>2, Zenon DEF BlockAt, SlotOf
        <3>4. Right(SlotOf(r2, p), tokens[r2][p + 1])
            BY <1>0, <2>1, <3>2, <3>3, Zenon DEF TextsRight
        <3>5. Written' = Written /\ Missing' = Missing
            BY Zenon DEF Written, Missing, BatchTokens, NumTokens
        <3> QED BY <3>2, <3>3, <3>4, <3>5, Zenon DEF Right
    <2> QED BY <2>1, Zenon DEF TextsRight
<1> QED BY <1>3, <1>4, <1>5, <1>6, <1>8, <1>9 DEF PoolOK

\* A request leaves the runner, or comes to it.
LEMMA LeavesKeep ==
    ASSUME IInv, PoolOK, NEW r \in Requests
    PROVE  /\ \A p \in Prompts : Arrive(r, p) => PoolOK'
           /\ Preempt(r) => PoolOK'
           /\ Finish(r) => PoolOK'
<1>1. /\ tokens \in [Requests -> Seq(Tokens)] /\ computed \in [Requests -> Nat]
      /\ status \in [Requests -> {"out", "waiting", "running", "done"}]
      /\ table \in [Requests -> Seq(0..NumBlocks)]
      /\ status[r] # "running" => table[r] = <<>>
    BY DEF IInv, RequestsOK, PoolOK, TablesOK
<1>2. ASSUME status[r] # "running" PROVE ~InBatch(r)
    BY <1>2 DEF IInv, RowsOK, InBatch, Range
<1>3. <<>> \in Seq(0..NumBlocks)
    OBVIOUS
<1>4. ASSUME NEW p \in Prompts, Arrive(r, p) PROVE PoolOK'
    <2>1. OthersStay(r) /\ status'[r] # "running" /\ table' = table /\ table[r] = <<>> /\ ~InBatch(r)
          /\ UNCHANGED <<runner, content, cache, batch, loaded>>
        BY <1>1, <1>2, <1>4 DEF Arrive, OthersStay, pool
    <2> QED BY <1>1, <2>1, Leaves
<1>5. ASSUME Preempt(r) PROVE PoolOK'
    <2>1. OthersStay(r) /\ status'[r] # "running" /\ table' = [table EXCEPT ![r] = <<>>] /\ ~InBatch(r)
          /\ UNCHANGED <<runner, content, cache, batch, loaded>>
        BY <1>1, <1>5 DEF Preempt, OthersStay
    <2>2. table'[r] = <<>> /\ table' \in [Requests -> Seq(0..NumBlocks)]
        BY <1>1, <1>3, <2>1
    <2> QED BY <2>1, <2>2, Leaves
<1>6. ASSUME Finish(r) PROVE PoolOK'
    <2>1. OthersStay(r) /\ status'[r] # "running" /\ table' = [table EXCEPT ![r] = <<>>] /\ ~InBatch(r)
          /\ UNCHANGED <<runner, content, cache, batch, loaded>>
        BY <1>1, <1>6 DEF Finish, OthersStay
    <2>2. table'[r] = <<>> /\ table' \in [Requests -> Seq(0..NumBlocks)]
        BY <1>1, <1>3, <2>1
    <2> QED BY <2>1, <2>2, Leaves
<1> QED BY <1>4, <1>5, <1>6
-----------------------------------------------------------------------------
(* A request is admitted *)

\* A request that is admitted with k tokens has blocks that others do not write
\* to, and what they were filled with is of its text.
AdmittedWith(r, k) ==
    /\ computed'[r] = k
    /\ tokens'[r] = tokens[r]
    /\ table' \in [Requests -> Seq(0..NumBlocks)]
    /\ k <= Len(table'[r]) * BlockSize
    /\ \A j \in 1..Len(table'[r]) : InWindow(j, k) => table'[r][j] # 0
    /\ \A i, j \in 1..Len(table'[r]) : table'[r][i] = table'[r][j] /\ table'[r][i] # 0 => i = j
    /\ content' \in [1..NumBlocks -> Seq(Tokens)]
    /\ \A b \in 1..NumBlocks : content'[b] = content[b] \/ content'[b] = <<>>
    /\ \A b \in 1..NumBlocks : b \notin Free => content'[b] = content[b]
    /\ \A j \in 1..Len(table'[r]) : table'[r][j] # 0 =>
          /\ content'[table'[r][j]] # <<>> =>
                j * BlockSize <= k /\ content'[table'[r][j]] = SubSeq(tokens[r], 1, j * BlockSize)
          /\ content'[table'[r][j]] = <<>> => table'[r][j] \in Free
    /\ \A p \in 0..(k - 1) : BlockAt(r, p)' # 0 => Right(SlotOf(r, p), tokens[r][p + 1])'

\* A block that a request has is not free.
LEMMA HeldIsNotFree ==
    ASSUME TablesOK, NEW r \in Requests, NEW j \in 1..Len(table[r]), table[r][j] # 0
    PROVE  table[r][j] \in 1..NumBlocks /\ table[r][j] \notin Free
<1>1. table[r] \in Seq(0..NumBlocks)
    BY DEF TablesOK
<1>2. table[r][j] \in 0..NumBlocks
    BY <1>1, ElementOfSeq
<1>3. table[r][j] \in Range(table[r])
    BY <1>1 DEF Range
<1> QED BY <1>2, <1>3, BlockAssumption DEF Free

\* The slot of a computed token.
LEMMA SlotOfComputed ==
    ASSUME IInv, TablesOK, NEW r \in Requests, status[r] = "running", NEW p \in 0..(computed[r] - 1)
    PROVE  /\ p \in Nat /\ PlaceOf(p) \in 1..Len(table[r])
           /\ BlockAt(r, p) \in 0..NumBlocks
           /\ SlotOf(r, p) = BlockAt(r, p) * BlockSize + (p % BlockSize)
           /\ SlotOf(r, p) \in Slots
           /\ tokens[r][p + 1] \in Tokens
<1>1. /\ computed[r] \in Nat /\ computed[r] < Len(tokens[r]) /\ tokens[r] \in Seq(Tokens)
      /\ computed[r] <= Len(table[r]) * BlockSize /\ Len(table[r]) \in Int
    BY DEF IInv, RequestsOK, TablesOK
<1>2. p \in Nat /\ p + 1 \in 1..Len(tokens[r])
    BY <1>1
<1>3. p < Len(table[r]) * BlockSize
    <2> DEFINE x == Len(table[r]) * BlockSize
    <2>1. x \in Int /\ computed[r] <= x
        BY <1>1, Multiples
    <2> HIDE DEF x
    <2>2. p < x
        BY <1>1, <2>1
    <2> QED BY <2>2 DEF x
<1>4. /\ PlaceOf(p) \in 1..Len(table[r])
      /\ BlockAt(r, p) \in 0..NumBlocks
      /\ p % BlockSize \in 0..(BlockSize - 1)
      /\ SlotOf(r, p) = BlockAt(r, p) * BlockSize + (p % BlockSize)
    BY <1>2, <1>3, BlockOfPosition
<1>5. SlotOf(r, p) \in Slots
    <2> DEFINE b == BlockAt(r, p)
               o == p % BlockSize
    <2>1. b \in 0..NumBlocks /\ o \in 0..(BlockSize - 1) /\ SlotOf(r, p) = b * BlockSize + o
        BY <1>4
    <2> HIDE DEF b, o
    <2> QED BY <2>1, SlotInRange
<1>6. tokens[r][p + 1] \in Tokens
    BY <1>1, <1>2, ElementOfSeq
<1> QED BY <1>2, <1>4, <1>5, <1>6

\* A request that is admitted so keeps the invariant.
LEMMA Joins ==
    ASSUME IInv, PoolOK, NEW r \in Requests, NEW k \in Nat, k < Len(tokens[r]), ~InBatch(r), OthersStay(r),
           AdmittedWith(r, k), status'[r] = "running", UNCHANGED <<runner, batch>>,
           \A s \in Slots : Kept(s)
    PROVE  PoolOK'
<1>0. TablesOK /\ StepOK /\ ContentOK /\ SharedOK /\ BlocksRight /\ TextsRight
    BY DEF PoolOK
<1>1. \A r2 \in Requests : r2 # r =>
         /\ status'[r2] = status[r2] /\ tokens'[r2] = tokens[r2]
         /\ computed'[r2] = computed[r2] /\ table'[r2] = table[r2]
    BY Zenon DEF OthersStay
<1>2. /\ computed'[r] = k
      /\ tokens'[r] = tokens[r]
      /\ table' \in [Requests -> Seq(0..NumBlocks)]
      /\ k <= Len(table'[r]) * BlockSize
      /\ \A j \in 1..Len(table'[r]) : InWindow(j, k) => table'[r][j] # 0
      /\ \A i, j \in 1..Len(table'[r]) : table'[r][i] = table'[r][j] /\ table'[r][i] # 0 => i = j
      /\ content' \in [1..NumBlocks -> Seq(Tokens)]
      /\ \A b \in 1..NumBlocks : content'[b] = content[b] \/ content'[b] = <<>>
      /\ \A b \in 1..NumBlocks : b \notin Free => content'[b] = content[b]
      /\ \A j \in 1..Len(table'[r]) : table'[r][j] # 0 =>
            /\ content'[table'[r][j]] # <<>> =>
                  j * BlockSize <= k /\ content'[table'[r][j]] = SubSeq(tokens[r], 1, j * BlockSize)
            /\ content'[table'[r][j]] = <<>> => table'[r][j] \in Free
      /\ \A p \in 0..(k - 1) : BlockAt(r, p)' # 0 => Right(SlotOf(r, p), tokens[r][p + 1])'
    BY Zenon DEF AdmittedWith
<1>3. TablesOK'
    <2>1. ASSUME NEW r2 \in Requests
          PROVE  /\ status'[r2] # "running" => table'[r2] = <<>>
                 /\ status'[r2] = "running" => computed'[r2] <= Len(table'[r2]) * BlockSize
                 /\ \A j \in 1..Len(table'[r2]) : InWindow(j, computed[r2])' => table'[r2][j] # 0
                 /\ \A i, j \in 1..Len(table'[r2]) :
                       table'[r2][i] = table'[r2][j] /\ table'[r2][i] # 0 => i = j
        <3>1. CASE r2 = r
            <4>1. \A j : InWindow(j, computed[r2])' = InWindow(j, k)
                BY <1>2, <3>1, Zenon DEF InWindow
            <4> QED BY <1>2, <3>1, <4>1, Zenon
        <3>2. CASE r2 # r
            <4>1. status'[r2] = status[r2] /\ computed'[r2] = computed[r2] /\ table'[r2] = table[r2]
                BY <1>1, <3>2, Zenon
            <4>2. \A j : InWindow(j, computed[r2])' = InWindow(j, computed[r2])
                BY <4>1, Zenon DEF InWindow
            <4> QED BY <1>0, <4>1, <4>2, Zenon DEF TablesOK
        <3> QED BY <3>1, <3>2
    <2> QED BY <1>2, <2>1, Zenon DEF TablesOK
<1>4. StepOK'
    BY <1>0, StepStays
<1>5. ASSUME NEW r2 \in Requests, r2 # r, NEW j \in 1..Len(table[r2]), table[r2][j] # 0
      PROVE  /\ table[r2][j] \in 1..NumBlocks /\ table[r2][j] \notin Free
             /\ content'[table[r2][j]] = content[table[r2][j]]
    <2>1. table[r2][j] \in 1..NumBlocks /\ table[r2][j] \notin Free
        BY <1>0, <1>5, HeldIsNotFree
    <2> QED BY <1>2, <2>1, Zenon
<1>6. ContentOK'
    <2>1. ASSUME NEW r2 \in Requests, NEW j \in 1..Len(table'[r2]),
                 table'[r2][j] # 0, content'[table'[r2][j]] # <<>>
          PROVE  /\ j * BlockSize <= Len(tokens'[r2])
                 /\ content'[table'[r2][j]] = SubSeq(tokens'[r2], 1, j * BlockSize)
                 /\ ~InBatch(r2)' => j * BlockSize <= computed'[r2]
                 /\ \A q \in 1..Len(batch'.reqs) : batch'.reqs[q] = r2 => j * BlockSize <= RowEnd(q)'
        <3>1. CASE r2 = r
            <4>1. j * BlockSize <= k /\ content'[table'[r][j]] = SubSeq(tokens[r], 1, j * BlockSize)
                BY <1>2, <2>1, <3>1, Zenon
            <4>2. j * BlockSize <= Len(tokens'[r])
                <5> DEFINE x == j * BlockSize
                <5>1. x \in Int /\ x <= k
                    BY <1>2, <3>1, <4>1, Multiples
                <5>2. Len(tokens[r]) \in Int
                    BY DEF IInv, RequestsOK
                <5> HIDE DEF x
                <5>3. x <= Len(tokens[r])
                    BY <5>1, <5>2
                <5> QED BY <1>2, <5>3 DEF x
            <4>3. \A q \in 1..Len(batch'.reqs) : batch'.reqs[q] # r
                BY RowsOfOthers
            <4> QED BY <1>2, <3>1, <4>1, <4>2, <4>3, Zenon
        <3>2. CASE r2 # r
            <4>1. /\ tokens'[r2] = tokens[r2] /\ computed'[r2] = computed[r2] /\ table'[r2] = table[r2]
                  /\ batch' = batch
                BY <1>1, <3>2, Zenon
            <4>2. j \in 1..Len(table[r2]) /\ table[r2][j] # 0
                  /\ content'[table[r2][j]] = content[table[r2][j]]
                BY <1>5, <2>1, <3>2, <4>1
            <4>3. InBatch(r2)' = InBatch(r2)
                BY <4>1 DEF InBatch
            <4>4. \A q : batch.reqs[q] = r2 => RowEnd(q)' = RowEnd(q)
                BY <4>1, Zenon DEF RowEnd
            <4>5. content[table[r2][j]] # <<>>
                BY <2>1, <4>1, <4>2
            <4>6. /\ j * BlockSize <= Len(tokens[r2])
                  /\ content[table[r2][j]] = SubSeq(tokens[r2], 1, j * BlockSize)
                  /\ ~InBatch(r2) => j * BlockSize <= computed[r2]
                  /\ \A q \in 1..Len(batch.reqs) : batch.reqs[q] = r2 => j * BlockSize <= RowEnd(q)
                BY <1>0, <4>2, <4>5, Zenon DEF ContentOK
            <4> QED BY <4>1, <4>2, <4>3, <4>4, <4>6, Zenon
        <3> QED BY <3>1, <3>2
    <2> QED BY <1>2, <2>1, Zenon DEF ContentOK
<1>7. ASSUME NEW j1 \in 1..Len(table'[r]), NEW r2 \in Requests, r2 # r, NEW j2 \in 1..Len(table[r2]),
             table'[r][j1] = table[r2][j2], table'[r][j1] # 0
      PROVE  content'[table'[r][j1]] # <<>> /\ j1 * BlockSize <= computed'[r]
    <2>1. table'[r][j1] \notin Free
        BY <1>5, <1>7
    <2> QED BY <1>2, <1>7, <2>1, Zenon
<1>8. SharedOK'
    <2>1. ASSUME NEW r1 \in Requests, NEW r2 \in Requests,
                 NEW j1 \in 1..Len(table'[r1]), NEW j2 \in 1..Len(table'[r2]),
                 r1 # r2, table'[r1][j1] = table'[r2][j2], table'[r1][j1] # 0
          PROVE  /\ content'[table'[r1][j1]] # <<>>
                 /\ j1 * BlockSize <= computed'[r1] \/ j2 * BlockSize <= computed'[r2]
        <3>1. CASE r1 = r
            <4>1. table'[r2] = table[r2]
                BY <1>1, <2>1, <3>1, Zenon
            <4> QED BY <1>7, <2>1, <3>1, <4>1, Zenon
        <3>2. CASE r2 = r
            <4>1. table'[r1] = table[r1]
                BY <1>1, <2>1, <3>2, Zenon
            <4> QED BY <1>7, <2>1, <3>2, <4>1, Zenon
        <3>3. CASE r1 # r /\ r2 # r
            <4>1. /\ table'[r1] = table[r1] /\ table'[r2] = table[r2]
                  /\ computed'[r1] = computed[r1] /\ computed'[r2] = computed[r2]
                BY <1>1, <3>3, Zenon
            <4>2. content'[table[r1][j1]] = content[table[r1][j1]]
                BY <1>5, <2>1, <3>3, <4>1, Zenon
            <4> QED BY <1>0, <2>1, <4>1, <4>2, Zenon DEF SharedOK
        <3> QED BY <3>1, <3>2, <3>3
    <2> QED BY <2>1, Zenon DEF SharedOK
<1>9. BlocksRight'
    BY <1>0, <1>2, BlocksKept DEF ContentOK
<1>10. TextsRight'
    <2>1. ASSUME NEW r2 \in Requests, NEW p \in 0..(computed'[r2] - 1),
                 status'[r2] = "running", BlockAt(r2, p)' # 0
          PROVE  Right(SlotOf(r2, p), tokens[r2][p + 1])'
        <3>1. CASE r2 = r
            BY <1>2, <2>1, <3>1
        <3>2. CASE r2 # r
            <4>1. /\ tokens'[r2] = tokens[r2] /\ computed'[r2] = computed[r2] /\ table'[r2] = table[r2]
                  /\ status[r2] = "running"
                BY <1>1, <2>1, <3>2, Zenon
            <4>2. BlockAt(r2, p) # 0 /\ SlotOf(r2, p)' = SlotOf(r2, p)
                BY <2>1, <4>1, Zenon DEF BlockAt, SlotOf
            <4>3. Right(SlotOf(r2, p), tokens[r2][p + 1])
                BY <1>0, <2>1, <4>1, <4>2, Zenon DEF TextsRight
            <4>4. SlotOf(r2, p) \in Slots /\ tokens[r2][p + 1] \in Tokens
                BY <1>0, <2>1, <4>1, SlotOfComputed
            <4> PICK s \in Slots : s = SlotOf(r2, p)
                BY <4>4
            <4> PICK id \in Tokens : id = tokens[r2][p + 1]
                BY <4>4
            <4>5. s \in Missing' \/ Written'[s] = Compressed(id)
                <5>1. Kept(s) /\ Right(s, id)
                    BY <4>3, Zenon
                <5> QED BY <5>1, Zenon DEF Kept, Right
            <4>6. SlotOf(r2, p)' \in Missing' \/ Written'[SlotOf(r2, p)'] = Compressed(tokens'[r2][p + 1])
                BY <4>1, <4>2, <4>5, Zenon
            <4> QED BY <4>6, Zenon DEF Right
        <3> QED BY <3>1, <3>2
    <2> QED BY <2>1, Zenon DEF TextsRight
<1> QED BY <1>3, <1>4, <1>6, <1>8, <1>9, <1>10 DEF PoolOK

\* A multiple of the block size is of one number.
LEMMA SameMultiple ==
    ASSUME NEW m \in Int, NEW j \in Int, m * BlockSize = j * BlockSize
    PROVE  m = j
<1> DEFINE y == m * BlockSize
           z == j * BlockSize
<1>1. y \in Int /\ z \in Int /\ y = z /\ (m < j => y + BlockSize <= z) /\ (j < m => z + BlockSize <= y)
    BY Multiples
<1>2. BlockSize \in Nat \ {0}
    BY BlockAssumption
<1> HIDE DEF y, z
<1>3. ~(m < j) /\ ~(j < m)
    BY <1>1, <1>2
<1> QED BY ONLY <1>3, m \in Int, j \in Int

\* A block filled with the first j blocks of a text has what is right for the
\* last of these.
LEMMA FilledIsRight ==
    ASSUME BlocksRight, NEW b \in 1..NumBlocks, NEW s \in Seq(Tokens), NEW j \in Nat \ {0},
           j * BlockSize <= Len(s), content[b] = SubSeq(s, 1, j * BlockSize),
           NEW o \in 0..(BlockSize - 1)
    PROVE  Right(b * BlockSize + o, s[(j - 1) * BlockSize + o + 1])
<1> DEFINE x == j * BlockSize
           p == (j - 1) * BlockSize + o
<1>1. x \in Nat \ {0}
    BY BlockAssumption
<1>2. p \in Nat /\ p < x
    BY PositionOf
<1>3. x <= Len(s) /\ content[b] = SubSeq(s, 1, x)
    OBVIOUS
<1> HIDE DEF x, p
<1>4. Len(content[b]) = x /\ \A i \in 1..x : content[b][i] = s[i]
    BY <1>1, <1>3, Beginning
<1>5. content[b] # <<>>
    BY <1>1, <1>4
<1>6. PICK m \in Nat \ {0} :
         /\ Len(content[b]) = m * BlockSize
         /\ \A u \in 0..(BlockSize - 1) :
               Right(b * BlockSize + u, content[b][(m - 1) * BlockSize + u + 1])
    BY <1>5, Zenon DEF BlocksRight
<1>7. m = j
    <2>1. m * BlockSize = j * BlockSize
        BY <1>4, <1>6 DEF x
    <2> QED BY <2>1, SameMultiple
<1>8. Right(b * BlockSize + o, content[b][p + 1])
    BY <1>6, <1>7 DEF p
<1>9. content[b][p + 1] = s[p + 1]
    <2>1. p + 1 \in 1..x
        BY <1>1, <1>2
    <2> QED BY <1>4, <2>1
<1> QED BY <1>8, <1>9, Zenon DEF p

\* A request whose first tokens are found in filled blocks.
LEMMA HitAdmits ==
    ASSUME IInv, PoolOK, NEW r \in Requests, NEW k \in Nat, k < Len(tokens[r]), Hit(r, k),
           computed' = [computed EXCEPT ![r] = k], UNCHANGED <<runner, tokens, batch, cache>>
    PROVE  AdmittedWith(r, k) /\ \A r2 \in Requests : r2 # r => table'[r2] = table[r2]
<1> DEFINE len    == k \div BlockSize
           needed == {j \in 1..len : InWindow(j, k)}
           row    == [j \in 1..len |-> IF j \in needed THEN Min(Filled(r, j)) ELSE 0]
           text   == tokens[r]
<1>1. /\ k % BlockSize = 0
      /\ \A j \in needed : Filled(r, j) # {}
      /\ Allocate(r, row, len, {}, k)
      /\ loaded' = loaded
    BY Zenon DEF Hit
<1>2. BlockSize \in Nat \ {0} /\ NumBlocks \in Nat
    BY BlockAssumption
<1>3. len \in Nat /\ len * BlockSize = k
    <2>1. len \in Nat
        BY <1>2
    <2>2. k = BlockSize * len + (k % BlockSize)
        BY <1>2, DivMod
    <2> HIDE DEF len
    <2>3. BlockSize * len = len * BlockSize /\ len * BlockSize \in Int
        BY <1>2, <2>1
    <2> DEFINE x == len * BlockSize
    <2> HIDE DEF x
    <2>4. k = x + (k % BlockSize) /\ x \in Int
        BY <2>2, <2>3 DEF x
    <2>5. k = x
        BY <1>1, <2>4
    <2> QED BY <2>1, <2>5 DEF x
<1> HIDE DEF len
<1>4. text \in Seq(Tokens) /\ content \in [1..NumBlocks -> Seq(Tokens)]
      /\ table \in [Requests -> Seq(0..NumBlocks)] /\ BlocksRight /\ TablesOK
    BY DEF IInv, RequestsOK, PoolOK, ContentOK, TablesOK
<1> HIDE DEF text
<1>5. ASSUME NEW j \in 1..len
      PROVE  /\ j * BlockSize \in Nat \ {0} /\ j * BlockSize <= k /\ j * BlockSize <= Len(text)
             /\ Len(SubSeq(text, 1, j * BlockSize)) = j * BlockSize
             /\ SubSeq(text, 1, j * BlockSize) # <<>>
    <2> DEFINE x == j * BlockSize
    <2>1. x \in Nat \ {0}
        BY <1>2, <1>3
    <2>2. x <= k
        BY <1>3, Multiples
    <2> HIDE DEF x
    <2>3. Len(text) \in Nat /\ k < Len(text)
        BY <1>4 DEF text
    <2>4. x <= Len(text)
        BY <2>1, <2>2, <2>3
    <2>5. Len(SubSeq(text, 1, x)) = x
        BY <1>4, <2>1, <2>4, Beginning
    <2> QED BY <2>1, <2>2, <2>4, <2>5 DEF x
<1>6. ASSUME NEW j \in needed
      PROVE  /\ row[j] \in 1..NumBlocks
             /\ content[row[j]] = SubSeq(text, 1, j * BlockSize)
    <2>1. Filled(r, j) \in SUBSET Nat /\ Filled(r, j) # {}
        <3>1. Filled(r, j) # {}
            BY <1>1, Zenon
        <3>2. 1..NumBlocks \subseteq Nat
            BY <1>2
        <3>3. Filled(r, j) \subseteq 1..NumBlocks
            BY Zenon DEF Filled
        <3> QED BY <3>1, <3>2, <3>3, Zenon
    <2>2. Min(Filled(r, j)) \in Filled(r, j)
        BY <2>1, MinOfNaturals
    <2>3. row[j] = Min(Filled(r, j))
        BY <1>6
    <2> QED BY <2>2, <2>3 DEF Filled, text
<1>7. \A j \in 1..len : j \notin needed => row[j] = 0
    OBVIOUS
<1> HIDE DEF needed, row
<1>8. ASSUME NEW i \in 1..len, NEW j \in 1..len, row[i] = row[j], row[i] # 0
      PROVE  i = j
    <2>1. i \in needed /\ j \in needed
        BY <1>7, <1>8
    <2>2. SubSeq(text, 1, i * BlockSize) = SubSeq(text, 1, j * BlockSize)
        BY <1>6, <1>8, <2>1
    <2>3. i * BlockSize = j * BlockSize
        BY <1>5, <2>2, Zenon
    <2>4. i \in Int /\ j \in Int
        BY <1>3
    <2> QED BY <2>3, <2>4, SameMultiple
<1>9. \A j \in 1..len : row[j] \in 0..NumBlocks
    BY <1>2, <1>6, <1>7
<1>10. Allocated(r, row, len, {}, k)
    <2>1. {} \in SUBSET (1..len) /\ k <= Len(tokens[r]) /\ tokens[r] \in Seq(Tokens)
        BY <1>4 DEF text
    <2> QED BY <1>1, <1>3, <1>4, <1>8, <1>9, <2>1, AllocateFacts
<1> DEFINE T == table'[r]
<1>11. /\ table' \in [Requests -> Seq(0..NumBlocks)]
       /\ Len(T) = len
       /\ \A j \in 1..len : T[j] = row[j]
       /\ \A r2 \in Requests : r2 # r => table'[r2] = table[r2]
       /\ content' \in [1..NumBlocks -> Seq(Tokens)]
       /\ \A b \in 1..NumBlocks : (\A j \in 1..len : T[j] # b) => content'[b] = content[b]
       /\ \A j \in 1..len : T[j] # 0 =>
             content'[T[j]] = IF j * BlockSize <= k THEN SubSeq(text, 1, j * BlockSize)
                              ELSE IF T[j] \in Free THEN <<>> ELSE content[T[j]]
    <2>1. /\ table' \in [Requests -> Seq(0..NumBlocks)]
          /\ Len(T) = len
          /\ \A j \in 1..len : j \notin {} => T[j] = row[j]
          /\ \A r2 \in Requests : r2 # r => table'[r2] = table[r2]
          /\ content' \in [1..NumBlocks -> Seq(Tokens)]
          /\ \A b \in 1..NumBlocks : (\A j \in 1..len : T[j] # b) => content'[b] = content[b]
          /\ \A j \in 1..len : T[j] # 0 =>
                content'[T[j]] = IF j * BlockSize <= k THEN SubSeq(text, 1, j * BlockSize)
                                 ELSE IF T[j] \in Free THEN <<>> ELSE content[T[j]]
        BY <1>10, Zenon DEF Allocated, text
    <2>2. \A j : j \notin {}
        OBVIOUS
    <2> QED BY <2>1, <2>2, Zenon
<1> HIDE DEF T
<1>12. ASSUME NEW j \in 1..len, T[j] # 0
       PROVE  /\ j \in needed /\ T[j] \in 1..NumBlocks
              /\ content'[T[j]] = SubSeq(text, 1, j * BlockSize)
              /\ content[T[j]] = SubSeq(text, 1, j * BlockSize)
    <2>1. T[j] = row[j] /\ j \in needed
        BY <1>7, <1>11, <1>12
    <2>2. T[j] \in 1..NumBlocks /\ content[T[j]] = SubSeq(text, 1, j * BlockSize)
        BY <1>6, <2>1
    <2>3. j * BlockSize <= k
        BY <1>5
    <2>4. content'[T[j]] = SubSeq(text, 1, j * BlockSize)
        BY <1>11, <1>12, <2>3
    <2> QED BY <2>1, <2>2, <2>4
<1>13. \A b \in 1..NumBlocks : content'[b] = content[b]
    <2>1. SUFFICES ASSUME NEW b \in 1..NumBlocks PROVE content'[b] = content[b]
        OBVIOUS
    <2>2. CASE \E j \in 1..len : T[j] = b
        <3>1. PICK j \in 1..len : T[j] = b
            BY <2>2
        <3>2. T[j] # 0
            BY <1>2, <3>1
        <3> QED BY <1>12, <3>1, <3>2
    <2> QED BY <1>11, <2>2
<1>14. \A j \in 1..len : InWindow(j, k) => T[j] # 0
    <2>1. SUFFICES ASSUME NEW j \in 1..len, InWindow(j, k) PROVE T[j] # 0
        OBVIOUS
    <2>2. j \in needed
        BY <2>1 DEF needed
    <2> QED BY <1>2, <1>6, <1>11, <2>2
<1>15. Written' = Written /\ Missing' = Missing
    BY <1>1, Zenon DEF Written, Missing, BatchTokens, NumTokens
<1>16. ASSUME NEW p \in 0..(k - 1), BlockAt(r, p)' # 0
       PROVE  Right(SlotOf(r, p), tokens[r][p + 1])'
    <2> DEFINE j == PlaceOf(p)
               o == p % BlockSize
    <2>1. p \in Nat /\ p < len * BlockSize
        BY <1>3
    <2>2. j \in 1..len
        <3>1. j <= len /\ j \in Nat \ {0}
            BY <1>3, <2>1, PlaceFacts, PlaceWithin
        <3> QED BY <1>3, <3>1
    <2>3. T[j] # 0
        BY <1>16 DEF BlockAt, T
    <2>4. o \in 0..(BlockSize - 1) /\ p = (j - 1) * BlockSize + o
        BY <2>1, PlaceFacts
    <2>5. SlotOf(r, p)' = T[j] * BlockSize + o
        BY Zenon DEF SlotOf, PlaceOf, T
    <2> HIDE DEF j, o
    <2>6. Right(T[j] * BlockSize + o, text[(j - 1) * BlockSize + o + 1])
        <3> DEFINE b == T[j]
        <3>1. b \in 1..NumBlocks /\ content[b] = SubSeq(text, 1, j * BlockSize) /\ j \in Nat \ {0}
              /\ j * BlockSize <= Len(text)
            BY <1>5, <1>12, <2>2, <2>3
        <3> HIDE DEF b
        <3>2. Right(b * BlockSize + o, text[(j - 1) * BlockSize + o + 1])
            BY <1>4, <2>4, <3>1, FilledIsRight
        <3> QED BY <3>2 DEF b
    <2> DEFINE s == T[j] * BlockSize + o
               id == text[p + 1]
    <2>7. Right(s, id)
        <3>1. (j - 1) * BlockSize + o + 1 = p + 1
            BY <2>4, Zenon
        <3> QED BY <2>6, <3>1, Zenon
    <2>8. SlotOf(r, p)' = s /\ tokens'[r][p + 1] = id
        BY <2>5 DEF text
    <2> HIDE DEF s, id
    <2> QED BY <1>15, <2>7, <2>8, Zenon DEF Right
<1>17. computed'[r] = k
    BY DEF IInv, RequestsOK
<1>18. \A i, j \in 1..Len(T) : T[i] = T[j] /\ T[i] # 0 => i = j
    BY <1>8, <1>11
<1>19. \A j \in 1..Len(T) : T[j] # 0 =>
          /\ content'[T[j]] # <<>> =>
                j * BlockSize <= k /\ content'[T[j]] = SubSeq(text, 1, j * BlockSize)
          /\ content'[T[j]] = <<>> => T[j] \in Free
    BY <1>5, <1>11, <1>12
<1>20. k <= Len(T) * BlockSize
    <2>1. Len(T) * BlockSize = k /\ k \in Int
        BY <1>3, <1>11
    <2> QED BY <2>1
<1>21. tokens'[r] = tokens[r] /\ \A j \in 1..Len(T) : InWindow(j, k) => T[j] # 0
    BY <1>11, <1>14
<1> QED BY <1>11, <1>13, <1>16, <1>17, <1>18, <1>19, <1>20, <1>21, Zenon DEF AdmittedWith, T, text

\* The slots of a free block are not in the step.
LEMMA FreeNotInStep ==
    ASSUME IInv, TablesOK, StepOK, NEW b \in Free, NEW o \in 0..(BlockSize - 1)
    PROVE  b * BlockSize + o \notin Range(batch.slot_mapping)
<1> DEFINE s == b * BlockSize + o
<1> SUFFICES ASSUME s \in Range(batch.slot_mapping) PROVE FALSE
    OBVIOUS
<1>1. PICK k \in 1..NumTokens : batch.slot_mapping[k] = s
    BY DEF Range, StepOK
<1> DEFINE i == k - 1
<1>2. NumTokens \in Nat
    BY DEF NumTokens, IInv, PositionsOK
<1>3. i \in BatchTokens /\ i + 1 = k
    BY <1>2 DEF BatchTokens
<1> HIDE DEF i
<1> DEFINE r == batch.reqs[RowOf(i)]
           p == Position(i)
<1>4. InStep(i, RowOf(i), r, p)
    BY <1>3, TokenInStep
<1> HIDE DEF r, p
<1>5. /\ r \in Requests /\ PlaceOf(p) \in 1..Len(table[r]) /\ BlockAt(r, p) \in 1..NumBlocks
      /\ p % BlockSize \in 0..(BlockSize - 1)
      /\ s = BlockAt(r, p) * BlockSize + (p % BlockSize)
    BY <1>1, <1>3, <1>4, Zenon DEF InStep
<1>6. b \in 1..NumBlocks
    BY DEF Free
<1>7. BlockAt(r, p) = b
    <2> DEFINE c == BlockAt(r, p)
               u == p % BlockSize
    <2>1. c \in Int /\ b \in Int /\ u \in 0..(BlockSize - 1) /\ b * BlockSize + o = c * BlockSize + u
        <3>1. c \in Int /\ b \in Int
            BY <1>5, <1>6
        <3> QED BY <1>5, <3>1, Zenon
    <2> HIDE DEF c, u
    <2>2. b = c
        BY <2>1, BlocksApart
    <2> QED BY <2>2 DEF c
<1>8. BlockAt(r, p) # 0
    BY <1>5
<1>9. BlockAt(r, p) \notin Free
    BY <1>5, <1>8, HeldIsNotFree DEF BlockAt
<1> QED BY <1>7, <1>9

\* A request of which a part of the prompt is loaded into free blocks.
LEMMA LoadAdmits ==
    ASSUME IInv, PoolOK, NEW r \in Requests, NEW k \in Nat, k < Len(tokens[r]), Load(r, k),
           computed' = [computed EXCEPT ![r] = k], UNCHANGED <<runner, tokens, batch, cache>>
    PROVE  AdmittedWith(r, k) /\ \A r2 \in Requests : r2 # r => table'[r2] = table[r2]
<1> DEFINE len  == Cdiv(k, BlockSize)
           new  == {j \in 1..len : InWindow(j, k)}
           row  == [j \in 1..len |-> 0]
           text == tokens[r]
<1>1. /\ Allocate(r, row, len, new, 0)
      /\ loaded' = loaded \cup {SlotOf(r, p)' : p \in {p \in 0..(k - 1) : InWindow((p \div BlockSize) + 1, k)}}
    BY Zenon DEF Load
<1>2. BlockSize \in Nat \ {0} /\ NumBlocks \in Nat
    BY BlockAssumption
<1>3. len \in Nat /\ k <= len * BlockSize
    BY CdivCovers
<1> HIDE DEF len
<1>4. text \in Seq(Tokens) /\ content \in [1..NumBlocks -> Seq(Tokens)]
      /\ table \in [Requests -> Seq(0..NumBlocks)] /\ StepOK /\ TablesOK
    BY DEF IInv, RequestsOK, PoolOK, ContentOK, TablesOK
<1>5. \A j \in 1..len : row[j] = 0 /\ row[j] \notin Free /\ row[j] \in 0..NumBlocks
    BY <1>2 DEF Free
<1>6. new \in SUBSET (1..len) /\ \A j \in 1..len : j \in new <=> InWindow(j, k)
    OBVIOUS
<1> HIDE DEF new, row, text
<1>7. Allocated(r, row, len, new, 0)
    <2>1. 0 \in Nat /\ 0 <= Len(tokens[r]) /\ tokens[r] \in Seq(Tokens)
        BY <1>4 DEF text
    <2> QED BY <1>1, <1>3, <1>4, <1>5, <1>6, <2>1, AllocateFacts
<1> DEFINE T == table'[r]
<1>8. /\ table' \in [Requests -> Seq(0..NumBlocks)]
      /\ Len(T) = len
      /\ \A j \in 1..len : j \notin new => T[j] = row[j]
      /\ \A j \in new : T[j] \in Free
      /\ \A i, j \in 1..len : T[i] = T[j] /\ T[i] # 0 => i = j
      /\ \A r2 \in Requests : r2 # r => table'[r2] = table[r2]
      /\ content' \in [1..NumBlocks -> Seq(Tokens)]
      /\ \A b \in 1..NumBlocks : (\A j \in 1..len : T[j] # b) => content'[b] = content[b]
      /\ \A j \in 1..len : T[j] # 0 =>
            content'[T[j]] = IF j * BlockSize <= 0 THEN SubSeq(tokens[r], 1, j * BlockSize)
                             ELSE IF T[j] \in Free THEN <<>> ELSE content[T[j]]
    BY <1>7, Zenon DEF Allocated, T
<1> HIDE DEF T
<1>9. \A j \in 1..len : T[j] # 0 => j \in new /\ T[j] \in Free /\ content'[T[j]] = <<>>
    <2>1. SUFFICES ASSUME NEW j \in 1..len, T[j] # 0
                   PROVE  j \in new /\ T[j] \in Free /\ content'[T[j]] = <<>>
        OBVIOUS
    <2>2. j \in new /\ T[j] \in Free
        BY <1>5, <1>8, <2>1
    <2>3. ~(j * BlockSize <= 0)
        <3>1. j \in Nat \ {0}
            BY <1>3
        <3> HIDE DEF T
        <3> QED BY ONLY <1>2, <3>1
    <2> QED BY <1>8, <2>1, <2>2, <2>3, Zenon
<1>10. /\ \A b \in 1..NumBlocks : content'[b] = content[b] \/ content'[b] = <<>>
       /\ \A b \in 1..NumBlocks : b \notin Free => content'[b] = content[b]
    <2>1. SUFFICES ASSUME NEW b \in 1..NumBlocks
                   PROVE  (content'[b] = content[b] \/ content'[b] = <<>>)
                          /\ (b \notin Free => content'[b] = content[b])
        OBVIOUS
    <2>2. CASE \E j \in 1..len : T[j] = b
        <3>1. PICK j \in 1..len : T[j] = b
            BY <2>2
        <3>2. T[j] # 0
            BY <1>2, <3>1
        <3> QED BY <1>9, <3>1, <3>2
    <2> QED BY <1>8, <2>2
<1>11. \A j \in 1..len : InWindow(j, k) => T[j] # 0
    BY <1>6, <1>8 DEF Free
<1>12. ASSUME NEW p \in 0..(k - 1), BlockAt(r, p)' # 0
       PROVE  Right(SlotOf(r, p), tokens[r][p + 1])'
    <2> DEFINE j == PlaceOf(p)
               o == p % BlockSize
    <2>1. p \in Nat /\ p < len * BlockSize
        <3> DEFINE x == len * BlockSize
        <3>1. x \in Int /\ k <= x
            BY <1>3, Multiples
        <3> HIDE DEF x
        <3>2. p \in Nat /\ p < x
            BY <3>1
        <3> QED BY <3>2 DEF x
    <2>2. j \in 1..len
        <3>1. j <= len /\ j \in Nat \ {0}
            BY <1>3, <2>1, PlaceFacts, PlaceWithin
        <3> QED BY <1>3, <3>1
    <2>3. T[j] # 0
        BY <1>12 DEF BlockAt, T
    <2>4. o \in 0..(BlockSize - 1)
        BY <2>1, PlaceFacts
    <2>5. SlotOf(r, p)' = T[j] * BlockSize + o
        BY Zenon DEF SlotOf, PlaceOf, T
    <2>6. InWindow((p \div BlockSize) + 1, k)
        BY <1>6, <1>9, <2>2, <2>3 DEF PlaceOf
    <2> HIDE DEF o, j
    <2>7. SlotOf(r, p)' \in loaded'
        <3>1. p \in {i \in 0..(k - 1) : InWindow((i \div BlockSize) + 1, k)}
            BY <2>6
        <3>2. SlotOf(r, p)' \in {SlotOf(r, i)' : i \in {i \in 0..(k - 1) : InWindow((i \div BlockSize) + 1, k)}}
            BY <3>1
        <3> QED BY <1>1, <3>2
    <2>8. SlotOf(r, p)' \notin Range(batch.slot_mapping)
        <3> DEFINE b == T[j]
        <3>1. b \in Free
            BY <1>9, <2>2, <2>3
        <3> HIDE DEF b
        <3>2. b * BlockSize + o \notin Range(batch.slot_mapping)
            BY <1>4, <2>4, <3>1, FreeNotInStep
        <3> QED BY <2>5, <3>2, Zenon DEF b
    <2>9. SlotOf(r, p)' \in Missing'
        BY <2>7, <2>8 DEF Missing
    <2> QED BY <2>9, Zenon DEF Right
<1>13. computed'[r] = k /\ tokens'[r] = tokens[r]
    BY DEF IInv, RequestsOK
<1>14. \A j \in 1..Len(T) : T[j] # 0 =>
          /\ content'[T[j]] # <<>> =>
                j * BlockSize <= k /\ content'[T[j]] = SubSeq(tokens[r], 1, j * BlockSize)
          /\ content'[T[j]] = <<>> => T[j] \in Free
    BY <1>8, <1>9, Zenon
<1>15. k <= Len(T) * BlockSize
    BY <1>3, <1>8, Zenon
<1>16. \A j \in 1..Len(T) : InWindow(j, k) => T[j] # 0
    BY <1>8, <1>11, Zenon
<1>17. \A i, j \in 1..Len(T) : T[i] = T[j] /\ T[i] # 0 => i = j
    BY <1>8, Zenon
<1> QED BY <1>8, <1>10, <1>12, <1>13, <1>14, <1>15, <1>16, <1>17, Zenon DEF AdmittedWith, T

\* A request is admitted.
LEMMA AdmitKeeps ==
    ASSUME IInv, PoolOK, runner # "v2", NEW r \in Requests, NEW k \in 0..MaxLen, Admit(r, k)
    PROVE  PoolOK'
<1>1. /\ status[r] = "waiting" /\ k < Len(tokens[r]) /\ (Hit(r, k) \/ Load(r, k))
      /\ status' = [status EXCEPT ![r] = "running"]
      /\ computed' = [computed EXCEPT ![r] = k]
      /\ UNCHANGED <<runner, tokens, prompt, cache, batch, preempts>>
    BY DEF Admit
<1>2. k \in Nat
    BY BoundAssumption
<1>3. /\ computed \in [Requests -> Nat]
      /\ status \in [Requests -> {"out", "waiting", "running", "done"}]
    BY DEF IInv, RequestsOK
<1>4. ~InBatch(r)
    <2>1. status[r] # "running"
        BY <1>1
    <2>2. batch.reqs \in Seq(Requests) /\ \A q \in 1..Len(batch.reqs) : status[batch.reqs[q]] = "running"
        BY Zenon DEF IInv, RowsOK
    <2> QED BY <2>1, <2>2 DEF InBatch, Range
<1>5. AdmittedWith(r, k) /\ \A r2 \in Requests : r2 # r => table'[r2] = table[r2]
    BY <1>1, <1>2, HitAdmits, LoadAdmits
<1>6. OthersStay(r) /\ status'[r] = "running"
    <2>1. \A r2 \in Requests : r2 # r =>
             status'[r2] = status[r2] /\ tokens'[r2] = tokens[r2] /\ computed'[r2] = computed[r2]
        BY <1>1, <1>3
    <2>2. status'[r] = "running"
        BY <1>1, <1>3
    <2> QED BY <1>5, <2>1, <2>2, Zenon DEF OthersStay
<1>7. loaded \subseteq loaded'
    <2>1. CASE Hit(r, k)
        <3>1. loaded' = loaded
            BY <2>1, Zenon DEF Hit
        <3> QED BY <3>1
    <2>2. CASE Load(r, k)
        <3>1. \E new : loaded' = loaded \cup new
            BY <2>2, Zenon DEF Load
        <3> QED BY <3>1
    <2> QED BY <1>1, <2>1, <2>2
<1>8. \A s \in Slots : Kept(s)
    BY <1>1, <1>7, SlotsKept
<1> QED BY <1>1, <1>2, <1>4, <1>5, <1>6, <1>8, Joins
-----------------------------------------------------------------------------
(* The step is computed *)

\* A row that does not reach the last known token is not answered; else m of its
\* drafts are accepted, and a token follows.
Answered(q, answer, t, c) ==
    \/ answer = <<>> /\ c + Len(Chunk(q)) < t
    \/ /\ t <= c + Len(Chunk(q))
       /\ \E m \in Nat :
             /\ t + m <= c + Len(Chunk(q)) /\ Len(answer) = m + 1
             /\ \A j \in 1..m : answer[j] = Chunk(q)[(t - c) + j]

LEMMA AnswerFacts ==
    ASSUME IInv, NEW q \in 1..Len(batch.reqs), NEW answer \in Answers(q)
    PROVE  Answered(q, answer, Len(tokens[batch.reqs[q]]), computed[batch.reqs[q]])
<1> DEFINE r      == batch.reqs[q]
           t      == Len(tokens[r])
           c      == computed[r]
           a      == t - c
           n      == Len(Chunk(q))
           drafts == SubSeq(Chunk(q), a + 1, n)
<1>1. c \in Nat /\ t \in Nat /\ c < t
    <2>1. r \in Requests /\ status[r] = "running"
        BY DEF IInv, RowsOK
    <2> HIDE DEF r
    <2> QED BY <2>1 DEF IInv, RequestsOK
<1>2. Chunk(q) \in Seq(Tokens) /\ n \in Nat
    BY ChunkFacts DEF IInv
<1>3. CASE c + n < t
    <2>1. Answers(q) = {<<>>}
        BY <1>3 DEF Answers
    <2>2. answer = <<>>
        BY <2>1
    <2> QED BY <1>3, <2>2, Zenon DEF Answered
<1>4. CASE ~(c + n < t)
    <2>1. Answers(q) = Accepted(drafts)
        BY <1>4, Zenon DEF Answers
    <2>2. PICK m \in 0..Len(drafts), id \in Generated : answer = SubSeq(drafts, 1, m) \o <<id>>
        <3> HIDE DEF drafts
        <3> QED BY <2>1 DEF Accepted
    <2>3. a \in Nat /\ a <= n /\ t <= c + n
        <3> HIDE DEF c, t, n
        <3> QED BY <1>1, <1>2, <1>4
    <2> HIDE DEF a, t, c, n
    <2>4. drafts \in Seq(Tokens) /\ Len(drafts) = n - a /\ \A j \in 1..(n - a) : drafts[j] = Chunk(q)[a + j]
        BY <1>2, <2>3, PartOf DEF n
    <2> HIDE DEF drafts
    <2>5. m \in Nat /\ m <= n - a /\ m <= Len(drafts)
        BY <1>2, <2>3, <2>4
    <2> DEFINE head == SubSeq(drafts, 1, m)
    <2>6. head \in Seq(Tokens) /\ Len(head) = m /\ \A j \in 1..m : head[j] = drafts[j]
        BY <2>4, <2>5, Beginning
    <2> HIDE DEF head
    <2>7. <<id>> \in Seq(Tokens) /\ Len(<<id>>) = 1
        BY TokenAssumption
    <2>8. Len(answer) = m + 1 /\ \A j \in 1..m : answer[j] = head[j]
        <3>1. /\ head \in Seq(Tokens) /\ <<id>> \in Seq(Tokens) /\ m \in Nat /\ m = Len(head)
              /\ 1 \in Nat /\ 1 = Len(<<id>>)
            BY <2>5, <2>6, <2>7
        <3>2. Len(head \o <<id>>) = m + 1 /\ \A j \in 1..m : (head \o <<id>>)[j] = head[j]
            BY ONLY <3>1, Joined
        <3> QED BY <2>2, <3>2, Zenon DEF head
    <2>9. \A j \in 1..m : answer[j] = Chunk(q)[a + j]
        <3>1. \A j \in 1..m : j \in 1..(n - a)
            BY <1>2, <2>3, <2>5
        <3> QED BY <2>4, <2>6, <2>8, <3>1, Zenon
    <2>10. t + m <= c + n
        BY <1>1, <1>2, <2>3, <2>5 DEF a
    <2> QED BY <2>3, <2>5, <2>8, <2>9, <2>10, Zenon DEF Answered, a, n, t, c, r
<1> QED BY <1>3, <1>4

\* A row that is computed: its request's text goes on, and the tokens computed
\* are those of the text.
Advanced(q, r) ==
    /\ tokens'[r] \in Seq(Tokens) /\ Len(tokens[r]) <= Len(tokens'[r])
    /\ \A j \in 1..Len(tokens[r]) : tokens'[r][j] = tokens[r][j]
    /\ computed'[r] \in Nat /\ computed[r] <= computed'[r] /\ computed'[r] <= RowEnd(q)
    /\ computed'[r] = RowEnd(q) \/ computed'[r] >= Len(tokens[r])
    /\ \A p \in Len(tokens[r])..(computed'[r] - 1) :
          tokens'[r][p + 1] = Chunk(q)[p - computed[r] + 1]

LEMMA RowAdvances ==
    ASSUME IInv, NEW q \in 1..Len(batch.reqs), NEW r, r = batch.reqs[q], NEW answer \in Answers(q),
           tokens'[r] = tokens[r] \o answer,
           computed'[r] = After(r, Chunk(q), tokens[r] \o answer)
    PROVE  Advanced(q, r)
<1> DEFINE t == Len(tokens[r])
           c == computed[r]
           n == Len(Chunk(q))
           u == Len(answer)
<1>1. c \in Nat /\ t \in Nat /\ c < t /\ tokens[r] \in Seq(Tokens)
    <2>1. r \in Requests /\ status[r] = "running"
        BY DEF IInv, RowsOK
    <2> QED BY <2>1 DEF IInv, RequestsOK
<1>2. n \in Nat \ {0} /\ RowEnd(q) = c + n
    BY ChunkFacts, Zenon DEF IInv, RowEnd
<1>3. answer \in Seq(Tokens) /\ u \in Nat
    <2>1. answer \in Seq(Tokens)
        BY AnswersAreTokens
    <2> QED BY <2>1
<1>4. Answered(q, answer, t, c)
    BY AnswerFacts
<1>5. /\ tokens'[r] \in Seq(Tokens) /\ Len(tokens'[r]) = t + u /\ Len(tokens[r] \o answer) = t + u
      /\ \A j \in 1..t : tokens'[r][j] = tokens[r][j]
      /\ \A j \in 1..u : tokens'[r][t + j] = answer[j]
    <2>1. /\ tokens[r] \in Seq(Tokens) /\ answer \in Seq(Tokens) /\ t \in Nat /\ t = Len(tokens[r])
          /\ u \in Nat /\ u = Len(answer) /\ tokens'[r] = tokens[r] \o answer
        BY <1>1, <1>3
    <2>2. tokens[r] \o answer \in Seq(Tokens) /\ Len(tokens[r] \o answer) = t + u
        BY ONLY <2>1, Joined
    <2>3. \A j \in 1..t : (tokens[r] \o answer)[j] = tokens[r][j]
        BY ONLY <2>1, Joined
    <2>4. \A j \in 1..u : (tokens[r] \o answer)[t + j] = answer[j]
        BY ONLY <2>1, Joined
    <2> QED BY <2>1, <2>2, <2>3, <2>4, Zenon
<1>6. computed'[r] = IF c + n <= t + u - 1 THEN c + n ELSE t + u - 1
    <2>1. computed'[r] = Min({c + n, Len(tokens[r] \o answer) - 1})
        BY Zenon DEF After
    <2>2. computed'[r] = Min({c + n, t + u - 1})
        <3> DEFINE l == Len(tokens[r] \o answer)
                   v == t + u
        <3>1. l = v /\ computed'[r] = Min({c + n, l - 1})
            BY <1>5, <2>1
        <3> HIDE DEF l, v
        <3>2. computed'[r] = Min({c + n, v - 1})
            BY <3>1, Zenon
        <3> QED BY <3>2 DEF v
    <2>3. c + n \in Int /\ t + u - 1 \in Int
        BY <1>1, <1>2, <1>3
    <2> QED BY <2>2, <2>3, MinOfTwo
<1> DEFINE e == computed'[r]
<1>7. /\ e \in Nat /\ c <= e /\ e <= c + n /\ (e = c + n \/ e >= t)
      /\ \A p \in t..(e - 1) : tokens'[r][p + 1] = Chunk(q)[p - c + 1]
    <2>1. CASE answer = <<>> /\ c + n < t
        <3>1. u = 0
            BY <2>1
        <3> HIDE DEF e, u, t, c, n
        <3>2. e = c + n
            BY <1>1, <1>2, <1>6, <2>1, <3>1 DEF e
        <3>3. t..(e - 1) = {}
            BY <1>1, <1>2, <2>1, <3>2
        <3>4. e \in Nat /\ c <= e /\ e <= c + n
            BY <1>1, <1>2, <3>2
        <3> QED BY <3>2, <3>3, <3>4
    <2>2. CASE /\ t <= c + n
               /\ \E m \in Nat : /\ t + m <= c + n /\ u = m + 1
                                 /\ \A j \in 1..m : answer[j] = Chunk(q)[(t - c) + j]
        <3>0. PICK m \in Nat : /\ t + m <= c + n /\ u = m + 1
                               /\ \A j \in 1..m : answer[j] = Chunk(q)[(t - c) + j]
            BY <2>2, Zenon
        <3> HIDE DEF e, u, t, c, n
        <3>1. e = t + m
            BY <1>1, <1>2, <1>6, <3>0 DEF e
        <3>2. ASSUME NEW p \in t..(e - 1) PROVE tokens'[r][p + 1] = Chunk(q)[p - c + 1]
            <4> DEFINE j == p + 1 - t
            <4>1. t \in Nat /\ c \in Nat /\ m \in Nat /\ u = m + 1 /\ e = t + m /\ p \in t..(e - 1)
                BY <1>1, <3>0, <3>1
            <4>2. j \in 1..m /\ t + j = p + 1 /\ (t - c) + j = p - c + 1
                BY ONLY <4>1
            <4>3. j \in 1..u
                <5> HIDE DEF j
                <5> QED BY ONLY <4>1, <4>2
            <4> HIDE DEF j
            <4>4. tokens'[r][t + j] = answer[j]
                BY <1>5, <4>3, Zenon
            <4>5. answer[j] = Chunk(q)[(t - c) + j]
                BY <3>0, <4>2, Zenon
            <4> QED BY <4>2, <4>4, <4>5, Zenon
        <3>3. e \in Nat /\ c <= e /\ e <= c + n /\ e >= t
            BY <1>1, <1>2, <2>2, <3>0, <3>1
        <3> QED BY <3>2, <3>3
    <2> QED BY <1>4, <2>1, <2>2, Zenon DEF Answered
<1>8. t <= t + u
    BY <1>1, <1>3
<1> QED BY <1>2, <1>5, <1>7, <1>8, Zenon DEF Advanced

\* When the step is computed, the requests of its rows advance, others do not.
LEMMA ForwardAdvances ==
    ASSUME IInv, Forward, NEW r \in Requests
    PROVE  /\ ~InBatch(r) => tokens'[r] = tokens[r] /\ computed'[r] = computed[r]
           /\ InBatch(r) => \E q \in 1..Len(batch.reqs) : batch.reqs[q] = r /\ Advanced(q, r)
<1>1. PICK answers \in {f \in [DOMAIN batch.reqs -> UNION {Answers(q) : q \in DOMAIN batch.reqs}] :
                           \A q \in DOMAIN batch.reqs : f[q] \in Answers(q)} :
          LET Row(s) == CHOOSE q \in DOMAIN batch.reqs : batch.reqs[q] = s
              Text(s) == tokens[s] \o answers[Row(s)]
          IN  /\ tokens' = [s \in Requests |-> IF InBatch(s) THEN Text(s) ELSE tokens[s]]
              /\ computed' = [s \in Requests |->
                    IF ~InBatch(s) THEN computed[s]
                    ELSE After(s, Chunk(Row(s)), Text(s))]
    BY DEF Forward
<1> DEFINE Row(s)  == CHOOSE q \in DOMAIN batch.reqs : batch.reqs[q] = s
           Text(s) == tokens[s] \o answers[Row(s)]
<1>2. /\ tokens' = [s \in Requests |-> IF InBatch(s) THEN Text(s) ELSE tokens[s]]
      /\ computed' = [s \in Requests |->
            IF ~InBatch(s) THEN computed[s] ELSE After(s, Chunk(Row(s)), Text(s))]
    BY <1>1, Zenon
<1>3. ASSUME ~InBatch(r) PROVE tokens'[r] = tokens[r] /\ computed'[r] = computed[r]
    BY <1>2, <1>3, Zenon
<1>4. ASSUME InBatch(r)
      PROVE  \E q \in 1..Len(batch.reqs) : batch.reqs[q] = r /\ Advanced(q, r)
    <2> DEFINE q == Row(r)
    <2>1. DOMAIN batch.reqs = 1..Len(batch.reqs)
        BY DEF IInv, RowsOK
    <2>2. \E p \in DOMAIN batch.reqs : batch.reqs[p] = r
        BY <1>4 DEF InBatch, Range
    <2>3. q \in 1..Len(batch.reqs) /\ batch.reqs[q] = r
        BY <2>1, <2>2, Zenon
    <2>4. answers[q] \in Answers(q)
        BY <1>1, <2>1, <2>3, Zenon
    <2>5. tokens'[r] = tokens[r] \o answers[q]
          /\ computed'[r] = After(r, Chunk(q), tokens[r] \o answers[q])
        BY <1>2, <1>4, Zenon
    <2> HIDE DEF q
    <2>6. Advanced(q, r)
        BY <2>3, <2>4, <2>5, RowAdvances
    <2> QED BY <2>3, <2>6
<1> QED BY <1>3, <1>4

\* A block of what is computed next lies in the step or before it.
LEMMA WindowGrows ==
    ASSUME NEW j \in Int, NEW c \in Int, NEW e \in Int, c <= e, InWindow(j, e)
    PROVE  InWindow(j, c)
<1>1. j * BlockSize \in Int /\ Window \in Nat
    BY Multiples, BlockAssumption
<1> DEFINE x == j * BlockSize
<1>2. x \in Int /\ x > e - (Window - 1)
    BY <1>1 DEF InWindow
<1> HIDE DEF x
<1>3. x > c - (Window - 1)
    BY <1>1, <1>2
<1> QED BY <1>3 DEF InWindow, x

\* A text that goes on begins as before.
LEMMA SameBeginning ==
    ASSUME NEW s \in Seq(Tokens), NEW t \in Seq(Tokens), Len(s) <= Len(t),
           \A j \in 1..Len(s) : t[j] = s[j], NEW k \in Nat, k <= Len(s)
    PROVE  SubSeq(t, 1, k) = SubSeq(s, 1, k)
<1>1. k <= Len(t)
    OBVIOUS
<1>2. /\ SubSeq(s, 1, k) \in Seq(Tokens) /\ Len(SubSeq(s, 1, k)) = k
      /\ \A j \in 1..k : SubSeq(s, 1, k)[j] = s[j]
    BY Beginning
<1>3. /\ SubSeq(t, 1, k) \in Seq(Tokens) /\ Len(SubSeq(t, 1, k)) = k
      /\ \A j \in 1..k : SubSeq(t, 1, k)[j] = t[j]
    BY <1>1, Beginning
<1>4. \A j \in 1..k : SubSeq(t, 1, k)[j] = SubSeq(s, 1, k)[j]
    BY <1>2, <1>3
<1> DEFINE a == SubSeq(s, 1, k)
           b == SubSeq(t, 1, k)
<1>5. a \in Seq(Tokens) /\ b \in Seq(Tokens) /\ Len(a) = k /\ Len(b) = k /\ \A j \in 1..k : b[j] = a[j]
    BY <1>2, <1>3, <1>4
<1> HIDE DEF a, b
<1>6. a = b
    BY <1>5, SeqEqual
<1> QED BY <1>6 DEF a, b

\* The text and what is computed of it, after the step.
LEMMA TextsGrow ==
    ASSUME IInv, Forward, NEW r \in Requests
    PROVE  /\ tokens[r] \in Seq(Tokens) /\ tokens'[r] \in Seq(Tokens)
           /\ Len(tokens[r]) <= Len(tokens'[r])
           /\ \A j \in 1..Len(tokens[r]) : tokens'[r][j] = tokens[r][j]
           /\ computed[r] \in Nat /\ computed'[r] \in Nat /\ computed[r] <= computed'[r]
<1>1. tokens[r] \in Seq(Tokens) /\ computed[r] \in Nat
    BY DEF IInv, RequestsOK
<1>2. CASE ~InBatch(r)
    <2>1. tokens'[r] = tokens[r] /\ computed'[r] = computed[r]
        BY <1>2, ForwardAdvances
    <2> QED BY <1>1, <2>1
<1>3. CASE InBatch(r)
    <2>1. PICK q \in 1..Len(batch.reqs) : batch.reqs[q] = r /\ Advanced(q, r)
        BY <1>3, ForwardAdvances
    <2> QED BY <1>1, <2>1, Zenon DEF Advanced
<1> QED BY <1>2, <1>3

\* A token computed by the step is in its slot, and is that of the text.
LEMMA ComputedIsWritten ==
    ASSUME IInv, TablesOK, StepOK, StepWritten, NEW q \in 1..Len(batch.reqs), NEW r,
           r = batch.reqs[q], Advanced(q, r), NEW p \in computed[r]..(computed'[r] - 1)
    PROVE  Written[SlotOf(r, p)] = Compressed(tokens'[r][p + 1])
<1> DEFINE a == batch.query_start_loc[q]
           b == batch.query_start_loc[q + 1]
           c == computed[r]
           e == computed'[r]
           i == a + (p - c)
           t == Len(tokens[r])
<1>1. /\ a \in Nat /\ b \in Nat /\ NumTokens \in Nat /\ a < b /\ b <= NumTokens
    BY RowEnds DEF IInv
<1>2. c \in Nat /\ tokens[r] \in Seq(Tokens) /\ t \in Nat
    <2>1. r \in Requests
        BY DEF IInv, RowsOK
    <2> QED BY <2>1 DEF IInv, RequestsOK
<1>3. /\ \A j \in 1..t : tokens'[r][j] = tokens[r][j]
      /\ e \in Nat /\ c <= e /\ e <= RowEnd(q)
      /\ \A k \in t..(e - 1) : tokens'[r][k + 1] = Chunk(q)[k - c + 1]
    BY Zenon DEF Advanced
<1>4. RowEnd(q) = c + (b - a)
    BY Zenon DEF RowEnd
<1> HIDE DEF a, b, c, e, t
<1>5. p \in Nat /\ c <= p /\ p < e
    BY <1>2, <1>3 DEF c, e
<1>6. i \in a..(b - 1) /\ i \in 0..(NumTokens - 1)
    BY <1>1, <1>2, <1>3, <1>4, <1>5
<1> HIDE DEF i
<1>7. InStep(i, q, r, Position(i))
    BY <1>6, TokensOfRow DEF a, b
<1>8. Position(i) = p
    <2>1. Position(i) = c + (i - a)
        BY <1>7, Zenon DEF InStep, c, a
    <2>2. c + (i - a) = p
        BY <1>1, <1>2, <1>5 DEF i
    <2> QED BY <2>1, <2>2
<1>9. batch.slot_mapping[i + 1] = SlotOf(r, p)
    BY <1>7, <1>8, Zenon DEF InStep
<1>10. Written[SlotOf(r, p)] = Compressed(batch.input_ids[i + 1])
    BY <1>6, <1>9, Zenon DEF StepWritten, BatchTokens
<1>11. batch.input_ids[i + 1] = tokens'[r][p + 1]
    <2>1. CASE p < t
        <3>1. batch.input_ids[i + 1] = tokens[r][p + 1]
            <4>1. Position(i) < Len(tokens[r])
                BY <1>8, <2>1 DEF t
            <4>2. batch.input_ids[i + 1] = tokens[batch.reqs[q]][Position(i) + 1]
                BY <1>6, <4>1, Zenon DEF StepOK, a, b
            <4> QED BY <1>8, <4>2
        <3>2. p + 1 \in 1..t
            BY <1>2, <1>5, <2>1
        <3> QED BY <1>3, <3>1, <3>2
    <2>2. CASE ~(p < t)
        <3> DEFINE k == p - c + 1
        <3>1. p \in t..(e - 1)
            BY <1>2, <1>3, <1>5, <2>2
        <3>2. tokens'[r][p + 1] = Chunk(q)[k]
            BY <1>3, <3>1, Zenon
        <3>3. Len(Chunk(q)) = b - a /\ \A j \in 1..Len(Chunk(q)) : Chunk(q)[j] = batch.input_ids[a + j]
            BY ChunkFacts DEF IInv, a, b
        <3>31. e \in Int /\ p < e /\ e <= RowEnd(q) /\ RowEnd(q) = c + (b - a)
            BY <1>3, <1>4, <1>5
        <3>32. /\ a \in Int /\ b \in Int /\ c \in Int /\ p \in Int /\ c <= p
               /\ Len(Chunk(q)) = b - a
            BY <1>1, <1>2, <1>5, <3>3
        <3>4. k \in 1..Len(Chunk(q)) /\ a + k = i + 1
            BY ONLY <3>31, <3>32 DEF i, k
        <3> HIDE DEF k
        <3>5. Chunk(q)[k] = batch.input_ids[a + k]
            BY <3>3, <3>4, Zenon
        <3> QED BY <3>2, <3>4, <3>5, Zenon
    <2> QED BY <2>1, <2>2
<1> QED BY <1>10, <1>11, Zenon

\* Once the step is computed, its slots are written.
LEMMA ForwardSlots ==
    ASSUME Forward, runner # "v2"
    PROVE  \A s \in Slots : Missing' = Missing /\ Written'[s] = Written[s]
<1>1. cache' = Written /\ loaded' = Missing /\ batch' = Empty /\ runner' = runner
    BY Zenon DEF Forward
<1>2. BatchTokens' = {}
    BY <1>1, EmptyFacts DEF BatchTokens, NumTokens
<1>3. Missing' = Missing
    <2>1. Empty.slot_mapping = <<>>
        BY DEF Empty
    <2>2. batch'.slot_mapping = <<>>
        BY <1>1, <2>1, Zenon
    <2>3. Range(batch'.slot_mapping) = {}
        BY <2>2 DEF Range
    <2>4. Missing' = Missing \ Range(batch'.slot_mapping)
        BY <1>1, Zenon DEF Missing
    <2> QED BY <2>3, <2>4
<1>4. ASSUME NEW s \in Slots PROVE Written'[s] = Written[s]
    <2> DEFINE Here(z) == {i \in BatchTokens : batch.slot_mapping[i + 1] = z}'
               New(z)  == IF Here(z) = {} THEN cache'[z]
                          ELSE Compressed(batch'.input_ids[Max(Here(z)) + 1])
    <2>1. Written' = [z \in Slots |-> New(z)]
        BY <1>1, Zenon DEF Written
    <2>2. Here(s) = {}
        BY <1>2
    <2>3. New(s) = cache'[s]
        BY <2>2, Zenon
    <2> HIDE DEF New
    <2>4. Written'[s] = cache'[s]
        BY <2>1, <2>3
    <2> QED BY <1>1, <2>4, Zenon
<1> QED BY <1>3, <1>4

\* The step is computed.
LEMMA ForwardKeepsPool ==
    ASSUME IInv, PoolOK, runner # "v2", Forward
    PROVE  PoolOK'
<1>0. TablesOK /\ StepOK /\ ContentOK /\ SharedOK /\ BlocksRight /\ TextsRight
    BY DEF PoolOK
<1>1. status' = status /\ table' = table /\ content' = content /\ batch' = Empty /\ runner' = runner
    BY DEF Forward, pool
<1>2. \A r \in Requests :
         /\ tokens[r] \in Seq(Tokens) /\ tokens'[r] \in Seq(Tokens)
         /\ Len(tokens[r]) <= Len(tokens'[r])
         /\ \A j \in 1..Len(tokens[r]) : tokens'[r][j] = tokens[r][j]
         /\ computed[r] \in Nat /\ computed'[r] \in Nat /\ computed[r] <= computed'[r]
    BY TextsGrow
<1>3. \A r \in Requests :
         /\ ~InBatch(r) => tokens'[r] = tokens[r] /\ computed'[r] = computed[r]
         /\ InBatch(r) => \E q \in 1..Len(batch.reqs) : batch.reqs[q] = r /\ Advanced(q, r)
    BY ForwardAdvances
<1>4. StepWritten
    BY <1>0, WrittenByStep
<1>5. \A s \in Slots : Missing' = Missing /\ Written'[s] = Written[s]
    BY ForwardSlots
<1>6. TablesOK'
    <2>1. ASSUME NEW r \in Requests
          PROVE  /\ status'[r] # "running" => table'[r] = <<>>
                 /\ status'[r] = "running" => computed'[r] <= Len(table'[r]) * BlockSize
                 /\ \A j \in 1..Len(table'[r]) : InWindow(j, computed[r])' => table'[r][j] # 0
                 /\ \A i, j \in 1..Len(table'[r]) :
                       table'[r][i] = table'[r][j] /\ table'[r][i] # 0 => i = j
        <3>1. /\ table[r] \in Seq(0..NumBlocks)
              /\ status[r] # "running" => table[r] = <<>>
              /\ status[r] = "running" => computed[r] <= Len(table[r]) * BlockSize
              /\ \A j \in 1..Len(table[r]) : InWindow(j, computed[r]) => table[r][j] # 0
              /\ \A i, j \in 1..Len(table[r]) :
                       table[r][i] = table[r][j] /\ table[r][i] # 0 => i = j
            BY <1>0 DEF TablesOK
        <3>2. ASSUME status[r] = "running" PROVE computed'[r] <= Len(table[r]) * BlockSize
            <4>1. CASE ~InBatch(r)
                BY <1>3, <3>1, <3>2, <4>1
            <4>2. CASE InBatch(r)
                <5>1. PICK q \in 1..Len(batch.reqs) : batch.reqs[q] = r /\ Advanced(q, r)
                    BY <1>3, <4>2
                <5>2. computed'[r] <= RowEnd(q) /\ RowEnd(q) <= Len(table[r]) * BlockSize
                    BY <1>0, <5>1, Zenon DEF Advanced, StepOK
                <5>3. RowEnd(q) \in Int /\ computed'[r] \in Int
                    <6>1. computed[r] \in Nat /\ computed'[r] \in Nat
                        BY <1>2
                    <6> QED BY <5>1, <6>1, RowEnds DEF RowEnd, IInv
                <5> DEFINE x == Len(table[r]) * BlockSize
                <5>4. x \in Int /\ RowEnd(q) <= x
                    <6>1. Len(table[r]) \in Int
                        BY <3>1
                    <6>2. x \in Int
                        BY <6>1, Multiples
                    <6> QED BY <5>2, <6>2, Zenon
                <5>5. computed'[r] <= x
                    <6> DEFINE e == computed'[r]
                               z == RowEnd(q)
                    <6>1. e \in Int /\ z \in Int /\ x \in Int /\ e <= z /\ z <= x
                        BY <5>2, <5>3, <5>4
                    <6> HIDE DEF e, z, x
                    <6>2. e <= x
                        BY ONLY <6>1
                    <6> QED BY <6>2 DEF e
                <5> QED BY <5>5
            <4> QED BY <4>1, <4>2
        <3>3. \A j \in 1..Len(table[r]) : InWindow(j, computed'[r]) => InWindow(j, computed[r])
            BY <1>2, WindowGrows
        <3>4. \A j : InWindow(j, computed[r])' = InWindow(j, computed'[r])
            BY Zenon DEF InWindow
        <3> QED BY <1>1, <3>1, <3>2, <3>3, <3>4, Zenon
    <2> QED BY <1>0, <1>1, <2>1, Zenon DEF TablesOK
<1>7. StepOK'
    <2>1. Empty.slot_mapping = <<>> /\ Empty.input_ids = <<>> /\ Empty.reqs = <<>>
        BY DEF Empty
    <2>2. batch'.slot_mapping \in Seq(Slots) /\ Len(batch'.slot_mapping) = NumTokens'
        BY <1>1, <2>1 DEF NumTokens
    <2>3. 1..Len(batch'.reqs) = {}
        BY <1>1, <2>1
    <2> QED BY <2>2, <2>3, Zenon DEF StepOK
<1>8. ContentOK'
    <2>1. ASSUME NEW r \in Requests, NEW j \in 1..Len(table[r]),
                 table[r][j] # 0, content[table[r][j]] # <<>>
          PROVE  /\ j * BlockSize <= Len(tokens'[r])
                 /\ content[table[r][j]] = SubSeq(tokens'[r], 1, j * BlockSize)
                 /\ j * BlockSize <= computed'[r]
        <3> DEFINE x == j * BlockSize
        <3>1. /\ x <= Len(tokens[r])
              /\ content[table[r][j]] = SubSeq(tokens[r], 1, x)
              /\ ~InBatch(r) => x <= computed[r]
              /\ \A q \in 1..Len(batch.reqs) : batch.reqs[q] = r => x <= RowEnd(q)
            BY <1>0, <2>1, Zenon DEF ContentOK
        <3>2. x \in Nat
            BY BlockAssumption
        <3> HIDE DEF x
        <3>3. SubSeq(tokens'[r], 1, x) = SubSeq(tokens[r], 1, x)
            BY <1>2, <3>1, <3>2, SameBeginning
        <3>4. x <= Len(tokens'[r])
            <4>1. Len(tokens[r]) \in Nat /\ Len(tokens'[r]) \in Nat /\ Len(tokens[r]) <= Len(tokens'[r])
                BY <1>2
            <4> QED BY <3>1, <3>2, <4>1
        <3>5. x <= computed'[r]
            <4>1. CASE ~InBatch(r)
                BY <1>3, <3>1, <4>1
            <4>2. CASE InBatch(r)
                <5>1. PICK q \in 1..Len(batch.reqs) : batch.reqs[q] = r /\ Advanced(q, r)
                    BY <1>3, <4>2
                <5>2. computed'[r] = RowEnd(q) \/ computed'[r] >= Len(tokens[r])
                    BY <5>1, Zenon DEF Advanced
                <5>3. x <= RowEnd(q)
                    BY <3>1, <5>1
                <5>4. Len(tokens[r]) \in Nat /\ computed'[r] \in Nat
                    BY <1>2
                <5> QED BY <3>1, <3>2, <5>2, <5>3, <5>4
            <4> QED BY <4>1, <4>2
        <3> QED BY <3>1, <3>3, <3>4, <3>5, Zenon DEF x
    <2>2. 1..Len(batch'.reqs) = {}
        BY <1>1, EmptyFacts
    <2>3. ASSUME NEW r \in Requests, NEW j \in 1..Len(table'[r]),
                 table'[r][j] # 0, content'[table'[r][j]] # <<>>
          PROVE  /\ j * BlockSize <= Len(tokens'[r])
                 /\ content'[table'[r][j]] = SubSeq(tokens'[r], 1, j * BlockSize)
                 /\ ~InBatch(r)' => j * BlockSize <= computed'[r]
                 /\ \A q \in 1..Len(batch'.reqs) : batch'.reqs[q] = r => j * BlockSize <= RowEnd(q)'
        BY <1>1, <2>1, <2>2, <2>3, Zenon
    <2> QED BY <1>0, <1>1, <2>3, Zenon DEF ContentOK
<1>9. SharedOK'
    <2>1. ASSUME NEW r1 \in Requests, NEW r2 \in Requests,
                 NEW j1 \in 1..Len(table'[r1]), NEW j2 \in 1..Len(table'[r2]),
                 r1 # r2, table'[r1][j1] = table'[r2][j2], table'[r1][j1] # 0
          PROVE  /\ content'[table'[r1][j1]] # <<>>
                 /\ j1 * BlockSize <= computed'[r1] \/ j2 * BlockSize <= computed'[r2]
        <3>1. /\ content[table[r1][j1]] # <<>>
              /\ j1 * BlockSize <= computed[r1] \/ j2 * BlockSize <= computed[r2]
            BY <1>0, <1>1, <2>1, Zenon DEF SharedOK
        <3> DEFINE x1 == j1 * BlockSize
                   x2 == j2 * BlockSize
        <3>2. x1 \in Int /\ x2 \in Int
            BY Multiples
        <3>3. x1 <= computed[r1] \/ x2 <= computed[r2]
            BY <3>1
        <3> HIDE DEF x1, x2
        <3>4. x1 <= computed'[r1] \/ x2 <= computed'[r2]
            BY <1>2, <3>2, <3>3
        <3> QED BY <1>1, <3>1, <3>4 DEF x1, x2
    <2> QED BY <2>1, Zenon DEF SharedOK
<1>10. BlocksRight'
    <2>1. \A s \in Slots : Kept(s)
        BY <1>5, Zenon DEF Kept, Right
    <2> QED BY <1>0, <1>1, <2>1, BlocksKept DEF ContentOK
<1>11. TextsRight'
    <2>1. ASSUME NEW r \in Requests, NEW p \in 0..(computed'[r] - 1),
                 status'[r] = "running", BlockAt(r, p)' # 0
          PROVE  Right(SlotOf(r, p), tokens[r][p + 1])'
        <3>1. status[r] = "running" /\ BlockAt(r, p) # 0 /\ SlotOf(r, p)' = SlotOf(r, p)
            BY <1>1, <2>1, Zenon DEF BlockAt, SlotOf
        <3> DEFINE s == SlotOf(r, p)
                   id == tokens'[r][p + 1]
        <3>2. CASE p < computed[r]
            <4>1. p \in 0..(computed[r] - 1)
                BY <1>2, <3>2
            <4>2. Right(s, tokens[r][p + 1])
                BY <1>0, <3>1, <4>1, Zenon DEF TextsRight
            <4>3. tokens[r][p + 1] = id
                <5>1. computed[r] < Len(tokens[r]) /\ computed[r] \in Nat /\ Len(tokens[r]) \in Nat
                    BY <3>1 DEF IInv, RequestsOK
                <5>2. p + 1 \in 1..Len(tokens[r])
                    BY <4>1, <5>1
                <5> QED BY <1>2, <5>2
            <4>4. s \in Slots
                BY <1>0, <3>1, <4>1, SlotOfComputed
            <4> HIDE DEF s, id
            <4>5. s \in Missing' \/ Written'[s] = Compressed(id)
                BY <1>5, <4>2, <4>3, <4>4, Zenon DEF Right
            <4> QED BY <3>1, <4>5, Zenon DEF Right, s, id
        <3>3. CASE ~(p < computed[r])
            <4>0. p \in computed[r]..(computed'[r] - 1)
                BY <1>2, <3>3
            <4>1. InBatch(r)
                <5>1. computed'[r] # computed[r]
                    BY <1>2, <3>3
                <5> QED BY <1>3, <5>1
            <4>2. PICK q \in 1..Len(batch.reqs) : batch.reqs[q] = r /\ Advanced(q, r)
                BY <1>3, <4>1
            <4>3. Written[s] = Compressed(id)
                BY <1>0, <1>4, <4>0, <4>2, ComputedIsWritten
            <4>4. s \in Slots
                <5>1. p \in Nat /\ p < Len(table[r]) * BlockSize
                    <6>1. computed'[r] <= Len(table[r]) * BlockSize /\ table[r] \in Seq(0..NumBlocks)
                        BY <1>1, <1>6, <3>1 DEF TablesOK
                    <6> DEFINE x == Len(table[r]) * BlockSize
                    <6>2. x \in Int /\ computed'[r] <= x
                        BY <6>1, Multiples
                    <6> HIDE DEF x
                    <6>3. p \in Nat /\ p < x
                        BY <1>2, <6>2
                    <6> QED BY <6>3 DEF x
                <5>2. /\ BlockAt(r, p) \in 0..NumBlocks
                      /\ p % BlockSize \in 0..(BlockSize - 1)
                      /\ SlotOf(r, p) = BlockAt(r, p) * BlockSize + (p % BlockSize)
                    BY <1>0, <5>1, BlockOfPosition
                <5> DEFINE b == BlockAt(r, p)
                           o == p % BlockSize
                <5>3. b \in 0..NumBlocks /\ o \in 0..(BlockSize - 1) /\ s = b * BlockSize + o
                    BY <5>2
                <5> HIDE DEF b, o, s
                <5> QED BY <5>3, SlotInRange
            <4> HIDE DEF s, id
            <4>5. Written'[s] = Compressed(id)
                BY <1>5, <4>3, <4>4, Zenon
            <4> QED BY <3>1, <4>5, Zenon DEF Right, s, id
        <3> QED BY <3>2, <3>3
    <2> QED BY <2>1, Zenon DEF TextsRight
<1> QED BY <1>6, <1>7, <1>8, <1>9, <1>10, <1>11 DEF PoolOK
-----------------------------------------------------------------------------
(* A request joins the step *)

\* r joins the step with ids, of which those up to end are known; it has new
\* blocks for them.
JoinsStep(r, ids, end) ==
    /\ status[r] = "running" /\ ~InBatch(r)
    /\ UNCHANGED <<runner, status, tokens, computed, cache, loaded>>
    /\ ids \in Seq(Tokens) /\ Len(ids) \in Nat \ {0}
    /\ computed[r] \in Nat /\ end \in Nat
    /\ computed[r] <= end /\ end <= Len(tokens[r]) /\ end <= computed[r] + Len(ids)
    /\ \A p \in computed[r]..(computed[r] + Len(ids) - 1) :
          p < Len(tokens[r]) => ids[p - computed[r] + 1] = tokens[r][p + 1]
    /\ batch' = WithRow(r, ids, computed[r], table'[r])
    /\ table' \in [Requests -> Seq(0..NumBlocks)]
    /\ Len(table[r]) <= Len(table'[r])
    /\ computed[r] + Len(ids) <= Len(table'[r]) * BlockSize
    /\ \A j \in 1..Len(table'[r]) :
          table'[r][j] # 0 =>
             IF j <= Len(table[r]) THEN table'[r][j] = table[r][j] ELSE table'[r][j] \in Free
    /\ \A j \in 1..Len(table'[r]) : InWindow(j, computed[r]) => table'[r][j] # 0
    /\ \A i, j \in 1..Len(table'[r]) : table'[r][i] = table'[r][j] /\ table'[r][i] # 0 => i = j
    /\ \A r2 \in Requests : r2 # r => table'[r2] = table[r2]
    /\ content' \in [1..NumBlocks -> Seq(Tokens)]
    /\ \A b \in 1..NumBlocks :
          (\A j \in 1..Len(table'[r]) : table'[r][j] # b) => content'[b] = content[b]
    /\ \A j \in 1..Len(table'[r]) : table'[r][j] # 0 =>
          content'[table'[r][j]] =
             IF j * BlockSize <= end THEN SubSeq(tokens[r], 1, j * BlockSize)
             ELSE IF table'[r][j] \in Free THEN <<>> ELSE content[table'[r][j]]

\* The maximum of two integers is one of them.
LEMMA MaxOfTwo ==
    ASSUME NEW a \in Int, NEW b \in Int
    PROVE  Max({a, b}) = IF a >= b THEN a ELSE b
BY DEF Max

LEMMA ScheduleJoins ==
    ASSUME IInv, PoolOK, runner # "v2", NEW r \in Requests, NEW n \in 1..MaxChunk,
           NEW drafts \in BoundedSeq(Generated, MaxDrafts), Schedule(r, n, drafts)
    PROVE  JoinsStep(r, SubSeq(tokens[r], computed[r] + 1, computed[r] + n) \o drafts, computed[r] + n)
<1> DEFINE c     == computed[r]
           end   == c + n
           d     == Len(drafts)
           text  == tokens[r]
           part  == SubSeq(text, c + 1, end)
           ids   == part \o drafts
           total == end + d
           row   == [j \in DOMAIN table[r] |-> IF InWindow(j, c) THEN table[r][j] ELSE 0]
           len   == Max({Len(row), Cdiv(total, BlockSize)})
           new   == (Len(row) + 1)..len
           l     == Len(table[r])
<1>1. n \in Nat \ {0} /\ drafts \in Seq(Tokens) /\ d \in Nat
    BY DraftsAreTokens, BoundAssumption
<1>2. c \in Nat /\ text \in Seq(Tokens) /\ Len(text) \in Nat
    BY DEF IInv, RequestsOK
<1>3. /\ status[r] = "running" /\ ~InBatch(r) /\ end <= Len(text)
      /\ UNCHANGED <<runner, status, tokens, prompt, computed, cache, preempts, loaded>>
      /\ batch' = WithRow(r, ids, c, table'[r])
      /\ drafts # <<>> => end = Len(text)
      /\ Allocate(r, row, len, new, end)
    BY Zenon DEF Schedule
<1>4. end \in Nat /\ c <= end /\ total \in Nat /\ end - c = n
    BY <1>1, <1>2
<1>5. part \in Seq(Tokens) /\ Len(part) = n /\ \A j \in 1..n : part[j] = text[c + j]
    <2> HIDE DEF end, text, c
    <2>1. /\ SubSeq(text, c + 1, end) \in Seq(Tokens) /\ Len(SubSeq(text, c + 1, end)) = end - c
          /\ \A j \in 1..(end - c) : SubSeq(text, c + 1, end)[j] = text[c + j]
        BY <1>2, <1>3, <1>4, PartOf
    <2>2. 1..(end - c) = 1..n
        BY <1>4, Zenon
    <2>3. part = SubSeq(text, c + 1, end)
        OBVIOUS
    <2> HIDE DEF part
    <2>4. part \in Seq(Tokens) /\ Len(part) = n
        BY <1>4, <2>1, <2>3, Zenon
    <2>5. \A j \in 1..n : part[j] = text[c + j]
        BY <2>1, <2>2, <2>3, Zenon
    <2> QED BY <2>4, <2>5
<1>6. ids \in Seq(Tokens) /\ Len(ids) = n + d /\ \A j \in 1..n : ids[j] = part[j]
    <2>1. part \in Seq(Tokens) /\ drafts \in Seq(Tokens) /\ n \in Nat /\ n = Len(part) /\ d \in Nat /\ d = Len(drafts)
        BY <1>1, <1>5
    <2> QED BY ONLY <2>1, Joined
<1> HIDE DEF part, ids
<1>7. ASSUME NEW p \in c..(c + Len(ids) - 1), p < Len(text)
      PROVE  ids[p - c + 1] = text[p + 1]
    <2> DEFINE j == p - c + 1
    <2>1. j \in 1..n /\ c + j = p + 1
        <3>1. p < c + n
            <4>1. CASE drafts = <<>>
                <5>1. d = 0
                    BY <4>1
                <5> QED BY <1>1, <1>2, <1>6, <5>1
            <4>2. CASE drafts # <<>>
                <5>1. Len(text) = c + n
                    BY <1>3, <4>2
                <5> QED BY <1>7, <5>1
            <4> QED BY <4>1, <4>2
        <3>2. p \in Int /\ c <= p
            BY <1>2
        <3> QED BY <1>1, <1>2, <3>1, <3>2
    <2> HIDE DEF j
    <2>2. ids[j] = text[c + j]
        BY <1>5, <1>6, <2>1
    <2> QED BY <2>1, <2>2 DEF j
<1>8. /\ table \in [Requests -> Seq(0..NumBlocks)] /\ content \in [1..NumBlocks -> Seq(Tokens)]
      /\ TablesOK /\ l \in Nat
    BY DEF PoolOK, TablesOK, ContentOK
<1>9. DOMAIN row = 1..l /\ Len(row) = l
    <2>1. DOMAIN table[r] = 1..l
        BY <1>8
    <2>2. DOMAIN row = 1..l
        BY <2>1
    <2>3. row \in [1..l -> 0..NumBlocks]
        <3>1. \A j \in 1..l : table[r][j] \in 0..NumBlocks
            BY <1>8, ElementOfSeq
        <3>2. 0 \in 0..NumBlocks
            BY BlockAssumption
        <3> QED BY <2>1, <3>1, <3>2
    <2> HIDE DEF row
    <2> QED BY <1>8, <2>2, <2>3
<1>10. ASSUME NEW j \in 1..l
       PROVE  /\ row[j] = IF InWindow(j, c) THEN table[r][j] ELSE 0
              /\ row[j] \in 0..NumBlocks /\ row[j] \notin Free
              /\ InWindow(j, c) => row[j] # 0
              /\ row[j] # 0 => row[j] = table[r][j]
    <2>1. row[j] = IF InWindow(j, c) THEN table[r][j] ELSE 0
        BY <1>9
    <2>2. table[r][j] \in 0..NumBlocks /\ (InWindow(j, c) => table[r][j] # 0)
        BY <1>8, ElementOfSeq DEF TablesOK
    <2>3. table[r][j] # 0 => table[r][j] \notin Free
        BY <1>8, HeldIsNotFree
    <2>4. 0 \notin Free /\ 0 \in 0..NumBlocks
        BY BlockAssumption DEF Free
    <2> HIDE DEF row
    <2> QED BY <2>1, <2>2, <2>3, <2>4, Zenon
<1>11. Cdiv(total, BlockSize) \in Nat /\ total <= Cdiv(total, BlockSize) * BlockSize
    BY <1>4, CdivCovers
<1>12. len \in Nat /\ l <= len /\ Cdiv(total, BlockSize) <= len
    <2> DEFINE x == Cdiv(total, BlockSize)
    <2>1. len = Max({l, x})
        BY <1>9, Zenon
    <2> HIDE DEF x, len, l
    <2>2. l \in Int /\ x \in Int /\ l \in Nat /\ x \in Nat
        BY <1>8, <1>11 DEF x, l
    <2>3. len = IF l >= x THEN l ELSE x
        BY <2>1, <2>2, MaxOfTwo
    <2>4. len \in Nat /\ l <= len /\ x <= len
        BY ONLY <2>2, <2>3
    <2> QED BY <2>4 DEF x
<1>13. total <= len * BlockSize
    <2> DEFINE x == Cdiv(total, BlockSize) * BlockSize
               y == len * BlockSize
    <2>1. x \in Int /\ y \in Int /\ x <= y
        BY <1>11, <1>12, Multiples
    <2>2. total <= x /\ total \in Int
        BY <1>4, <1>11
    <2> HIDE DEF x, y, total
    <2>3. total <= y
        BY <2>1, <2>2
    <2> QED BY <2>3 DEF y
<1>14. new \in SUBSET (1..len) /\ \A j \in 1..len : j \in new <=> ~(j <= l)
    <2>1. new = (l + 1)..len
        BY <1>9
    <2> HIDE DEF new, len, l
    <2> QED BY <1>8, <1>12, <2>1 DEF l
<1> HIDE DEF new, len, row
<1>15. \A j \in 1..len : j \notin new => j \in 1..l
    BY <1>8, <1>12, <1>14
<1>16. ASSUME NEW i \in 1..len, NEW j \in 1..len, i \notin new, j \notin new, row[i] = row[j], row[i] # 0
       PROVE  i = j
    <2>1. i \in 1..l /\ j \in 1..l
        BY <1>15, <1>16
    <2>2. table[r][i] = table[r][j] /\ table[r][i] # 0
        BY <1>10, <1>16, <2>1
    <2> QED BY <1>8, <2>1, <2>2, Zenon DEF TablesOK
<1>17. Allocated(r, row, len, new, end)
    <2>1. /\ \A j \in 1..len : j \notin new => row[j] \in 0..NumBlocks
          /\ \A j \in 1..len : j \notin new => row[j] \notin Free
        BY <1>10, <1>15
    <2>2. \A i, j \in 1..len : i \notin new /\ j \notin new /\ row[i] = row[j] /\ row[i] # 0 => i = j
        BY <1>16
    <2> HIDE DEF end
    <2> QED BY <1>2, <1>3, <1>4, <1>8, <1>12, <1>14, <2>1, <2>2, AllocateFacts DEF text
<1> DEFINE T == table'[r]
<1>18. /\ table' \in [Requests -> Seq(0..NumBlocks)]
       /\ Len(T) = len
       /\ \A j \in 1..len : j \notin new => T[j] = row[j]
       /\ \A j \in new : T[j] \in Free
       /\ \A i, j \in 1..len : T[i] = T[j] /\ T[i] # 0 => i = j
       /\ \A r2 \in Requests : r2 # r => table'[r2] = table[r2]
       /\ content' \in [1..NumBlocks -> Seq(Tokens)]
       /\ \A b \in 1..NumBlocks : (\A j \in 1..len : T[j] # b) => content'[b] = content[b]
       /\ \A j \in 1..len : T[j] # 0 =>
             content'[T[j]] = IF j * BlockSize <= end THEN SubSeq(tokens[r], 1, j * BlockSize)
                              ELSE IF T[j] \in Free THEN <<>> ELSE content[T[j]]
    BY <1>17, Zenon DEF Allocated
<1> HIDE DEF T
<1>19. \A j \in 1..len :
          /\ T[j] # 0 => IF j <= l THEN T[j] = table[r][j] ELSE T[j] \in Free
          /\ InWindow(j, c) => T[j] # 0
    <2>1. SUFFICES ASSUME NEW j \in 1..len
                   PROVE  /\ T[j] # 0 => IF j <= l THEN T[j] = table[r][j] ELSE T[j] \in Free
                          /\ InWindow(j, c) => T[j] # 0
        OBVIOUS
    <2>2. CASE j \in new
        <3>1. T[j] \in Free /\ ~(j <= l)
            BY <1>14, <1>18, <2>2
        <3>2. 0 \notin Free
            BY DEF Free
        <3> QED BY <3>1, <3>2
    <2>3. CASE j \notin new
        <3>1. T[j] = row[j] /\ j <= l /\ j \in 1..l
            BY <1>14, <1>15, <1>18, <2>3
        <3> QED BY <1>10, <3>1
    <2> QED BY <2>2, <2>3
<1>20. /\ Len(ids) \in Nat \ {0} /\ end <= c + Len(ids) /\ c + Len(ids) = total
    <2>1. n + d \in Nat \ {0} /\ c + n <= c + (n + d) /\ c + (n + d) = c + n + d
        BY <1>1, <1>2
    <2> QED BY <1>6, <2>1, Zenon
<1>21. c + Len(ids) <= Len(T) * BlockSize /\ l <= Len(T)
    <2> HIDE DEF total
    <2> QED BY <1>12, <1>13, <1>18, <1>20, Zenon
<1> HIDE DEF end, total
<1>22. JoinsStep(r, ids, end)
    BY <1>2, <1>3, <1>4, <1>6, <1>7, <1>18, <1>19, <1>20, <1>21, Zenon DEF JoinsStep, T, l, c, text
<1> QED BY <1>22, Zenon DEF ids, part, end, c, text

\* The slot of a position r is scheduled for.
NewSlot(r, p) == SlotOf(r, p)'

\* The step has a row more, of k tokens of r; the others are as they were.
StepGrows(r, ids, m, N, k) ==
    /\ m = Len(batch.reqs) /\ m \in Nat /\ N = NumTokens /\ N \in Nat /\ k = Len(ids)
    /\ Len(batch'.reqs) = m + 1 /\ batch'.reqs[m + 1] = r
    /\ \A q \in 1..m : batch'.reqs[q] = batch.reqs[q]
    /\ \A q \in 1..(m + 1) : batch'.query_start_loc[q] = batch.query_start_loc[q]
    /\ batch'.query_start_loc[m + 1] = N /\ batch'.query_start_loc[m + 2] = N + k
    /\ NumTokens' = N + k
    /\ batch'.slot_mapping \in Seq(Slots) /\ Len(batch'.slot_mapping) = N + k
    /\ \A i \in 0..(N - 1) :
          /\ batch'.positions[i + 1] = batch.positions[i + 1]
          /\ batch'.input_ids[i + 1] = batch.input_ids[i + 1]
          /\ batch'.slot_mapping[i + 1] = batch.slot_mapping[i + 1]
    /\ \A p \in computed[r]..(computed[r] + k - 1) :
          /\ batch'.positions[N + (p - computed[r]) + 1] = p
          /\ batch'.input_ids[N + (p - computed[r]) + 1] = ids[p - computed[r] + 1]
          /\ batch'.slot_mapping[N + (p - computed[r]) + 1] = NewSlot(r, p)

\* A new slot lies in a block of r that is not complete.
LEMMA NewSlotFacts ==
    ASSUME IInv, NEW r \in Requests, NEW ids, NEW end, JoinsStep(r, ids, end),
           NEW p \in computed[r]..(computed[r] + Len(ids) - 1)
    PROVE  /\ p \in Nat
           /\ PlaceOf(p) \in 1..Len(table'[r])
           /\ p % BlockSize \in 0..(BlockSize - 1)
           /\ p = (PlaceOf(p) - 1) * BlockSize + (p % BlockSize)
           /\ computed[r] < PlaceOf(p) * BlockSize
           /\ table'[r][PlaceOf(p)] \in 1..NumBlocks
           /\ NewSlot(r, p) = table'[r][PlaceOf(p)] * BlockSize + (p % BlockSize)
           /\ NewSlot(r, p) \in Slots
<1> DEFINE c == computed[r]
           L == Len(table'[r])
           y == L * BlockSize
           j == PlaceOf(p)
           o == p % BlockSize
           b == table'[r][j]
<1>1. /\ c \in Nat /\ Len(ids) \in Nat /\ c + Len(ids) <= y
      /\ table' \in [Requests -> Seq(0..NumBlocks)]
      /\ \A i \in 1..L : InWindow(i, c) => table'[r][i] # 0
    BY Zenon DEF JoinsStep
<1>2. L \in Nat /\ y \in Int
    <2>1. L \in Nat
        BY <1>1
    <2>2. L \in Int
        BY <2>1
    <2> HIDE DEF L
    <2>3. L * BlockSize \in Int
        BY <2>2, Multiples
    <2> QED BY <2>1, <2>3 DEF L
<1> HIDE DEF y
<1>3. p \in Nat /\ c <= p /\ p < y
    BY <1>1, <1>2
<1>4. j \in Nat \ {0} /\ o \in 0..(BlockSize - 1) /\ p = (j - 1) * BlockSize + o /\ p < j * BlockSize
    BY <1>3, PlaceFacts
<1>5. j \in 1..L
    <2>1. j <= L
        <3>1. p < L * BlockSize
            BY <1>3 DEF y
        <3>2. L \in Int /\ p \in Nat
            BY <1>2, <1>3
        <3> HIDE DEF L
        <3> QED BY <3>1, <3>2, PlaceWithin
    <2> HIDE DEF j, L
    <2> QED BY <1>2, <1>4, <2>1
<1>6. c < j * BlockSize
    <2> DEFINE x == j * BlockSize
    <2>1. x \in Int /\ p < x
        BY <1>4, Multiples
    <2> HIDE DEF x
    <2>2. c < x
        BY <1>1, <1>3, <2>1
    <2> QED BY <2>2 DEF x
<1>7. b # 0
    <2>1. InWindow(j, c)
        BY <1>1, <1>4, <1>6, InOwnWindow
    <2> QED BY <1>1, <1>5, <2>1, Zenon
<1>8. b \in 0..NumBlocks
    <2>1. table'[r] \in Seq(0..NumBlocks)
        BY <1>1
    <2> QED BY <1>5, <2>1, ElementOfSeq
<1>9. b \in 1..NumBlocks
    BY <1>7, <1>8, BlockAssumption
<1>10. NewSlot(r, p) = b * BlockSize + o
    BY Zenon DEF NewSlot, SlotOf, PlaceOf
<1>11. b * BlockSize + o \in Slots
    <2> HIDE DEF b, o
    <2> QED BY <1>4, <1>8, SlotInRange
<1> QED BY <1>3, <1>4, <1>5, <1>6, <1>9, <1>10, <1>11, Zenon

LEMMA RowGrows ==
    ASSUME IInv, PoolOK, runner # "v2", NEW r \in Requests, NEW ids, NEW end, JoinsStep(r, ids, end)
    PROVE  StepGrows(r, ids, Len(batch.reqs), NumTokens, Len(ids))
<1> DEFINE c     == computed[r]
           m     == Len(batch.reqs)
           N     == NumTokens
           k     == Len(ids)
           loc   == batch.query_start_loc
           here  == [j \in 1..k |-> c + j - 1]
           Slot(p) == table'[r][(p \div BlockSize) + 1] * BlockSize + (p % BlockSize)
           slots == [j \in DOMAIN here |-> Slot(here[j])]
<1>1. /\ ids \in Seq(Tokens) /\ k \in Nat \ {0} /\ c \in Nat
      /\ batch' = WithRow(r, ids, c, table'[r])
      /\ UNCHANGED <<runner, status, tokens, computed, cache, loaded>>
    BY Zenon DEF JoinsStep
<1>2. /\ batch'.reqs = Append(batch.reqs, r)
      /\ batch'.input_ids = batch.input_ids \o ids
      /\ batch'.positions = batch.positions \o here
      /\ batch'.slot_mapping = batch.slot_mapping \o slots
      /\ batch'.query_start_loc = Append(loc, N + k)
    BY <1>1 DEF WithRow
<1>3. /\ m \in Nat /\ loc \in Seq(Nat) /\ Len(loc) = m + 1
      /\ batch.reqs \in Seq(Requests) /\ batch.input_ids \in Seq(Tokens) /\ batch.positions \in Seq(Nat)
      /\ batch.slot_mapping \in Seq(Slots) /\ Len(batch.slot_mapping) = N
      /\ N = Len(batch.input_ids) /\ N \in Nat
      /\ loc[m + 1] = N /\ Len(batch.positions) = N
    BY DEF IInv, RowsOK, PositionsOK, PoolOK, StepOK, NumTokens
<1>4. DOMAIN here = 1..k /\ \A j \in 1..k : here[j] = c + j - 1
    OBVIOUS
<1>5. here \in Seq(Nat) /\ Len(here) = k
    <2>1. \A j \in 1..k : c + j - 1 \in Nat
        BY <1>1
    <2>2. here \in [1..k -> Nat]
        BY <2>1
    <2> QED BY <1>1, <2>2
<1> HIDE DEF here
<1>6. \A j \in 1..k : slots[j] = Slot(c + j - 1)
    BY <1>4
<1>7. \A p \in c..(c + k - 1) : Slot(p) = NewSlot(r, p) /\ Slot(p) \in Slots
    <2>1. SUFFICES ASSUME NEW p \in c..(c + k - 1) PROVE Slot(p) = NewSlot(r, p) /\ Slot(p) \in Slots
        OBVIOUS
    <2>2. Slot(p) = NewSlot(r, p)
        BY Zenon DEF NewSlot, SlotOf
    <2>3. NewSlot(r, p) \in Slots
        BY NewSlotFacts
    <2> HIDE DEF Slot
    <2> QED BY <2>2, <2>3
<1> HIDE DEF Slot
<1>8. slots \in Seq(Slots) /\ Len(slots) = k
    <2>1. \A j \in 1..k : c + j - 1 \in c..(c + k - 1)
        BY <1>1
    <2>2. \A j \in 1..k : Slot(here[j]) \in Slots
        BY <1>4, <1>7, <2>1
    <2>3. slots \in [1..k -> Slots]
        BY <1>4, <2>2
    <2> HIDE DEF slots
    <2> QED BY <1>1, <2>3
<1> HIDE DEF slots
<1>9. k \in Nat /\ k = Len(ids) /\ k = Len(here) /\ k = Len(slots)
    BY <1>1, <1>5, <1>8
<1>10. /\ \A j \in 1..N : batch'.input_ids[j] = batch.input_ids[j]
       /\ \A j \in 1..k : batch'.input_ids[N + j] = ids[j]
       /\ NumTokens' = N + k
    <2>1. /\ batch.input_ids \in Seq(Tokens) /\ ids \in Seq(Tokens) /\ N \in Nat /\ N = Len(batch.input_ids)
          /\ k \in Nat /\ k = Len(ids)
        BY <1>1, <1>3, <1>9, Zenon
    <2> HIDE DEF N, k
    <2>2. Len(batch.input_ids \o ids) = N + k
        BY ONLY <2>1, Joined
    <2>3. \A j \in 1..N : (batch.input_ids \o ids)[j] = batch.input_ids[j]
        BY ONLY <2>1, Joined
    <2>4. \A j \in 1..k : (batch.input_ids \o ids)[N + j] = ids[j]
        BY ONLY <2>1, Joined
    <2>5. Len(batch'.input_ids) = N + k
        BY <1>2, <2>2, Zenon
    <2> QED BY <1>2, <2>3, <2>4, <2>5, Zenon DEF NumTokens
<1>11. /\ \A j \in 1..N : batch'.positions[j] = batch.positions[j]
       /\ \A j \in 1..k : batch'.positions[N + j] = here[j]
    <2>1. /\ batch.positions \in Seq(Nat) /\ here \in Seq(Nat) /\ N \in Nat /\ N = Len(batch.positions)
          /\ k \in Nat /\ k = Len(here)
        BY <1>3, <1>5, <1>9, Zenon
    <2> HIDE DEF N, k
    <2>3. \A j \in 1..N : (batch.positions \o here)[j] = batch.positions[j]
        BY ONLY <2>1, Joined
    <2>4. \A j \in 1..k : (batch.positions \o here)[N + j] = here[j]
        BY ONLY <2>1, Joined
    <2> QED BY <1>2, <2>3, <2>4, Zenon
<1>12. /\ \A j \in 1..N : batch'.slot_mapping[j] = batch.slot_mapping[j]
       /\ \A j \in 1..k : batch'.slot_mapping[N + j] = slots[j]
       /\ batch'.slot_mapping \in Seq(Slots) /\ Len(batch'.slot_mapping) = N + k
    <2>1. /\ batch.slot_mapping \in Seq(Slots) /\ slots \in Seq(Slots) /\ N \in Nat
          /\ N = Len(batch.slot_mapping) /\ k \in Nat /\ k = Len(slots)
        BY <1>3, <1>8, <1>9, Zenon
    <2> HIDE DEF N, k
    <2>2. batch.slot_mapping \o slots \in Seq(Slots) /\ Len(batch.slot_mapping \o slots) = N + k
        BY ONLY <2>1, Joined
    <2>3. \A j \in 1..N : (batch.slot_mapping \o slots)[j] = batch.slot_mapping[j]
        BY ONLY <2>1, Joined
    <2>4. \A j \in 1..k : (batch.slot_mapping \o slots)[N + j] = slots[j]
        BY ONLY <2>1, Joined
    <2> QED BY <1>2, <2>2, <2>3, <2>4, Zenon
<1>13. /\ Len(batch'.reqs) = m + 1 /\ batch'.reqs[m + 1] = r
       /\ \A q \in 1..m : batch'.reqs[q] = batch.reqs[q]
    BY <1>2, <1>3
<1>14. /\ \A q \in 1..(m + 1) : batch'.query_start_loc[q] = loc[q]
       /\ batch'.query_start_loc[m + 1] = N /\ batch'.query_start_loc[m + 2] = N + k
    <2>1. N + k \in Nat
        BY <1>1, <1>3
    <2> DEFINE new == batch'.query_start_loc
               x == N + k
    <2>2. /\ loc \in Seq(Nat) /\ Len(loc) = m + 1 /\ m \in Nat /\ loc[m + 1] = N
          /\ x \in Nat /\ new = Append(loc, x)
        BY <1>2, <1>3, <2>1, Zenon
    <2> HIDE DEF new, x, loc, m, N
    <2>3. (\A q \in 1..(m + 1) : new[q] = loc[q]) /\ new[m + 2] = x
        BY ONLY <2>2
    <2>4. new[m + 1] = N
        BY ONLY <2>2, <2>3
    <2> QED BY <2>3, <2>4, Zenon DEF new, x
<1>15. ASSUME NEW i \in 0..(N - 1)
       PROVE  /\ batch'.positions[i + 1] = batch.positions[i + 1]
              /\ batch'.input_ids[i + 1] = batch.input_ids[i + 1]
              /\ batch'.slot_mapping[i + 1] = batch.slot_mapping[i + 1]
    <2>1. i + 1 \in 1..N
        BY <1>3
    <2> QED BY <1>10, <1>11, <1>12, <2>1, Zenon
<1>16. ASSUME NEW p \in c..(c + k - 1)
       PROVE  /\ batch'.positions[N + (p - c) + 1] = p
              /\ batch'.input_ids[N + (p - c) + 1] = ids[p - c + 1]
              /\ batch'.slot_mapping[N + (p - c) + 1] = NewSlot(r, p)
    <2> DEFINE j == p - c + 1
    <2>0. k \in Int /\ N \in Int /\ c \in Int /\ p \in c..(c + k - 1)
        BY <1>1, <1>3
    <2> HIDE DEF c, k, N
    <2>1. j \in 1..k /\ N + j = N + (p - c) + 1 /\ c + j - 1 = p
        BY ONLY <2>0
    <2> HIDE DEF j
    <2>2. /\ batch'.positions[N + j] = here[j] /\ batch'.input_ids[N + j] = ids[j]
          /\ batch'.slot_mapping[N + j] = slots[j]
        BY <1>10, <1>11, <1>12, <2>1, Zenon
    <2>3. here[j] = p /\ slots[j] = NewSlot(r, p)
        <3>1. here[j] = c + j - 1 /\ slots[j] = Slot(c + j - 1)
            BY <1>4, <1>6, <2>1, Zenon
        <3>2. slots[j] = Slot(p)
            BY <2>1, <3>1, Zenon
        <3> QED BY <1>7, <2>1, <3>1, <3>2, Zenon
    <2>4. batch'.positions[N + j] = p /\ batch'.slot_mapping[N + j] = NewSlot(r, p)
        BY <2>2, <2>3, Zenon
    <2>5. batch'.input_ids[N + j] = ids[p - c + 1]
        BY <2>2, Zenon DEF j
    <2> DEFINE x == N + (p - c) + 1
    <2>6. N + j = x
        BY <2>1
    <2> HIDE DEF x
    <2>7. batch'.positions[x] = p /\ batch'.slot_mapping[x] = NewSlot(r, p)
          /\ batch'.input_ids[x] = ids[p - c + 1]
        BY <2>4, <2>5, <2>6, Zenon
    <2> QED BY <2>7, Zenon DEF x
<1> QED BY <1>3, <1>10, <1>12, <1>13, <1>14, <1>15, <1>16, Zenon DEF StepGrows

\* The step with a row more is well-formed.
LEMMA StepJoined ==
    ASSUME IInv, PoolOK, runner # "v2", NEW r \in Requests, NEW ids, NEW end, JoinsStep(r, ids, end)
    PROVE  StepOK' /\ \E q \in 1..Len(batch'.reqs) : batch'.reqs[q] = r
<1> DEFINE c   == computed[r]
           m   == Len(batch.reqs)
           N   == NumTokens
           k   == Len(ids)
           loc == batch.query_start_loc
           L   == Len(table'[r])
<1>1. StepGrows(r, ids, m, N, k)
    BY RowGrows
<1> HIDE DEF m, N, k
<1>2. /\ m = Len(batch.reqs) /\ m \in Nat /\ N = NumTokens /\ N \in Nat /\ k = Len(ids)
      /\ Len(batch'.reqs) = m + 1 /\ batch'.reqs[m + 1] = r
      /\ \A q \in 1..m : batch'.reqs[q] = batch.reqs[q]
      /\ \A q \in 1..(m + 1) : batch'.query_start_loc[q] = loc[q]
      /\ batch'.query_start_loc[m + 1] = N /\ batch'.query_start_loc[m + 2] = N + k
      /\ NumTokens' = N + k
      /\ batch'.slot_mapping \in Seq(Slots) /\ Len(batch'.slot_mapping) = N + k
      /\ \A i \in 0..(N - 1) :
            /\ batch'.positions[i + 1] = batch.positions[i + 1]
            /\ batch'.input_ids[i + 1] = batch.input_ids[i + 1]
            /\ batch'.slot_mapping[i + 1] = batch.slot_mapping[i + 1]
      /\ \A p \in c..(c + k - 1) :
            /\ batch'.positions[N + (p - c) + 1] = p
            /\ batch'.input_ids[N + (p - c) + 1] = ids[p - c + 1]
            /\ batch'.slot_mapping[N + (p - c) + 1] = NewSlot(r, p)
    BY <1>1, Zenon DEF StepGrows
<1>3. /\ ~InBatch(r) /\ UNCHANGED <<status, tokens, computed>>
      /\ k \in Nat \ {0} /\ c \in Nat /\ c + k <= L * BlockSize
      /\ \A p \in c..(c + k - 1) : p < Len(tokens[r]) => ids[p - c + 1] = tokens[r][p + 1]
      /\ \A r2 \in Requests : r2 # r => table'[r2] = table[r2]
    BY Zenon DEF JoinsStep, k
<1>4. \A q \in 1..m : /\ batch.reqs[q] \in Requests /\ batch.reqs[q] # r
                      /\ loc[q] \in Nat /\ loc[q + 1] \in Nat /\ loc[q + 1] <= N
    BY <1>2, <1>3, RowsOfOthers, RowEnds DEF IInv
<1>5. /\ \A q1, q2 \in 1..m : batch.reqs[q1] = batch.reqs[q2] => q1 = q2
      /\ \A q \in 1..m :
            /\ RowEnd(q) <= Len(table[batch.reqs[q]]) * BlockSize
            /\ \A i \in loc[q]..(loc[q + 1] - 1) :
                  /\ batch.slot_mapping[i + 1] = SlotOf(batch.reqs[q], Position(i))
                  /\ Position(i) < Len(tokens[batch.reqs[q]]) =>
                        batch.input_ids[i + 1] = tokens[batch.reqs[q]][Position(i) + 1]
    BY <1>2, Zenon DEF PoolOK, StepOK
<1>6. \A q \in 1..(m + 1) : q = m + 1 \/ (q \in 1..m /\ q + 1 \in 1..(m + 1) /\ q \in 1..(m + 1))
    BY <1>2
<1>7. m + 1 \in 1..(m + 1) /\ m + 1 + 1 = m + 2
    BY <1>2
<1> HIDE DEF loc, c, L
<1>8. ASSUME NEW q1 \in 1..(m + 1), NEW q2 \in 1..(m + 1), batch'.reqs[q1] = batch'.reqs[q2]
      PROVE  q1 = q2
    <2>1. CASE q1 = m + 1 /\ q2 = m + 1
        BY <2>1
    <2>2. CASE q1 # m + 1 /\ q2 # m + 1
        BY <1>2, <1>5, <1>6, <1>8, <2>2, Zenon
    <2>3. CASE q1 # m + 1 /\ q2 = m + 1
        BY <1>2, <1>4, <1>6, <1>8, <2>3, Zenon
    <2>4. CASE q1 = m + 1 /\ q2 # m + 1
        BY <1>2, <1>4, <1>6, <1>8, <2>4, Zenon
    <2> QED BY <2>1, <2>2, <2>3, <2>4
<1>9. ASSUME NEW q \in 1..(m + 1)
      PROVE  /\ RowEnd(q)' <= Len(table'[batch'.reqs[q]]) * BlockSize
             /\ \A i \in batch'.query_start_loc[q]..(batch'.query_start_loc[q + 1] - 1) :
                   /\ batch'.slot_mapping[i + 1] = SlotOf(batch.reqs[q], Position(i))'
                   /\ Position(i)' < Len(tokens'[batch'.reqs[q]]) =>
                         batch'.input_ids[i + 1] = tokens'[batch'.reqs[q]][Position(i)' + 1]
    <2>1. CASE q = m + 1
        <3>1. /\ batch'.reqs[q] = r /\ batch'.query_start_loc[q] = N
              /\ batch'.query_start_loc[q + 1] = N + k
            BY <1>2, <1>7, <2>1, Zenon
        <3>2. RowEnd(q)' = c + k
            <4>1. RowEnd(q)' = computed'[r] + ((N + k) - N)
                BY <3>1, Zenon DEF RowEnd
            <4>2. computed'[r] = c
                BY <1>3 DEF c
            <4>3. c + ((N + k) - N) = c + k
                BY <1>2, <1>3
            <4> QED BY <4>1, <4>2, <4>3, Zenon
        <3>3. ASSUME NEW i \in N..(N + k - 1)
              PROVE  /\ batch'.slot_mapping[i + 1] = SlotOf(batch.reqs[q], Position(i))'
                     /\ Position(i)' < Len(tokens'[batch'.reqs[q]]) =>
                           batch'.input_ids[i + 1] = tokens'[batch'.reqs[q]][Position(i)' + 1]
            <4>00. k \in Int /\ N \in Int /\ c \in Int /\ i \in N..(N + k - 1)
                BY <1>2, <1>3
            <4>0. PICK p \in c..(c + k - 1) : p = c + (i - N)
                <5>1. c + (i - N) \in c..(c + k - 1)
                    BY ONLY <4>00
                <5> QED BY <5>1, Zenon
            <4>1. N + (p - c) + 1 = i + 1
                BY ONLY <4>00, <4>0
            <4>2. /\ batch'.positions[i + 1] = p
                  /\ batch'.input_ids[i + 1] = ids[p - c + 1]
                  /\ batch'.slot_mapping[i + 1] = NewSlot(r, p)
                <5> DEFINE z == N + (p - c) + 1
                <5>1. z = i + 1
                    BY <4>1
                <5>2. /\ batch'.positions[z] = p /\ batch'.input_ids[z] = ids[p - c + 1]
                      /\ batch'.slot_mapping[z] = NewSlot(r, p)
                    BY <1>2, <4>1, Zenon
                <5> HIDE DEF z
                <5> QED BY <5>1, <5>2, Zenon
            <4>3. Position(i)' = p
                BY <4>2, Zenon DEF Position
            <4>4. SlotOf(batch.reqs[q], Position(i))' = NewSlot(r, p)
                <5> DEFINE s == batch'.reqs[q]
                           y == Position(i)'
                <5>1. SlotOf(batch.reqs[q], Position(i))' =
                         table'[s][(y \div BlockSize) + 1] * BlockSize + (y % BlockSize)
                    BY Zenon DEF SlotOf
                <5>2. s = r /\ y = p
                    BY <3>1, <4>3
                <5>3. NewSlot(r, p) = table'[r][(p \div BlockSize) + 1] * BlockSize + (p % BlockSize)
                    BY Zenon DEF NewSlot, SlotOf
                <5> HIDE DEF s, y
                <5> QED BY <5>1, <5>2, <5>3, Zenon
            <4>5. p < Len(tokens[r]) => batch'.input_ids[i + 1] = tokens[r][p + 1]
                BY <1>3, <4>1, <4>2, Zenon
            <4> QED BY <1>3, <3>1, <4>2, <4>3, <4>4, <4>5, Zenon
        <3>4. batch'.query_start_loc[q]..(batch'.query_start_loc[q + 1] - 1) = N..(N + k - 1)
            <4> DEFINE u == batch'.query_start_loc[q]
                       v == batch'.query_start_loc[q + 1]
            <4>1. u = N /\ v = N + k
                BY <3>1
            <4> HIDE DEF u, v
            <4>2. u..(v - 1) = N..(N + k - 1)
                <5>1. k \in Int /\ N \in Int
                    BY <1>2, <1>3
                <5> QED BY ONLY <4>1, <5>1
            <4> QED BY <4>2, Zenon DEF u, v
        <3>5. RowEnd(q)' <= Len(table'[batch'.reqs[q]]) * BlockSize
            BY <1>3, <3>1, <3>2, Zenon DEF L
        <3> QED BY <3>3, <3>4, <3>5, Zenon
    <2>2. CASE q # m + 1
        <3>1. q \in 1..m /\ q \in 1..(m + 1) /\ q + 1 \in 1..(m + 1)
            BY <1>6, <2>2, Zenon
        <3> DEFINE r2 == batch.reqs[q]
        <3>2. /\ batch'.reqs[q] = r2 /\ batch'.query_start_loc[q] = loc[q]
              /\ batch'.query_start_loc[q + 1] = loc[q + 1]
              /\ table'[r2] = table[r2] /\ tokens' = tokens /\ computed' = computed
            BY <1>2, <1>3, <1>4, <3>1, Zenon
        <3>3. RowEnd(q)' = RowEnd(q)
            BY <3>2, Zenon DEF RowEnd, loc
        <3>4. ASSUME NEW i \in loc[q]..(loc[q + 1] - 1)
              PROVE  /\ batch'.slot_mapping[i + 1] = SlotOf(batch.reqs[q], Position(i))'
                     /\ Position(i)' < Len(tokens'[batch'.reqs[q]]) =>
                           batch'.input_ids[i + 1] = tokens'[batch'.reqs[q]][Position(i)' + 1]
            <4>1. i \in 0..(N - 1)
                BY <1>2, <1>4, <3>1
            <4>2. Position(i)' = Position(i)
                BY <1>2, <4>1, Zenon DEF Position
            <4>3. SlotOf(batch.reqs[q], Position(i))' = SlotOf(r2, Position(i))
                BY <3>2, <4>2, Zenon DEF SlotOf
            <4>4. /\ batch'.input_ids[i + 1] = batch.input_ids[i + 1]
                  /\ batch'.slot_mapping[i + 1] = batch.slot_mapping[i + 1]
                BY <1>2, <4>1, Zenon
            <4>5. /\ batch.slot_mapping[i + 1] = SlotOf(r2, Position(i))
                  /\ Position(i) < Len(tokens[r2]) => batch.input_ids[i + 1] = tokens[r2][Position(i) + 1]
                BY <1>5, <3>1, Zenon
            <4>6. tokens'[batch'.reqs[q]] = tokens[r2]
                BY <3>2, Zenon
            <4> QED BY <4>2, <4>3, <4>4, <4>5, <4>6, Zenon
        <3> QED BY <1>5, <3>1, <3>2, <3>3, <3>4, Zenon
    <2> QED BY <2>1, <2>2
<1>10. StepOK'
    BY <1>2, <1>8, <1>9, Zenon DEF StepOK
<1>11. \E q \in 1..Len(batch'.reqs) : batch'.reqs[q] = r
    BY <1>2, <1>7, Zenon
<1> QED BY <1>10, <1>11

\* What becomes of the blocks of other requests, and which of r are filled.
LEMMA ContentJoined ==
    ASSUME IInv, PoolOK, runner # "v2", NEW r \in Requests, NEW ids, NEW end, JoinsStep(r, ids, end)
    PROVE  /\ \A r2 \in Requests : \A j \in 1..Len(table[r2]) :
                 r2 # r /\ table[r2][j] # 0 => content'[table[r2][j]] = content[table[r2][j]]
           /\ \A j \in 1..Len(table'[r]) : table'[r][j] # 0 /\ content'[table'[r][j]] # <<>> =>
                 j * BlockSize <= end /\ content'[table'[r][j]] = SubSeq(tokens[r], 1, j * BlockSize)
           /\ \A r2 \in Requests : \A j \in 1..Len(table'[r]), j2 \in 1..Len(table[r2]) :
                 r2 # r /\ table'[r][j] = table[r2][j2] /\ table'[r][j] # 0 =>
                    /\ j \in 1..Len(table[r]) /\ table[r][j] = table'[r][j]
                    /\ content[table[r][j]] # <<>> /\ j * BlockSize <= computed[r]
<1> DEFINE c == computed[r]
           T == table'[r]
<1>1. TablesOK /\ ContentOK /\ SharedOK
    BY DEF PoolOK
<1>2. /\ ~InBatch(r) /\ c \in Nat /\ end \in Nat /\ c <= end
      /\ table' \in [Requests -> Seq(0..NumBlocks)]
      /\ \A j \in 1..Len(T) :
            T[j] # 0 => IF j <= Len(table[r]) THEN T[j] = table[r][j] ELSE T[j] \in Free
      /\ \A b \in 1..NumBlocks : (\A j \in 1..Len(T) : T[j] # b) => content'[b] = content[b]
      /\ \A j \in 1..Len(T) : T[j] # 0 =>
            content'[T[j]] =
               IF j * BlockSize <= end THEN SubSeq(tokens[r], 1, j * BlockSize)
               ELSE IF T[j] \in Free THEN <<>> ELSE content[T[j]]
    BY Zenon DEF JoinsStep
<1>3. table \in [Requests -> Seq(0..NumBlocks)] /\ Len(table[r]) \in Nat
    BY <1>1 DEF TablesOK
<1> HIDE DEF T, c
<1>4. ASSUME NEW j \in 1..Len(table[r]), table[r][j] # 0, content[table[r][j]] # <<>>
      PROVE  /\ content[table[r][j]] = SubSeq(tokens[r], 1, j * BlockSize)
             /\ j * BlockSize <= c /\ j * BlockSize <= end
    <2> DEFINE x == j * BlockSize
    <2>1. content[table[r][j]] = SubSeq(tokens[r], 1, x) /\ x <= c
        BY <1>1, <1>2, <1>4, Zenon DEF ContentOK, c
    <2>2. x \in Int
        BY Multiples
    <2> HIDE DEF x
    <2>3. x <= end
        BY <1>2, <2>1, <2>2
    <2> QED BY <2>1, <2>3 DEF x
<1>5. ASSUME NEW j \in 1..Len(T), T[j] # 0, T[j] \notin Free
      PROVE  j \in 1..Len(table[r]) /\ table[r][j] = T[j]
    <2>1. j <= Len(table[r]) /\ T[j] = table[r][j]
        BY <1>2, <1>5, Zenon
    <2>2. T \in Seq(0..NumBlocks)
        BY <1>2 DEF T
    <2> QED BY <1>3, <2>1, <2>2
<1>6. ASSUME NEW r2 \in Requests, r2 # r, NEW j2 \in 1..Len(table[r2]), NEW j \in 1..Len(T),
             T[j] = table[r2][j2], T[j] # 0
      PROVE  /\ j \in 1..Len(table[r]) /\ table[r][j] = T[j]
             /\ content[table[r][j]] # <<>> /\ j * BlockSize <= c
    <2>1. T[j] \notin Free
        BY <1>1, <1>6, HeldIsNotFree
    <2>2. j \in 1..Len(table[r]) /\ table[r][j] = T[j]
        BY <1>5, <1>6, <2>1
    <2>3. content[table[r][j]] # <<>>
        BY <1>1, <1>6, <2>2, Zenon DEF SharedOK
    <2> QED BY <1>4, <1>6, <2>2, <2>3
<1>7. ASSUME NEW r2 \in Requests, r2 # r, NEW j2 \in 1..Len(table[r2]), table[r2][j2] # 0
      PROVE  content'[table[r2][j2]] = content[table[r2][j2]]
    <2> DEFINE b == table[r2][j2]
    <2>1. b \in 1..NumBlocks
        BY <1>1, <1>7, HeldIsNotFree
    <2>2. CASE \E j \in 1..Len(T) : T[j] = b
        <3>1. PICK j \in 1..Len(T) : T[j] = b
            BY <2>2
        <3>2. /\ j \in 1..Len(table[r]) /\ table[r][j] = T[j] /\ content[table[r][j]] # <<>>
            BY <1>6, <1>7, <3>1
        <3>3. content[b] = SubSeq(tokens[r], 1, j * BlockSize) /\ j * BlockSize <= end
            <4>1. table[r][j] = b /\ table[r][j] # 0
                BY <1>7, <3>1, <3>2
            <4> QED BY <1>4, <3>2, <4>1
        <3>4. content'[b] = SubSeq(tokens[r], 1, j * BlockSize)
            BY <1>2, <1>7, <3>1, <3>3, Zenon
        <3> QED BY <3>3, <3>4
    <2> QED BY <1>2, <2>1, <2>2
<1>8. ASSUME NEW j \in 1..Len(T), T[j] # 0, content'[T[j]] # <<>>
      PROVE  j * BlockSize <= end /\ content'[T[j]] = SubSeq(tokens[r], 1, j * BlockSize)
    <2>1. CASE j * BlockSize <= end
        BY <1>2, <1>8, <2>1, Zenon
    <2>2. CASE ~(j * BlockSize <= end)
        <3>1. T[j] \notin Free /\ content'[T[j]] = content[T[j]]
            BY <1>2, <1>8, <2>2, Zenon
        <3>2. j \in 1..Len(table[r]) /\ table[r][j] = T[j]
            BY <1>5, <1>8, <3>1
        <3>3. j * BlockSize <= end
            BY <1>4, <1>8, <3>1, <3>2
        <3> QED BY <2>2, <3>3
    <2> QED BY <2>1, <2>2
<1> QED BY <1>6, <1>7, <1>8, Zenon DEF T, c

\* The tables and the contents, after r has joined the step.
LEMMA TablesJoined ==
    ASSUME IInv, PoolOK, runner # "v2", NEW r \in Requests, NEW ids, NEW end, JoinsStep(r, ids, end)
    PROVE  TablesOK'
<1> DEFINE c == computed[r]
           T == table'[r]
<1>1. TablesOK
    BY DEF PoolOK
<1>2. /\ status[r] = "running" /\ status' = status /\ computed' = computed
      /\ c \in Nat /\ Len(ids) \in Nat /\ c + Len(ids) <= Len(T) * BlockSize
      /\ table' \in [Requests -> Seq(0..NumBlocks)]
      /\ \A j \in 1..Len(T) : InWindow(j, c) => T[j] # 0
      /\ \A i, j \in 1..Len(T) : T[i] = T[j] /\ T[i] # 0 => i = j
      /\ \A r2 \in Requests : r2 # r => table'[r2] = table[r2]
    BY Zenon DEF JoinsStep
<1>3. c <= Len(T) * BlockSize
    <2> DEFINE x == Len(T) * BlockSize
    <2>1. Len(T) \in Int
        BY <1>2
    <2>2. x \in Int
        BY <2>1, Multiples
    <2> HIDE DEF x, T, c
    <2>3. c + Len(ids) <= x
        BY <1>2 DEF x
    <2>4. c <= x
        BY ONLY <1>2, <2>2, <2>3
    <2> QED BY <2>4 DEF x
<1>4. \A j, r2 : InWindow(j, computed[r2])' = InWindow(j, computed[r2])
    BY <1>2, Zenon DEF InWindow
<1>5. ASSUME NEW r2 \in Requests
      PROVE  /\ status'[r2] # "running" => table'[r2] = <<>>
             /\ status'[r2] = "running" => computed'[r2] <= Len(table'[r2]) * BlockSize
             /\ \A j \in 1..Len(table'[r2]) : InWindow(j, computed[r2])' => table'[r2][j] # 0
             /\ \A i, j \in 1..Len(table'[r2]) :
                   table'[r2][i] = table'[r2][j] /\ table'[r2][i] # 0 => i = j
    <2>1. CASE r2 = r
        BY <1>2, <1>3, <1>4, <2>1, Zenon
    <2>2. CASE r2 # r
        <3>1. table'[r2] = table[r2] /\ status' = status /\ computed' = computed
            BY <1>2, <2>2, Zenon
        <3> QED BY <1>1, <1>4, <3>1, Zenon DEF TablesOK
    <2> QED BY <2>1, <2>2
<1> QED BY <1>2, <1>5, Zenon DEF TablesOK

LEMMA ContentsJoined ==
    ASSUME IInv, PoolOK, runner # "v2", NEW r \in Requests, NEW ids, NEW end, JoinsStep(r, ids, end)
    PROVE  ContentOK'
<1> DEFINE c == computed[r]
           T == table'[r]
           m == Len(batch.reqs)
           N == NumTokens
           k == Len(ids)
<1>1. ContentOK
    BY DEF PoolOK
<1>2. /\ UNCHANGED <<status, tokens, computed>>
      /\ k \in Nat \ {0} /\ c \in Nat /\ end \in Nat
      /\ end <= Len(tokens[r]) /\ end <= c + k
      /\ content' \in [1..NumBlocks -> Seq(Tokens)]
      /\ \A r2 \in Requests : r2 # r => table'[r2] = table[r2]
    BY Zenon DEF JoinsStep
<1>3. StepGrows(r, ids, m, N, k)
    BY RowGrows
<1>4. /\ \A r2 \in Requests : \A j \in 1..Len(table[r2]) :
             r2 # r /\ table[r2][j] # 0 => content'[table[r2][j]] = content[table[r2][j]]
      /\ \A j \in 1..Len(T) : T[j] # 0 /\ content'[T[j]] # <<>> =>
             j * BlockSize <= end /\ content'[T[j]] = SubSeq(tokens[r], 1, j * BlockSize)
    BY ContentJoined
<1> HIDE DEF T, m, N, k, c
<1>5. /\ m = Len(batch.reqs) /\ m \in Nat /\ N \in Nat
      /\ Len(batch'.reqs) = m + 1 /\ batch'.reqs[m + 1] = r
      /\ \A q \in 1..m : batch'.reqs[q] = batch.reqs[q]
      /\ \A q \in 1..(m + 1) : batch'.query_start_loc[q] = batch.query_start_loc[q]
      /\ batch'.query_start_loc[m + 1] = N /\ batch'.query_start_loc[m + 2] = N + k
    BY <1>3, Zenon DEF StepGrows
<1>6. \A q \in 1..(m + 1) : q = m + 1 \/ (q \in 1..m /\ q + 1 \in 1..(m + 1))
    BY <1>5
<1>7. ~InBatch(r)
    BY Zenon DEF JoinsStep
<1>8. InBatch(r)' /\ \A r2 \in Requests : r2 # r /\ ~InBatch(r2)' => ~InBatch(r2)
    <2>1. batch.reqs \in Seq(Requests)
        BY DEF IInv, RowsOK
    <2>2. batch' = WithRow(r, ids, computed[r], table'[r])
        BY Zenon DEF JoinsStep
    <2>3. batch'.reqs = Append(batch.reqs, r)
        BY <2>2 DEF WithRow
    <2>4. DOMAIN batch.reqs = 1..m /\ DOMAIN batch'.reqs = 1..(m + 1)
        BY <1>5, <2>1, <2>3
    <2>5. m + 1 \in 1..(m + 1) /\ \A q \in 1..m : q \in 1..(m + 1)
        BY <1>5
    <2>6. InBatch(r)'
        BY <1>5, <2>4, <2>5 DEF InBatch, Range
    <2>7. ASSUME NEW r2 \in Requests, InBatch(r2) PROVE InBatch(r2)'
        <3>1. PICK q \in 1..m : batch.reqs[q] = r2
            BY <2>4, <2>7 DEF InBatch, Range
        <3>2. batch'.reqs[q] = r2 /\ q \in DOMAIN batch'.reqs
            BY <1>5, <2>4, <2>5, <3>1
        <3> QED BY <3>2 DEF InBatch, Range
    <2> QED BY <2>6, <2>7
<1>9. ASSUME NEW q \in 1..(m + 1), q = m + 1 PROVE RowEnd(q)' = c + k
    <2>0. q + 1 = m + 2
        BY <1>5, <1>9
    <2>1. /\ batch'.reqs[q] = r /\ batch'.query_start_loc[q] = N
          /\ batch'.query_start_loc[q + 1] = N + k /\ computed'[r] = c
        BY <1>2, <1>5, <1>9, <2>0, Zenon DEF c
    <2>2. RowEnd(q)' = c + ((N + k) - N)
        BY <2>1, Zenon DEF RowEnd
    <2>3. c + ((N + k) - N) = c + k
        BY <1>2, <1>5
    <2> QED BY <2>2, <2>3, Zenon
<1>10. ASSUME NEW q \in 1..(m + 1), q # m + 1
       PROVE  q \in 1..m /\ batch'.reqs[q] = batch.reqs[q] /\ RowEnd(q)' = RowEnd(q)
    <2>1. q \in 1..m /\ q + 1 \in 1..(m + 1)
        BY <1>6, <1>10
    <2>2. /\ batch'.reqs[q] = batch.reqs[q]
          /\ batch'.query_start_loc[q] = batch.query_start_loc[q]
          /\ batch'.query_start_loc[q + 1] = batch.query_start_loc[q + 1]
          /\ computed' = computed
        BY <1>2, <1>5, <2>1, Zenon
    <2> QED BY <2>1, <2>2, Zenon DEF RowEnd
<1>11. \A q \in 1..m : batch.reqs[q] \in Requests /\ batch.reqs[q] # r
    BY <1>5, <1>7, RowsOfOthers
<1>12. ASSUME NEW r2 \in Requests, NEW j \in 1..Len(table'[r2]),
              table'[r2][j] # 0, content'[table'[r2][j]] # <<>>
       PROVE  /\ j * BlockSize <= Len(tokens'[r2])
              /\ content'[table'[r2][j]] = SubSeq(tokens'[r2], 1, j * BlockSize)
              /\ ~InBatch(r2)' => j * BlockSize <= computed'[r2]
              /\ \A q \in 1..Len(batch'.reqs) : batch'.reqs[q] = r2 => j * BlockSize <= RowEnd(q)'
    <2> DEFINE x == j * BlockSize
    <2>0. x \in Int
        BY Multiples
    <2>1. CASE r2 = r
        <3>1. x <= end /\ content'[table'[r2][j]] = SubSeq(tokens[r], 1, x)
            BY <1>4, <1>12, <2>1, Zenon DEF T
        <3> HIDE DEF x
        <3>2. x <= c + k /\ x <= Len(tokens[r])
            <4>1. Len(tokens[r]) \in Nat
                BY DEF IInv, RequestsOK
            <4> QED BY <1>2, <2>0, <3>1, <4>1
        <3>3. ASSUME NEW q \in 1..(m + 1), batch'.reqs[q] = r PROVE x <= RowEnd(q)'
            <4>1. q = m + 1
                BY <1>10, <1>11, <3>3
            <4> QED BY <1>9, <3>2, <4>1
        <3> QED BY <1>2, <1>5, <1>8, <2>1, <3>1, <3>2, <3>3, Zenon DEF x
    <2>2. CASE r2 # r
        <3>1. table'[r2] = table[r2]
            BY <1>2, <2>2, Zenon
        <3>2. j \in 1..Len(table[r2]) /\ table[r2][j] # 0
            BY <1>12, <3>1
        <3>3. content'[table'[r2][j]] = content[table[r2][j]] /\ content[table[r2][j]] # <<>>
            BY <1>4, <1>12, <2>2, <3>1, <3>2, Zenon
        <3>4. /\ x <= Len(tokens[r2])
              /\ content[table[r2][j]] = SubSeq(tokens[r2], 1, x)
              /\ ~InBatch(r2) => x <= computed[r2]
              /\ \A q \in 1..Len(batch.reqs) : batch.reqs[q] = r2 => x <= RowEnd(q)
            BY <1>1, <3>2, <3>3, Zenon DEF ContentOK
        <3> HIDE DEF x
        <3>5. ASSUME NEW q \in 1..(m + 1), batch'.reqs[q] = r2 PROVE x <= RowEnd(q)'
            <4>1. q # m + 1
                BY <1>5, <2>2, <3>5
            <4>2. q \in 1..Len(batch.reqs) /\ batch.reqs[q] = r2 /\ RowEnd(q)' = RowEnd(q)
                BY <1>5, <1>10, <3>5, <4>1
            <4> QED BY <3>4, <4>2, Zenon
        <3>6. tokens'[r2] = tokens[r2] /\ computed'[r2] = computed[r2]
            BY <1>2
        <3> QED BY <1>5, <1>8, <2>2, <3>3, <3>4, <3>5, <3>6, Zenon DEF x
    <2> QED BY <2>1, <2>2
<1> QED BY <1>2, <1>12, Zenon DEF ContentOK

LEMMA SharesJoined ==
    ASSUME IInv, PoolOK, runner # "v2", NEW r \in Requests, NEW ids, NEW end, JoinsStep(r, ids, end)
    PROVE  SharedOK'
<1> DEFINE T == table'[r]
<1>1. SharedOK
    BY DEF PoolOK
<1>2. computed' = computed /\ \A r2 \in Requests : r2 # r => table'[r2] = table[r2]
    BY Zenon DEF JoinsStep
<1>3. /\ \A r2 \in Requests : \A j \in 1..Len(table[r2]) :
             r2 # r /\ table[r2][j] # 0 => content'[table[r2][j]] = content[table[r2][j]]
      /\ \A r2 \in Requests : \A j \in 1..Len(T), j2 \in 1..Len(table[r2]) :
             r2 # r /\ T[j] = table[r2][j2] /\ T[j] # 0 =>
                /\ j \in 1..Len(table[r]) /\ table[r][j] = T[j]
                /\ content[table[r][j]] # <<>> /\ j * BlockSize <= computed[r]
    BY ContentJoined
<1>4. ASSUME NEW r2 \in Requests, r2 # r, NEW j \in 1..Len(table'[r]), NEW j2 \in 1..Len(table'[r2]),
             table'[r][j] = table'[r2][j2], table'[r][j] # 0
      PROVE  content'[table'[r][j]] # <<>> /\ j * BlockSize <= computed'[r]
    <2>1. table'[r2] = table[r2]
        BY <1>2, <1>4, Zenon
    <2>2. j2 \in 1..Len(table[r2]) /\ T[j] = table[r2][j2] /\ T[j] # 0
        BY <1>4, <2>1
    <2> HIDE DEF T
    <2>3. table[r][j] = T[j] /\ content[table[r][j]] # <<>> /\ j * BlockSize <= computed[r]
        BY <1>3, <1>4, <2>2, Zenon DEF T
    <2>4. content'[T[j]] = content[T[j]]
        BY <1>3, <1>4, <2>2, Zenon
    <2>5. content'[T[j]] # <<>>
        BY <2>3, <2>4, Zenon
    <2> QED BY <1>2, <2>3, <2>5, Zenon DEF T
<1>5. ASSUME NEW r1 \in Requests, NEW r2 \in Requests,
             NEW j1 \in 1..Len(table'[r1]), NEW j2 \in 1..Len(table'[r2]),
             r1 # r2, table'[r1][j1] = table'[r2][j2], table'[r1][j1] # 0
      PROVE  /\ content'[table'[r1][j1]] # <<>>
             /\ j1 * BlockSize <= computed'[r1] \/ j2 * BlockSize <= computed'[r2]
    <2>1. CASE r1 = r
        <3>1. r2 # r /\ j1 \in 1..Len(table'[r]) /\ table'[r][j1] = table'[r2][j2] /\ table'[r][j1] # 0
            BY <1>5, <2>1, Zenon
        <3>2. content'[table'[r][j1]] # <<>> /\ j1 * BlockSize <= computed'[r]
            BY <1>4, <3>1, Zenon
        <3> QED BY <2>1, <3>2, Zenon
    <2>2. CASE r2 = r
        <3>1. r1 # r /\ j2 \in 1..Len(table'[r]) /\ table'[r][j2] = table'[r1][j1] /\ table'[r][j2] # 0
            BY <1>5, <2>2, Zenon
        <3>2. content'[table'[r][j2]] # <<>> /\ j2 * BlockSize <= computed'[r]
            BY <1>4, <3>1, Zenon
        <3>3. content'[table'[r1][j1]] # <<>>
            BY <3>1, <3>2, Zenon
        <3> QED BY <2>2, <3>2, <3>3, Zenon
    <2>3. CASE r1 # r /\ r2 # r
        <3>1. table'[r1] = table[r1] /\ table'[r2] = table[r2]
            BY <1>2, <2>3, Zenon
        <3>2. j1 \in 1..Len(table[r1]) /\ j2 \in 1..Len(table[r2])
              /\ table[r1][j1] = table[r2][j2] /\ table[r1][j1] # 0
            BY <1>5, <3>1
        <3>3. /\ content[table[r1][j1]] # <<>>
              /\ j1 * BlockSize <= computed[r1] \/ j2 * BlockSize <= computed[r2]
            BY <1>1, <1>5, <3>2, Zenon DEF SharedOK
        <3>4. content'[table[r1][j1]] = content[table[r1][j1]]
            BY <1>3, <2>3, <3>2, Zenon
        <3>5. content'[table'[r1][j1]] # <<>>
            BY <3>1, <3>3, <3>4, Zenon
        <3> QED BY <1>2, <3>3, <3>5, Zenon
    <2> QED BY <2>1, <2>2, <2>3
<1> QED BY <1>5, Zenon DEF SharedOK

\* The next step writes its slots, too.
LEMMA WrittenNext ==
    (IInv /\ runner # "v2" /\ TablesOK /\ StepOK /\ ContentOK /\ SharedOK => StepWritten)'
<1>1. IInv /\ runner # "v2" /\ TablesOK /\ StepOK /\ ContentOK /\ SharedOK => StepWritten
    BY WrittenByStep
<1> QED BY <1>1, PTL

\* The slots that are new are to hold the tokens that joined, the others what
\* they were to hold.
LEMMA SlotsJoined ==
    ASSUME IInv, IInv', PoolOK, runner # "v2", NEW r \in Requests, NEW ids, NEW end,
           JoinsStep(r, ids, end)
    PROVE  /\ \A s \in Slots :
                 (\A p \in computed[r]..(computed[r] + Len(ids) - 1) : s # NewSlot(r, p)) => Kept(s)
           /\ \A p \in computed[r]..(computed[r] + Len(ids) - 1) :
                 Written'[NewSlot(r, p)] = Compressed(ids[p - computed[r] + 1])
<1> DEFINE c == computed[r]
           m == Len(batch.reqs)
           N == NumTokens
           k == Len(ids)
           Old == batch.slot_mapping
           New == batch'.slot_mapping
<1>1. StepGrows(r, ids, m, N, k)
    BY RowGrows
<1>2. /\ runner' = runner /\ cache' = cache /\ loaded' = loaded
      /\ k \in Nat \ {0} /\ c \in Nat
    BY Zenon DEF JoinsStep
<1>3. StepWritten
    BY WrittenByStep DEF PoolOK
<1>4. StepWritten'
    <2>1. TablesOK' /\ ContentOK' /\ SharedOK' /\ StepOK'
        BY TablesJoined, ContentsJoined, SharesJoined, StepJoined
    <2>2. (runner # "v2")'
        BY <1>2
    <2> QED BY <2>1, <2>2, WrittenNext, Zenon
<1> HIDE DEF m, N, k
<1>5. /\ N = NumTokens /\ N \in Nat /\ NumTokens' = N + k
      /\ New \in Seq(Slots) /\ Len(New) = N + k
      /\ \A i \in 0..(N - 1) :
            /\ batch'.input_ids[i + 1] = batch.input_ids[i + 1]
            /\ New[i + 1] = Old[i + 1]
      /\ \A p \in c..(c + k - 1) :
            /\ batch'.input_ids[N + (p - c) + 1] = ids[p - c + 1]
            /\ New[N + (p - c) + 1] = NewSlot(r, p)
    BY <1>1, Zenon DEF StepGrows
<1>6. Old \in Seq(Slots) /\ Len(Old) = N
    BY <1>5 DEF PoolOK, StepOK
<1>7. DOMAIN Old = 1..N /\ DOMAIN New = 1..(N + k)
    <2> HIDE DEF Old, New
    <2> QED BY <1>2, <1>5, <1>6
<1> HIDE DEF c, Old, New
<1>8. \A i \in BatchTokens' : Written'[New[i + 1]] = Compressed(batch'.input_ids[i + 1])
    BY <1>4, Zenon DEF StepWritten, New
<1>9. \A i \in BatchTokens : Written[Old[i + 1]] = Compressed(batch.input_ids[i + 1])
    BY <1>3, Zenon DEF StepWritten, Old
<1>10. BatchTokens = 0..(N - 1) /\ BatchTokens' = 0..(N + k - 1)
    <2>1. BatchTokens = 0..(N - 1)
        BY <1>5, Zenon DEF BatchTokens
    <2>2. BatchTokens' = 0..(NumTokens' - 1)
        BY Zenon DEF BatchTokens
    <2>3. 0..(NumTokens' - 1) = 0..((N + k) - 1)
        BY <1>5, Zenon
    <2>4. (N + k) - 1 = N + k - 1
        BY <1>2, <1>5
    <2> QED BY <2>1, <2>2, <2>3, <2>4, Zenon
<1>11. ASSUME NEW p \in c..(c + k - 1)
       PROVE  Written'[NewSlot(r, p)] = Compressed(ids[p - c + 1])
    <2>0. PICK i \in Int : i = N + (p - c)
        BY <1>2, <1>5
    <2>1. i \in 0..(N + k - 1) /\ i + 1 = N + (p - c) + 1
        BY <1>2, <1>5, <2>0
    <2> DEFINE z == N + (p - c) + 1
    <2>2. z = i + 1
        BY <2>1
    <2>3. batch'.input_ids[z] = ids[p - c + 1] /\ New[z] = NewSlot(r, p)
        BY <1>5, Zenon
    <2> HIDE DEF z
    <2>4. Written'[New[i + 1]] = Compressed(batch'.input_ids[i + 1])
        BY <1>8, <1>10, <2>1, Zenon
    <2>5. batch'.input_ids[i + 1] = ids[p - c + 1] /\ New[i + 1] = NewSlot(r, p)
        BY <2>2, <2>3, Zenon
    <2> QED BY <2>4, <2>5, Zenon
<1>12. \A j \in 1..(N + k) :
          \/ j \in 1..N
          \/ \E p \in c..(c + k - 1) : New[j] = NewSlot(r, p)
    <2> SUFFICES ASSUME NEW j \in 1..(N + k), ~(j \in 1..N)
                 PROVE  \E p \in c..(c + k - 1) : New[j] = NewSlot(r, p)
        OBVIOUS
    <2>1. PICK p \in Int : p = c + (j - 1 - N)
        BY <1>2, <1>5
    <2>2. p \in c..(c + k - 1) /\ N + (p - c) + 1 = j
        BY <1>2, <1>5, <2>1
    <2> DEFINE z == N + (p - c) + 1
    <2>3. New[z] = NewSlot(r, p)
        BY <1>5, <2>2, Zenon
    <2> HIDE DEF z
    <2>4. z = j
        BY <2>2 DEF z
    <2> QED BY <2>2, <2>3, <2>4, Zenon
<1>13. ASSUME NEW j \in 1..N
       PROVE  New[j] = Old[j] /\ batch'.input_ids[j] = batch.input_ids[j]
              /\ j \in 1..(N + k)
              /\ Written[Old[j]] = Compressed(batch.input_ids[j])
              /\ Written'[Old[j]] = Compressed(batch.input_ids[j])
    <2>1. PICK i \in Int : i = j - 1
        BY <1>5
    <2>2. i \in 0..(N - 1) /\ i \in 0..(N + k - 1) /\ i + 1 = j /\ j \in 1..(N + k)
        BY <1>2, <1>5, <2>1
    <2>3. New[i + 1] = Old[i + 1] /\ batch'.input_ids[i + 1] = batch.input_ids[i + 1]
        BY <1>5, <2>2, Zenon
    <2>4. /\ Written[Old[i + 1]] = Compressed(batch.input_ids[i + 1])
          /\ Written'[New[i + 1]] = Compressed(batch'.input_ids[i + 1])
        BY <1>8, <1>9, <1>10, <2>2, Zenon
    <2> QED BY <2>2, <2>3, <2>4, Zenon
<1>14. ASSUME NEW s \in Slots, \A p \in c..(c + k - 1) : s # NewSlot(r, p)
       PROVE  Kept(s)
    <2>1. s \in Range(New) <=> s \in Range(Old)
        <3>1. ASSUME s \in Range(New) PROVE s \in Range(Old)
            <4>1. PICK j \in 1..(N + k) : New[j] = s
                BY <1>7, <3>1 DEF Range
            <4>2. j \in 1..N
                BY <1>12, <1>14, <4>1, Zenon
            <4>3. Old[j] = s
                BY <1>13, <4>1, <4>2, Zenon
            <4> QED BY <1>7, <4>2, <4>3 DEF Range
        <3>2. ASSUME s \in Range(Old) PROVE s \in Range(New)
            <4>1. PICK j \in 1..N : Old[j] = s
                BY <1>7, <3>2 DEF Range
            <4>2. New[j] = s /\ j \in 1..(N + k)
                BY <1>13, <4>1, Zenon
            <4> QED BY <1>7, <4>2 DEF Range
        <3> QED BY <3>1, <3>2
    <2>2. s \in Missing => s \in Missing'
        <3>1. Missing = loaded \ Range(Old) /\ Missing' = loaded' \ Range(New)
            BY Zenon DEF Missing, Old, New
        <3> QED BY <1>2, <2>1, <3>1
    <2>3. Written'[s] = Written[s]
        <3>1. CASE s \in Range(Old)
            <4>1. PICK j \in 1..N : Old[j] = s
                BY <1>7, <3>1 DEF Range
            <4> QED BY <1>13, <4>1, Zenon
        <3>2. CASE s \notin Range(Old)
            <4>1. Written[s] = cache[s]
                BY <1>3, <3>2, Zenon DEF StepWritten, Old
            <4>2. Written'[s] = cache'[s]
                BY <1>4, <2>1, <3>2, Zenon DEF StepWritten, New
            <4> QED BY <1>2, <4>1, <4>2, Zenon
        <3> QED BY <3>1, <3>2
    <2> QED BY <2>2, <2>3, Zenon DEF Kept, Right
<1> QED BY <1>11, <1>14, Zenon DEF c, k

\* A slot of the cache that is new is of a block of r, at its place there.
LEMMA WhichNewSlot ==
    ASSUME IInv, NEW r \in Requests, NEW ids, NEW end, JoinsStep(r, ids, end),
           NEW p \in computed[r]..(computed[r] + Len(ids) - 1),
           NEW b \in 0..NumBlocks, NEW o \in 0..(BlockSize - 1), NewSlot(r, p) = b * BlockSize + o
    PROVE  table'[r][PlaceOf(p)] = b /\ p % BlockSize = o
<1> DEFINE d == table'[r][PlaceOf(p)]
           u == p % BlockSize
<1>1. u \in 0..(BlockSize - 1) /\ d \in 1..NumBlocks /\ NewSlot(r, p) = d * BlockSize + u
    BY NewSlotFacts
<1> HIDE DEF d, u
<1>2. d \in Int /\ b \in Int
    BY <1>1, BlockAssumption
<1>3. d * BlockSize + u = b * BlockSize + o
    BY <1>1, Zenon
<1>4. d = b /\ u = o
    BY <1>1, <1>2, <1>3, BlocksApart
<1> QED BY <1>4 DEF d, u

\* The slots of what is computed stay right.
LEMMA TextsJoined ==
    ASSUME IInv, IInv', PoolOK, runner # "v2", NEW r \in Requests, NEW ids, NEW end,
           JoinsStep(r, ids, end), NEW r2 \in Requests, NEW p \in 0..(computed[r2] - 1),
           status[r2] = "running", BlockAt(r2, p)' # 0
    PROVE  /\ Right(SlotOf(r2, p), tokens[r2][p + 1])'
           /\ SlotOf(r2, p)' = BlockAt(r2, p)' * BlockSize + (p % BlockSize)
<1>0. TablesOK /\ TextsRight
    BY DEF PoolOK
<1>1. /\ UNCHANGED <<status, tokens, computed>>
      /\ table' \in [Requests -> Seq(0..NumBlocks)]
      /\ \A j \in 1..Len(table'[r]) : table'[r][j] # 0 /\ j <= Len(table[r]) => table'[r][j] = table[r][j]
      /\ Len(table[r]) <= Len(table'[r])
      /\ \A i, j \in 1..Len(table'[r]) : table'[r][i] = table'[r][j] /\ table'[r][i] # 0 => i = j
      /\ \A i \in Requests : i # r => table'[i] = table[i]
    BY Zenon DEF JoinsStep
<1> DEFINE j == PlaceOf(p)
           o == p % BlockSize
           b == table[r2][j]
<1>2. computed[r2] \in Nat /\ computed[r] \in Nat
    BY DEF IInv, RequestsOK
<1>3. p \in Nat /\ p < computed[r2]
    BY <1>2
<1>4. /\ j \in 1..Len(table[r2]) /\ BlockAt(r2, p) \in 0..NumBlocks
      /\ SlotOf(r2, p) = BlockAt(r2, p) * BlockSize + o
      /\ SlotOf(r2, p) \in Slots /\ tokens[r2][p + 1] \in Tokens
    BY <1>0, SlotOfComputed
<1> PICK s \in Slots : s = SlotOf(r2, p)
    BY <1>4
<1> PICK id \in Tokens : id = tokens[r2][p + 1]
    BY <1>4
<1>5. o \in 0..(BlockSize - 1)
    BY <1>3, PlaceFacts
<1>6. BlockAt(r2, p)' = table'[r2][j] /\ BlockAt(r2, p) = b
    BY Zenon DEF BlockAt
<1> HIDE DEF j, o
<1>7. table'[r2][j] = b /\ b # 0
    <2>1. CASE r2 = r
        <3>1. Len(table[r]) \in Nat /\ Len(table'[r]) \in Nat
            BY <1>0, <1>1 DEF TablesOK
        <3>2. j \in 1..Len(table'[r]) /\ j <= Len(table[r])
            BY <1>1, <1>4, <2>1, <3>1
        <3> QED BY <1>1, <1>6, <2>1, <3>2, Zenon
    <2>2. CASE r2 # r
        BY <1>1, <1>6, <2>2, Zenon
    <2> QED BY <2>1, <2>2
<1> HIDE DEF b
<1>8. b \in 0..NumBlocks /\ s = b * BlockSize + o
    BY <1>4, <1>6, Zenon
<1>10. SlotOf(r2, p)' = s /\ s = BlockAt(r2, p)' * BlockSize + o
    <2>1. SlotOf(r2, p)' = table'[r2][j] * BlockSize + o
        BY Zenon DEF SlotOf, PlaceOf, j, o
    <2>2. BlockAt(r2, p)' = b
        BY <1>6, <1>7, Zenon
    <2> DEFINE d == table'[r2][j]
               e == BlockAt(r2, p)'
    <2>3. d = b /\ e = b
        BY <1>7, <2>2, Zenon
    <2> HIDE DEF d, e
    <2>4. d * BlockSize + o = s /\ s = e * BlockSize + o
        BY <1>8, <2>3, Zenon
    <2> QED BY <2>1, <2>4, Zenon DEF d, e
<1>11. ASSUME NEW y \in computed[r]..(computed[r] + Len(ids) - 1) PROVE s # NewSlot(r, y)
    <2> SUFFICES ASSUME NewSlot(r, y) = s PROVE FALSE
        OBVIOUS
    <2>1. table'[r][PlaceOf(y)] = b /\ y % BlockSize = o
        <3>1. NewSlot(r, y) = b * BlockSize + o
            BY <1>8, Zenon
        <3> QED BY <1>5, <1>8, <3>1, WhichNewSlot
    <2>2. /\ y \in Nat /\ PlaceOf(y) \in 1..Len(table'[r])
          /\ y = (PlaceOf(y) - 1) * BlockSize + (y % BlockSize)
          /\ computed[r] < PlaceOf(y) * BlockSize
        BY NewSlotFacts
    <2>3. CASE r2 = r
        <3>1. j \in 1..Len(table'[r])
            <4>1. Len(table[r]) \in Nat /\ Len(table'[r]) \in Nat
                BY <1>0, <1>1 DEF TablesOK
            <4> QED BY <1>1, <1>4, <2>3, <4>1
        <3>2. PlaceOf(y) = j
            BY <1>1, <1>7, <2>1, <2>2, <2>3, <3>1, Zenon
        <3>3. p = (j - 1) * BlockSize + o
            BY <1>3, PlaceFacts DEF j, o
        <3>4. y = p
            BY <2>1, <2>2, <3>2, <3>3, Zenon
        <3>5. computed[r] <= y
            BY <1>2
        <3> QED BY <1>2, <1>3, <2>3, <3>4, <3>5
    <2>4. CASE r2 # r
        <3>1. table'[r][PlaceOf(y)] = table[r2][j] /\ table'[r][PlaceOf(y)] # 0
            BY <1>7, <2>1, Zenon DEF b
        <3>2. PlaceOf(y) * BlockSize <= computed[r]
            BY <1>4, <2>2, <2>4, <3>1, ContentJoined
        <3> DEFINE x == PlaceOf(y) * BlockSize
        <3>3. x \in Int
            <4>1. PlaceOf(y) \in Int
                BY <2>2
            <4> QED BY <4>1, Multiples
        <3>4. x <= computed[r] /\ computed[r] < x
            BY <2>2, <3>2
        <3> HIDE DEF x
        <3> QED BY <1>2, <3>3, <3>4
    <2> QED BY <2>3, <2>4
<1>12. Kept(s)
    BY <1>4, <1>11, SlotsJoined
<1>13. Right(s, id)
    <2>1. BlockAt(r2, p) # 0
        BY <1>6, <1>7, Zenon
    <2> QED BY <1>0, <2>1, Zenon DEF TextsRight
<1>15. s \in Missing' \/ Written'[s] = Compressed(id)
    BY <1>4, <1>12, <1>13, Zenon DEF Kept, Right
<1>16. tokens'[r2][p + 1] = id
    BY <1>1
<1>17. Right(SlotOf(r2, p), tokens[r2][p + 1])'
    <2>1. SlotOf(r2, p)' \in Missing' \/ Written'[SlotOf(r2, p)'] = Compressed(tokens'[r2][p + 1])
        BY <1>10, <1>15, <1>16, Zenon
    <2> QED BY <2>1 DEF Right
<1> QED BY <1>10, <1>17, Zenon DEF o

\* The slots of filled blocks stay right.
LEMMA BlocksJoined ==
    ASSUME IInv, IInv', PoolOK, runner # "v2", NEW r \in Requests, NEW ids, NEW end,
           JoinsStep(r, ids, end)
    PROVE  BlocksRight'
<1> DEFINE c == computed[r]
           k == Len(ids)
           T == table'[r]
<1>0. TablesOK /\ ContentOK /\ BlocksRight
    BY DEF PoolOK
<1>1. /\ UNCHANGED <<status, tokens, computed>> /\ status[r] = "running"
      /\ k \in Nat \ {0} /\ c \in Nat /\ end \in Nat
      /\ end <= Len(tokens[r]) /\ end <= c + k
      /\ \A p \in c..(c + k - 1) : p < Len(tokens[r]) => ids[p - c + 1] = tokens[r][p + 1]
      /\ table' \in [Requests -> Seq(0..NumBlocks)]
      /\ \A b \in 1..NumBlocks : (\A j \in 1..Len(T) : T[j] # b) => content'[b] = content[b]
    BY Zenon DEF JoinsStep
<1>2. tokens[r] \in Seq(Tokens) /\ Len(tokens[r]) \in Nat
    BY DEF IInv, RequestsOK
<1>3. content \in [1..NumBlocks -> Seq(Tokens)]
    BY <1>0 DEF ContentOK
<1>4. \A j \in 1..Len(T) : T[j] # 0 /\ content'[T[j]] # <<>> =>
             j * BlockSize <= end /\ content'[T[j]] = SubSeq(tokens[r], 1, j * BlockSize)
    BY ContentJoined
<1>5. /\ \A s \in Slots : (\A p \in c..(c + k - 1) : s # NewSlot(r, p)) => Kept(s)
      /\ \A p \in c..(c + k - 1) : Written'[NewSlot(r, p)] = Compressed(ids[p - c + 1])
    BY SlotsJoined
<1>6. \A p \in c..(c + k - 1) : \A b \in 0..NumBlocks, o \in 0..(BlockSize - 1) :
         NewSlot(r, p) = b * BlockSize + o => T[PlaceOf(p)] = b /\ PlaceOf(p) \in 1..Len(T)
    <2>1. SUFFICES ASSUME NEW p \in c..(c + k - 1), NEW b \in 0..NumBlocks,
                          NEW o \in 0..(BlockSize - 1), NewSlot(r, p) = b * BlockSize + o
                   PROVE  T[PlaceOf(p)] = b /\ PlaceOf(p) \in 1..Len(T)
        BY Zenon
    <2> QED BY <2>1, WhichNewSlot, NewSlotFacts
<1>7. \A p \in c..(c + k - 1) : NewSlot(r, p) = T[PlaceOf(p)] * BlockSize + (p % BlockSize)
    BY NewSlotFacts
<1>8. \A p \in 0..(c - 1) : BlockAt(r, p)' # 0 =>
         /\ Right(SlotOf(r, p), tokens[r][p + 1])'
         /\ SlotOf(r, p)' = BlockAt(r, p)' * BlockSize + (p % BlockSize)
    BY <1>1, TextsJoined
<1>9. \A p : BlockAt(r, p)' = T[PlaceOf(p)]
    BY Zenon DEF BlockAt
<1> HIDE DEF c, k, T
<1>10. ASSUME NEW b \in 1..NumBlocks, content'[b] # <<>>
       PROVE  \E m \in Nat \ {0} :
                 /\ Len(content'[b]) = m * BlockSize
                 /\ \A o \in 0..(BlockSize - 1) :
                       Right(b * BlockSize + o, content[b][(m - 1) * BlockSize + o + 1])'
    <2>0. b \in 0..NumBlocks
        BY BlockAssumption
    <2>1. CASE \A j \in 1..Len(T) : T[j] # b
        <3>1. content'[b] = content[b]
            BY <1>1, <2>1, Zenon
        <3>2. PICK m \in Nat \ {0} :
                 /\ Len(content[b]) = m * BlockSize
                 /\ \A o \in 0..(BlockSize - 1) :
                       Right(b * BlockSize + o, content[b][(m - 1) * BlockSize + o + 1])
            BY <1>0, <1>10, <3>1, Zenon DEF BlocksRight
        <3>3. ASSUME NEW o \in 0..(BlockSize - 1)
              PROVE  Right(b * BlockSize + o, content[b][(m - 1) * BlockSize + o + 1])'
            <4>1. b * BlockSize + o \in Slots
                BY <2>0, SlotInRange
            <4> PICK s \in Slots : s = b * BlockSize + o
                BY <4>1
            <4>2. Kept(s)
                BY <1>5, <1>6, <2>0, <2>1, Zenon
            <4> PICK i \in Nat : i = (m - 1) * BlockSize + o
                BY PositionOf
            <4>3. i + 1 \in 1..Len(content[b])
                <5>1. i < m * BlockSize
                    BY PositionOf
                <5> DEFINE x == m * BlockSize
                <5>2. x \in Int /\ Len(content[b]) = x /\ i < x
                    BY <3>2, <5>1, Multiples
                <5> HIDE DEF x
                <5> QED BY <5>2
            <4>4. content[b][i + 1] \in Tokens
                <5>1. content[b] \in Seq(Tokens)
                    BY <1>3
                <5> QED BY <4>3, <5>1, ElementOfSeq
            <4> PICK id \in Tokens : id = content[b][i + 1]
                BY <4>4
            <4>5. Right(s, id)
                BY <3>2, Zenon
            <4>6. s \in Missing' \/ Written'[s] = Compressed(id)
                BY <4>2, <4>5, Zenon DEF Kept, Right
            <4>7. b * BlockSize + o \in Missing'
                  \/ Written'[b * BlockSize + o] = Compressed(content'[b][(m - 1) * BlockSize + o + 1])
                BY <3>1, <4>6, Zenon
            <4> QED BY <4>7, Zenon DEF Right
        <3> QED BY <3>1, <3>2, <3>3, Zenon
    <2>2. CASE ~ \A j \in 1..Len(T) : T[j] # b
        <3>1. PICK j \in 1..Len(T) : T[j] = b
            BY <2>2
        <3>2. j \in Nat \ {0}
            OBVIOUS
        <3> PICK x \in Nat : x = j * BlockSize
            BY <3>2, BlockAssumption
        <3>3. x <= end /\ content'[b] = SubSeq(tokens[r], 1, x)
            <4>1. T[j] # 0 /\ content'[T[j]] # <<>>
                BY <1>10, <3>1
            <4> QED BY <1>4, <3>1, <4>1, Zenon
        <3>4. x <= Len(tokens[r]) /\ x <= c + k
            BY <1>1, <1>2, <3>3
        <3>5. Len(content'[b]) = x /\ \A i \in 1..x : content'[b][i] = tokens[r][i]
            BY <1>2, <3>3, <3>4, Beginning
        <3>6. ASSUME NEW o \in 0..(BlockSize - 1)
              PROVE  Right(b * BlockSize + o, content[b][(j - 1) * BlockSize + o + 1])'
            <4> PICK p \in Nat : p = (j - 1) * BlockSize + o
                BY <3>2, PositionOf
            <4>1. PlaceOf(p) = j /\ p % BlockSize = o /\ p < x
                BY <3>2, PositionOf
            <4>2. p + 1 \in 1..x /\ p < Len(tokens[r]) /\ p < c + k
                BY <1>1, <1>2, <3>4, <4>1
            <4>3. content'[b][p + 1] = tokens[r][p + 1]
                BY <3>5, <4>2, Zenon
            <4> PICK s : s = b * BlockSize + o
                OBVIOUS
            <4>4. s \in Missing' \/ Written'[s] = Compressed(content'[b][p + 1])
                <5>1. CASE p < c
                    <6>1. p \in 0..(c - 1)
                        BY <1>1, <5>1
                    <6>2. BlockAt(r, p)' = b /\ BlockAt(r, p)' # 0
                        BY <1>9, <3>1, <4>1
                    <6>3. /\ Right(SlotOf(r, p), tokens[r][p + 1])'
                          /\ SlotOf(r, p)' = BlockAt(r, p)' * BlockSize + (p % BlockSize)
                        BY <1>8, <6>1, <6>2, Zenon
                    <6>4. SlotOf(r, p)' = s
                        BY <4>1, <6>2, <6>3, Zenon
                    <6>5. tokens'[r][p + 1] = content'[b][p + 1]
                        BY <1>1, <4>3
                    <6>6. SlotOf(r, p)' \in Missing' \/ Written'[SlotOf(r, p)'] = Compressed(tokens'[r][p + 1])
                        BY <6>3, Zenon DEF Right
                    <6> QED BY <6>4, <6>5, <6>6, Zenon
                <5>2. CASE ~(p < c)
                    <6>1. p \in c..(c + k - 1)
                        BY <1>1, <4>2, <5>2
                    <6>2. ids[p - c + 1] = tokens[r][p + 1]
                        BY <1>1, <4>2, <6>1, Zenon
                    <6>3. NewSlot(r, p) = s
                        BY <1>7, <3>1, <4>1, <6>1, Zenon
                    <6>4. Written'[NewSlot(r, p)] = Compressed(ids[p - c + 1])
                        BY <1>5, <6>1, Zenon
                    <6> QED BY <4>3, <6>2, <6>3, <6>4, Zenon
                <5> QED BY <5>1, <5>2
            <4>5. b * BlockSize + o \in Missing'
                  \/ Written'[b * BlockSize + o] = Compressed(content'[b][(j - 1) * BlockSize + o + 1])
                BY <4>4, Zenon
            <4> QED BY <4>5, Zenon DEF Right
        <3> QED BY <3>2, <3>5, <3>6, Zenon
    <2> QED BY <2>1, <2>2
<1> QED BY <1>10, Zenon DEF BlocksRight

\* A request joins the step.
LEMMA ScheduleKeepsPool ==
    ASSUME IInv, IInv', PoolOK, runner # "v2", NEW r \in Requests, NEW n \in 1..MaxChunk,
           NEW drafts \in BoundedSeq(Generated, MaxDrafts), Schedule(r, n, drafts)
    PROVE  PoolOK'
<1> DEFINE ids == SubSeq(tokens[r], computed[r] + 1, computed[r] + n) \o drafts
           end == computed[r] + n
<1>0. JoinsStep(r, ids, end)
    BY ScheduleJoins
<1> PICK ids2, end2 : ids2 = ids /\ end2 = end
    OBVIOUS
<1>1. JoinsStep(r, ids2, end2)
    BY <1>0, Zenon
<1>2. TablesOK' /\ ContentOK' /\ SharedOK' /\ StepOK' /\ BlocksRight'
    BY <1>1, TablesJoined, ContentsJoined, SharesJoined, StepJoined, BlocksJoined
<1>3. TextsRight'
    <2>1. status' = status /\ computed' = computed
        BY <1>1, Zenon DEF JoinsStep
    <2>2. ASSUME NEW r2 \in Requests, NEW p \in 0..(computed'[r2] - 1),
                 status'[r2] = "running", BlockAt(r2, p)' # 0
          PROVE  Right(SlotOf(r2, p), tokens[r2][p + 1])'
        <3>1. p \in 0..(computed[r2] - 1) /\ status[r2] = "running"
            BY <2>1, <2>2
        <3> QED BY <1>1, <2>2, <3>1, TextsJoined
    <2> QED BY <2>2, Zenon DEF TextsRight
<1> QED BY <1>2, <1>3, Zenon DEF PoolOK
-----------------------------------------------------------------------------
(* The invariant holds, and what it says of a token *)

LEMMA PoolInvHolds == Spec => [](IInv /\ PoolInv)
<1>1. Init => PoolInv
    <2> SUFFICES ASSUME Init PROVE TablesOK /\ StepOK /\ ContentOK /\ SharedOK /\ BlocksRight /\ TextsRight
        BY DEF PoolInv
    <2>1. /\ batch = Empty /\ status = [r \in Requests |-> "out"]
          /\ tokens = [r \in Requests |-> <<>>] /\ computed = [r \in Requests |-> 0]
          /\ table = [r \in Requests |-> <<>>] /\ content = [b \in 1..NumBlocks |-> <<>>]
        BY DEF Init, None, Zero
    <2>2. /\ Empty.slot_mapping = <<>> /\ Empty.input_ids = <<>> /\ Empty.reqs = <<>>
          /\ 1..Len(Empty.reqs) = {}
        BY DEF Empty
    <2>3. \A r \in Requests : 1..Len(table[r]) = {} /\ 0..(computed[r] - 1) = {}
        BY <2>1
    <2>4. TablesOK
        <3>1. <<>> \in Seq(0..NumBlocks)
            OBVIOUS
        <3>2. table \in [Requests -> Seq(0..NumBlocks)]
            BY <2>1, <3>1
        <3>3. \A r \in Requests : status[r] # "running" /\ table[r] = <<>>
            BY <2>1
        <3> QED BY <2>3, <3>2, <3>3, Zenon DEF TablesOK
    <2>5. StepOK
        <3>1. batch.slot_mapping \in Seq(Slots) /\ Len(batch.slot_mapping) = NumTokens
            BY <2>1, <2>2 DEF NumTokens
        <3> QED BY <2>1, <2>2, <3>1, Zenon DEF StepOK
    <2>6. ContentOK
        <3>1. content \in [1..NumBlocks -> Seq(Tokens)]
            BY <2>1
        <3> QED BY <2>3, <3>1, Zenon DEF ContentOK
    <2>7. SharedOK /\ TextsRight
        BY <2>3, Zenon DEF SharedOK, TextsRight
    <2>8. BlocksRight
        BY <2>1 DEF BlocksRight
    <2> QED BY <2>4, <2>5, <2>6, <2>7, <2>8
<1>2. IInv /\ IInv' /\ PoolInv /\ [Next]_vars => PoolInv'
    <2> SUFFICES ASSUME IInv, IInv', PoolInv, [Next]_vars, runner' # "v2" PROVE PoolOK'
        BY Zenon DEF PoolInv, PoolOK
    <2>1. runner' = runner
        BY DEF Next, vars, Arrive, Admit, Schedule, Preempt, Finish, Forward
    <2>2. PoolOK /\ runner # "v2"
        BY <2>1, Zenon DEF PoolInv, PoolOK
    <2>3. CASE UNCHANGED vars
        <3>1. /\ runner' = runner /\ status' = status /\ tokens' = tokens /\ computed' = computed
              /\ table' = table /\ content' = content /\ cache' = cache /\ batch' = batch
              /\ loaded' = loaded
            BY <2>3 DEF vars, pool
        <3>2. TablesOK'
            <4>1. \A j, r : InWindow(j, computed[r])' = InWindow(j, computed[r])
                BY <3>1, Zenon DEF InWindow
            <4> QED BY <2>2, <3>1, <4>1 DEF PoolOK, TablesOK
        <3>3. StepOK'
            <4>1. \A q : RowEnd(q)' = RowEnd(q)
                BY <3>1, Zenon DEF RowEnd
            <4>2. \A q, i : SlotOf(batch.reqs[q], Position(i))' = SlotOf(batch.reqs[q], Position(i))
                BY <3>1, Zenon DEF SlotOf, Position
            <4>3. \A i : Position(i)' = Position(i)
                BY <3>1, Zenon DEF Position
            <4>4. NumTokens' = NumTokens
                BY <3>1, Zenon DEF NumTokens
            <4>5. ASSUME NEW q \in 1..Len(batch.reqs)
                  PROVE  /\ RowEnd(q)' <= Len(table'[batch'.reqs[q]]) * BlockSize
                         /\ \A i \in batch'.query_start_loc[q]..(batch'.query_start_loc[q + 1] - 1) :
                               /\ batch'.slot_mapping[i + 1] = SlotOf(batch.reqs[q], Position(i))'
                               /\ Position(i)' < Len(tokens'[batch'.reqs[q]]) =>
                                     batch'.input_ids[i + 1] = tokens'[batch'.reqs[q]][Position(i)' + 1]
                <5>1. /\ RowEnd(q) <= Len(table[batch.reqs[q]]) * BlockSize
                      /\ \A i \in batch.query_start_loc[q]..(batch.query_start_loc[q + 1] - 1) :
                            /\ batch.slot_mapping[i + 1] = SlotOf(batch.reqs[q], Position(i))
                            /\ Position(i) < Len(tokens[batch.reqs[q]]) =>
                                  batch.input_ids[i + 1] = tokens[batch.reqs[q]][Position(i) + 1]
                    BY <2>2, Zenon DEF PoolOK, StepOK
                <5> QED BY <3>1, <4>1, <4>2, <4>3, <5>1, Zenon
            <4>6. /\ batch.slot_mapping \in Seq(Slots) /\ Len(batch.slot_mapping) = NumTokens
                  /\ \A q1, q2 \in 1..Len(batch.reqs) : batch.reqs[q1] = batch.reqs[q2] => q1 = q2
                BY <2>2, Zenon DEF PoolOK, StepOK
            <4> QED BY <3>1, <4>4, <4>5, <4>6, Zenon DEF StepOK
        <3>4. ContentOK'
            <4>1. \A q, r : RowEnd(q)' = RowEnd(q) /\ InBatch(r)' = InBatch(r)
                BY <3>1, Zenon DEF RowEnd, InBatch
            <4> QED BY <2>2, <3>1, <4>1 DEF PoolOK, ContentOK
        <3>5. SharedOK' = SharedOK
            BY <3>1, Zenon DEF SharedOK
        <3>6. Written' = Written /\ Missing' = Missing
            BY <3>1, Zenon DEF Written, Missing, BatchTokens, NumTokens
        <3>7. BlocksRight'
            <4>1. \A s \in Slots : Kept(s)
                BY <3>6, Zenon DEF Kept, Right
            <4> QED BY <2>2, <3>1, <4>1, BlocksKept DEF PoolOK, ContentOK
        <3>8. TextsRight'
            <4>1. \A r, p : BlockAt(r, p)' = BlockAt(r, p) /\ SlotOf(r, p)' = SlotOf(r, p)
                BY <3>1, Zenon DEF BlockAt, SlotOf
            <4>2. ASSUME NEW r \in Requests, NEW p \in 0..(computed'[r] - 1),
                         status'[r] = "running", BlockAt(r, p)' # 0
                  PROVE  Right(SlotOf(r, p), tokens[r][p + 1])'
                <5>1. Right(SlotOf(r, p), tokens[r][p + 1])
                    BY <2>2, <3>1, <4>1, <4>2, Zenon DEF PoolOK, TextsRight
                <5>2. tokens'[r][p + 1] = tokens[r][p + 1]
                    BY <3>1
                <5> QED BY <3>6, <4>1, <5>1, <5>2, Zenon DEF Right
            <4> QED BY <4>2, Zenon DEF TextsRight
        <3> QED BY <2>2, <3>2, <3>3, <3>4, <3>5, <3>7, <3>8, Zenon DEF PoolOK
    <2>4. CASE Forward
        BY <2>2, <2>4, ForwardKeepsPool
    <2>5. ASSUME NEW r \in Requests, NEW n \in 1..MaxChunk, NEW drafts \in BoundedSeq(Generated, MaxDrafts),
                 Schedule(r, n, drafts)
          PROVE  PoolOK'
        BY <2>2, <2>5, ScheduleKeepsPool
    <2>6. ASSUME NEW r \in Requests, NEW k \in 0..MaxLen, Admit(r, k) PROVE PoolOK'
        BY <2>2, <2>6, AdmitKeeps
    <2>7. ASSUME NEW r \in Requests, (\E p \in Prompts : Arrive(r, p)) \/ Preempt(r) \/ Finish(r) PROVE PoolOK'
        BY <2>2, <2>7, LeavesKeep
    <2> QED BY <2>3, <2>4, <2>5, <2>6, <2>7, Zenon DEF Next
<1>3. Spec => []IInv
    BY InvariantHolds
<1> QED BY <1>1, <1>2, <1>3, PTL DEF Spec

\* What the kernel finds some tokens back is the text there, unless the slot it
\* looks up is one of loaded KV.
LEMMA SourceInText ==
    ASSUME IInv, PoolInv, NEW i \in BatchTokens,
           NEW shift \in 0..LookbackDepth, shift <= Position(i), ~ReadsLoaded(i, shift)
    PROVE  Source(i, shift) = Compressed(TextTo(i)[Position(i) - shift + 1])
<1> DEFINE q        == RowOf(i)
           r        == batch.reqs[q]
           a        == batch.query_start_loc[q]
           c        == computed[r]
           p        == Position(i)
           lookback == p - shift
           col      == c - 1 - lookback
<1>0. InText(i, q, r, a, c)
    BY TextOfToken
<1>1. /\ r \in Requests /\ a \in Nat /\ c \in Nat /\ a <= i /\ i \in Nat
      /\ c < Len(tokens[r])
      /\ p = c + (i - a)
      /\ ChunkStart(q) = c
      /\ \A k \in 0..p :
            /\ TextTo(i)[k + 1] \in Tokens
            /\ k < c => TextTo(i)[k + 1] = tokens[r][k + 1]
            /\ k >= c => TextTo(i)[k + 1] = batch.input_ids[a + (k - c) + 1]
    BY <1>0, Zenon DEF InText
<1>2. prompt[r] \in Nat /\ MaxNgram \in Nat /\ LookbackDepth \in Nat /\ shift \in Nat /\ p \in Nat
    <2>1. prompt[r] \in Nat
        BY <1>1 DEF IInv, RequestsOK
    <2>2. i - a \in Nat
        BY <1>1
    <2>3. p \in Nat
        BY <1>1, <2>2
    <2> QED BY <2>1, <2>3, NgramAssumption DEF LookbackDepth
<1>3. Source(i, shift) =
        IF lookback >= c THEN Compressed(batch.input_ids[Max({i - shift, 0}) + 1])
        ELSE IF col < LookbackDepth /\ LookbackTokenIds(r)[col] # Unknown
             THEN Compressed(LookbackTokenIds(r)[col])
        ELSE IF runner = "v2" THEN PadId
        ELSE Written[SlotOf(r, Max({lookback, 0}))]
    BY <1>1, Zenon DEF Source
<1>4. runner # "v2" /\ 0 <= lookback /\ lookback < c /\ LookbackTokenIds(r)[col] = Unknown
         => SlotOf(r, lookback) \notin Missing
    BY <1>1, Zenon DEF ReadsLoaded
<1>5. status[r] = "running"
    <2>1. q \in 1..Len(batch.reqs)
        BY RowOfToken DEF IInv
    <2> HIDE DEF q
    <2> QED BY <2>1 DEF IInv, RowsOK
<1> HIDE DEF q, r, a, c, p
<1>6. lookback \in 0..p
    BY <1>2 DEF p
<1>7. CASE lookback >= c
    <2>1. i - shift >= a /\ i - shift = a + (lookback - c)
        BY <1>1, <1>2, <1>7
    <2>2. Max({i - shift, 0}) = i - shift
        <3>1. i - shift \in Int /\ i - shift >= 0
            BY <1>1, <1>2, <2>1
        <3> HIDE DEF lookback
        <3> QED BY <3>1 DEF Max
    <2>3. TextTo(i)[lookback + 1] = batch.input_ids[a + (lookback - c) + 1]
        <3> HIDE DEF lookback
        <3> QED BY <1>1, <1>6, <1>7
    <2>4. Source(i, shift) = Compressed(batch.input_ids[i - shift + 1])
        BY <1>3, <1>7, <2>2, Zenon
    <2>5. Source(i, shift) = Compressed(TextTo(i)[lookback + 1])
        BY <2>1, <2>3, <2>4, Zenon
    <2> QED BY <2>5 DEF p
<1>8. CASE ~(lookback >= c)
    <2>1. lookback \in Nat /\ lookback < c /\ lookback = c - 1 - col /\ col \in Nat
        BY <1>1, <1>2, <1>6, <1>8
    <2>2. col \in 0..(LookbackDepth - 1) /\ col < LookbackDepth
        <3>1. col <= shift - 1
            BY <1>1, <1>2
        <3> HIDE DEF col
        <3> QED BY <1>2, <2>1, <3>1
    <2>3. LookbackTokenIds(r)[col] =
            IF c - 1 - col < 0 \/ runner = "bare" \/ (runner = "v1" /\ c - 1 - col >= prompt[r])
            THEN Unknown ELSE tokens[r][c - 1 - col + 1]
        BY <2>2 DEF LookbackTokenIds, c
    <2>4. TextTo(i)[lookback + 1] = tokens[r][lookback + 1] /\ TextTo(i)[lookback + 1] \in Tokens
        BY <1>1, <1>6, <2>1
    <2> DEFINE id == LookbackTokenIds(r)[col]
    <2>5. CASE id # Unknown
        <3>1. id = tokens[r][c - 1 - col + 1]
            BY <2>3, <2>5, Zenon
        <3>2. c - 1 - col + 1 = lookback + 1
            BY <1>1, <2>1
        <3>3. id = TextTo(i)[lookback + 1]
            BY <2>4, <3>1, <3>2, Zenon
        <3>4. Source(i, shift) = Compressed(id)
            BY <1>3, <1>8, <2>2, <2>5, Zenon
        <3>5. Source(i, shift) = Compressed(TextTo(i)[lookback + 1])
            BY <3>3, <3>4, Zenon
        <3> QED BY <3>5 DEF p
    <2>6. CASE id = Unknown
        <3>1. runner # "v2"
            <4> SUFFICES ASSUME runner = "v2" PROVE FALSE
                OBVIOUS
            <4>1. id = tokens[r][lookback + 1]
                <5> HIDE DEF lookback, col
                <5>1. ~(lookback < 0) /\ c - 1 - col = lookback
                    BY <2>1
                <5>2. runner # "bare" /\ runner # "v1"
                    OBVIOUS
                <5> QED BY <2>3, <5>1, <5>2, Zenon
            <4> QED BY <2>4, <2>6, <4>1, TokenAssumption DEF Unknown
        <3>2. PoolOK
            BY <3>1, Zenon DEF PoolInv, PoolOK
        <3>3. 0 <= lookback
            BY <2>1
        <3>4. SlotOf(r, lookback) \notin Missing
            BY <1>4, <2>1, <2>6, <3>1, <3>3, Zenon
        <3>5. Max({lookback, 0}) = lookback
            <4>1. lookback \in Int /\ 0 \in Int /\ lookback >= 0
                BY <2>1
            <4> HIDE DEF lookback
            <4> QED BY <4>1, MaxOfTwo, Zenon
        <3>6. Source(i, shift) = Written[SlotOf(r, lookback)]
            BY <1>3, <1>8, <2>6, <3>1, <3>5, Zenon
        <3>7. lookback \in 0..(c - 1)
            BY <1>1, <2>1
        <3>8. BlockAt(r, lookback) # 0
            <4>1. PlaceOf(lookback) \in 1..Len(table[r])
                BY <1>1, <1>5, <3>2, <3>7, SlotOfComputed DEF PoolOK, c
            <4>2. lookback < PlaceOf(lookback) * BlockSize
                BY <2>1, PlaceFacts
            <4>3. InWindow(PlaceOf(lookback), c)
                <5> DEFINE x == PlaceOf(lookback) * BlockSize
                <5>1. PlaceOf(lookback) \in Int
                    BY <4>1
                <5>2. x \in Int
                    BY <5>1, Multiples
                <5>3. lookback < x /\ lookback \in Nat /\ lookback = c - 1 - col
                    BY <2>1, <4>2
                <5> HIDE DEF x, lookback, col
                <5>4. Window \in Nat /\ LookbackDepth < Window
                    BY BlockAssumption, WindowAssumption
                <5>5. x > c - (Window - 1)
                    BY <1>1, <1>2, <2>2, <5>2, <5>3, <5>4
                <5> QED BY <5>5, Zenon DEF InWindow, x
            <4> QED BY <1>1, <3>2, <4>1, <4>3, Zenon DEF PoolOK, TablesOK, BlockAt, c
        <3>9. Right(SlotOf(r, lookback), tokens[r][lookback + 1])
            BY <1>1, <1>5, <3>2, <3>7, <3>8, Zenon DEF PoolOK, TextsRight, c
        <3>10. Source(i, shift) = Compressed(TextTo(i)[lookback + 1])
            BY <2>4, <3>4, <3>6, <3>9, Zenon DEF Right
        <3> QED BY <3>10 DEF p
    <2> QED BY <2>5, <2>6
<1> QED BY <1>7, <1>8

\* The compressed id of a token is no mark of an image, unless it is one.
LEMMA CompressedFacts ==
    ASSUME NEW id \in Tokens
    PROVE  /\ Compressed(id) = Dead <=> id \in Images
           /\ id \notin Images => Compressed(id) = TokenMap[id]
BY TokenAssumption DEF Compressed, Dead

\* A token that looks back on no slot of loaded KV is hashed as in the whole
\* text.
LEMMA ValuesInText ==
    ASSUME IInv, PoolInv, NEW i \in BatchTokens, \A shift \in 0..LookbackDepth : ~ReadsLoaded(i, shift)
    PROVE  Values(i) = NgramsOf(TextTo(i))
<1> DEFINE p    == Position(i)
           text == TextTo(i)
<1>1. /\ p \in Nat /\ Len(text) = p + 1
      /\ \A k \in 0..p : text[k + 1] \in Tokens
    <2> DEFINE q == RowOf(i)
               r == batch.reqs[q]
               a == batch.query_start_loc[q]
               c == computed[r]
    <2>1. InText(i, q, r, a, c)
        BY TextOfToken
    <2> HIDE DEF q, r, a, c
    <2>2. a \in Nat /\ c \in Nat /\ a <= i /\ i \in Nat /\ p = c + (i - a)
        BY <2>1, Zenon DEF InText
    <2>3. p \in Nat
        BY ONLY <2>2
    <2> QED BY <2>1, <2>3, Zenon DEF InText
<1>2. MaxNgram \in Nat
    BY NgramAssumption
<1> HIDE DEF p, text
<1>3. ASSUME NEW t \in 0..(MaxNgram - 1), t <= p
      PROVE  /\ Source(i, t) = Compressed(text[p - t + 1])
             /\ text[p - t + 1] \in Tokens
    <2>1. p - t \in 0..p
        BY <1>1, <1>2, <1>3
    <2>2. t \in 0..LookbackDepth
        BY <1>2 DEF LookbackDepth
    <2> QED BY <1>1, <1>3, <2>1, <2>2, SourceInText DEF p, text
<1> DEFINE V(s) == IF \E t \in 0..(s - 1) : p - t < 0 \/ Source(i, t) = Dead
                   THEN PadId ELSE Source(i, s - 1)
           W(s) == IF p + 1 - s + 1 < 1 \/ \E k \in (p + 1 - s + 1)..(p + 1) : text[k] \in Images
                   THEN PadId ELSE TokenMap[text[p + 1 - s + 1]]
<1>4. ASSUME NEW s \in 1..MaxNgram PROVE V(s) = W(s)
    <2>1. CASE p - (s - 1) < 0
        <3>1. s - 1 \in 0..(s - 1) /\ p + 1 - s + 1 < 1
            BY <1>1, <1>2, <2>1
        <3> QED BY <2>1, <3>1
    <2>2. CASE ~(p - (s - 1) < 0)
        <3>1. \A t \in 0..(s - 1) : t \in 0..(MaxNgram - 1) /\ t <= p /\ ~(p - t < 0)
            BY <1>1, <1>2, <2>2
        <3>2. \A t \in 0..(s - 1) : Source(i, t) = Dead <=> text[p - t + 1] \in Images
            BY <1>3, <3>1, CompressedFacts
        <3>3. (\E t \in 0..(s - 1) : text[p - t + 1] \in Images)
              <=> (\E k \in (p + 1 - s + 1)..(p + 1) : text[k] \in Images)
            <4>1. ASSUME NEW t \in 0..(s - 1), text[p - t + 1] \in Images
                  PROVE  \E k \in (p + 1 - s + 1)..(p + 1) : text[k] \in Images
                <5>1. p - t + 1 \in (p + 1 - s + 1)..(p + 1)
                    BY <1>1, <1>2
                <5> QED BY <4>1, <5>1
            <4>2. ASSUME NEW k \in (p + 1 - s + 1)..(p + 1), text[k] \in Images
                  PROVE  \E t \in 0..(s - 1) : text[p - t + 1] \in Images
                <5> DEFINE t == p + 1 - k
                <5>1. t \in 0..(s - 1) /\ p - t + 1 = k
                    BY <1>1, <1>2
                <5> HIDE DEF t
                <5> QED BY <4>2, <5>1
            <4> QED BY <4>1, <4>2
        <3>4. ~(p + 1 - s + 1 < 1) /\ s - 1 \in 0..(s - 1) /\ p - (s - 1) + 1 = p + 1 - s + 1
            BY <1>1, <1>2, <2>2
        <3>5. CASE text[p - (s - 1) + 1] \in Images
            <4>1. \E t \in 0..(s - 1) : text[p - t + 1] \in Images
                BY <3>4, <3>5
            <4>2. \E t \in 0..(s - 1) : Source(i, t) = Dead
                BY <3>2, <4>1
            <4> QED BY <3>3, <4>1, <4>2
        <3>6. CASE text[p - (s - 1) + 1] \notin Images
            <4>1. s - 1 \in 0..(MaxNgram - 1) /\ s - 1 <= p
                BY <3>1, <3>4
            <4>2. Source(i, s - 1) = TokenMap[text[p + 1 - s + 1]]
                <5>1. Source(i, s - 1) = Compressed(text[p - (s - 1) + 1]) /\ text[p - (s - 1) + 1] \in Tokens
                    BY <1>3, <4>1
                <5> QED BY <3>4, <3>6, <5>1, CompressedFacts
            <4>3. (\E t \in 0..(s - 1) : p - t < 0 \/ Source(i, t) = Dead)
                  <=> (\E t \in 0..(s - 1) : text[p - t + 1] \in Images)
                BY <3>1, <3>2
            <4> QED BY <3>3, <3>4, <4>2, <4>3
        <3> QED BY <3>5, <3>6
    <2> QED BY <2>1, <2>2
<1>5. Values(i) = [s \in 1..MaxNgram |-> V(s)]
    BY Zenon DEF Values, p
<1>6. NgramsOf(text) = [s \in 1..MaxNgram |-> W(s)]
    <2> DEFINE U(s) == IF Len(text) - s + 1 < 1
                          \/ \E k \in (Len(text) - s + 1)..Len(text) : text[k] \in Images
                       THEN PadId ELSE TokenMap[text[Len(text) - s + 1]]
    <2>1. NgramsOf(text) = [s \in 1..MaxNgram |-> U(s)]
        BY Zenon DEF NgramsOf
    <2>2. ASSUME NEW s \in 1..MaxNgram PROVE U(s) = W(s)
        BY <1>1
    <2> HIDE DEF U, W
    <2> QED BY <2>1, <2>2
<1> HIDE DEF V, W
<1>7. Values(i) = NgramsOf(text)
    BY <1>4, <1>5, <1>6
<1> QED BY <1>7 DEF text

\* However a text is cut into steps, with whatever other requests it shares
\* them and whatever the slots held before, each token is hashed as in the
\* whole text: with the V2 runner, which passes the window before a chunk, and
\* with the V1 runner, which leaves a part of it to the slot cache, as long as
\* no slot it looks back on holds KV that was loaded.
THEOREM HashedAsInWhole == Spec => []HashesOfWhole
<1>1. IInv /\ PoolInv => HashesOfWhole
    BY ValuesInText, Zenon DEF HashesOfWhole
<1> QED BY <1>1, PoolInvHolds, PTL

\* The runner passes all ids before a chunk.
Passed(r) == runner = "v2" \/ (runner = "v1" /\ computed[r] <= prompt[r])

\* What is passed is not looked up.
LEMMA PassedIsNotLoaded ==
    ASSUME IInv, NEW i \in BatchTokens, Passed(batch.reqs[RowOf(i)]), NEW shift \in 0..LookbackDepth
    PROVE  ~ReadsLoaded(i, shift)
<1> DEFINE q        == RowOf(i)
           r        == batch.reqs[q]
           a        == batch.query_start_loc[q]
           c        == computed[r]
           p        == Position(i)
           lookback == p - shift
           col      == c - 1 - lookback
<1> SUFFICES ASSUME ReadsLoaded(i, shift) PROVE FALSE
    OBVIOUS
<1>1. InText(i, q, r, a, c)
    BY TextOfToken
<1>2. /\ r \in Requests /\ a \in Nat /\ c \in Nat /\ a <= i /\ i \in Nat
      /\ c < Len(tokens[r]) /\ p = c + (i - a) /\ ChunkStart(q) = c
    BY <1>1, Zenon DEF InText
<1>3. /\ runner # "v2" /\ 0 <= lookback /\ lookback < c
      /\ LookbackTokenIds(r)[col] = Unknown
    BY <1>2, Zenon DEF ReadsLoaded
<1>4. runner = "v1" /\ c <= prompt[r]
    BY <1>3 DEF Passed
<1>5. prompt[r] \in Nat /\ tokens[r] \in Seq(Tokens) /\ Len(tokens[r]) \in Nat
    BY <1>2 DEF IInv, RequestsOK
<1> HIDE DEF q, r, a, c, p
<1>6. LookbackDepth \in Nat /\ shift \in Nat
    BY NgramAssumption DEF LookbackDepth
<1>7. p \in Nat /\ c <= p
    BY <1>2
<1>8. lookback \in Int /\ lookback = c - 1 - col /\ col \in 0..(LookbackDepth - 1)
    BY <1>2, <1>3, <1>6, <1>7
<1> HIDE DEF lookback, col
<1>9. LookbackTokenIds(r)[col] =
         IF c - 1 - col < 0 \/ runner = "bare" \/ (runner = "v1" /\ c - 1 - col >= prompt[r])
         THEN Unknown ELSE tokens[r][c - 1 - col + 1]
    BY <1>8 DEF LookbackTokenIds, c
<1>10. ~(lookback < 0) /\ ~(lookback >= prompt[r]) /\ lookback + 1 \in 1..Len(tokens[r])
    BY <1>2, <1>3, <1>4, <1>5, <1>8
<1>11. LookbackTokenIds(r)[col] = tokens[r][lookback + 1]
    <2>1. c - 1 - col = lookback /\ runner # "bare"
        BY <1>4, <1>8
    <2> QED BY <1>9, <1>10, <2>1, Zenon
<1>12. tokens[r][lookback + 1] \in Tokens
    BY <1>5, <1>10, ElementOfSeq
<1> QED BY <1>3, <1>11, <1>12, TokenAssumption DEF Unknown

\* A token of which the runner passes what lies before its chunk (V2 always,
\* V1 up to the end of the prompt) is hashed as in the whole text, whatever
\* the slot cache holds, loaded KV or other.
THEOREM PassedIsHashed ==
    Spec => [](\A i \in BatchTokens :
                  Passed(batch.reqs[RowOf(i)]) => Values(i) = NgramsOf(TextTo(i)))
<1>1. IInv /\ PoolInv => \A i \in BatchTokens :
                            Passed(batch.reqs[RowOf(i)]) => Values(i) = NgramsOf(TextTo(i))
    BY PassedIsNotLoaded, ValuesInText
<1> QED BY <1>1, PoolInvHolds, PTL
-----------------------------------------------------------------------------
(* Types *)

\* What the types need besides: a request that arrives has nothing computed,
\* and one with a text a token to compute.
TextsOK ==
    \A r \in Requests :
        /\ status[r] = "out" => computed[r] = 0
        /\ tokens[r] # <<>> => computed[r] < Len(tokens[r])
        /\ prompt[r] <= Len(tokens[r])

\* The pool, the slot cache and what is counted have their types.
StoresOK ==
    /\ runner \in {"v2", "v1", "bare"}
    /\ table \in [Requests -> Seq(0..NumBlocks)]
    /\ content \in [1..NumBlocks -> Seq(Tokens)]
    /\ cache \in [Slots -> {Dead} \cup HashedIds]
    /\ preempts \in Nat
    /\ loaded \subseteq Slots

\* A compressed id is one that is hashed, unless it is the mark of an image.
LEMMA CompressedTyped ==
    ASSUME NEW id \in Tokens
    PROVE  Compressed(id) \in {Dead} \cup HashedIds
BY DEF Compressed, HashedIds

\* The slot cache after the step.
LEMMA WrittenTyped ==
    ASSUME IInv, PoolInv, StoresOK
    PROVE  Written \in [Slots -> {Dead} \cup HashedIds]
<1>1. CASE runner = "v2"
    BY <1>1 DEF Written, StoresOK
<1>2. CASE runner # "v2"
    <2>1. StepWritten /\ StepOK
        BY <1>2, WrittenByStep, Zenon DEF PoolInv
    <2>2. \E F : Written = [s \in Slots |-> F[s]]
        <3> DEFINE Here(s) == {i \in BatchTokens : batch.slot_mapping[i + 1] = s}
                   New(s)  == IF Here(s) = {} THEN cache[s]
                              ELSE Compressed(batch.input_ids[Max(Here(s)) + 1])
                   F       == [s \in Slots |-> New(s)]
        <3>1. Written = F
            BY <1>2, Zenon DEF Written
        <3> HIDE DEF New
        <3>2. F = [s \in Slots |-> F[s]]
            OBVIOUS
        <3> QED BY <3>1, <3>2, Zenon
    <2>3. ASSUME NEW s \in Slots PROVE Written[s] \in {Dead} \cup HashedIds
        <3>1. CASE s \notin Range(batch.slot_mapping)
            BY <2>1, <3>1 DEF StepWritten, StoresOK
        <3>2. CASE s \in Range(batch.slot_mapping)
            <4>1. batch.slot_mapping \in Seq(Slots) /\ Len(batch.slot_mapping) = NumTokens
                BY <2>1 DEF StepOK
            <4>2. PICK j \in 1..NumTokens : batch.slot_mapping[j] = s
                BY <3>2, <4>1 DEF Range
            <4>3. batch.input_ids \in Seq(Tokens) /\ NumTokens = Len(batch.input_ids)
                BY DEF IInv, PositionsOK, NumTokens
            <4>4. PICK i \in BatchTokens : i + 1 = j
                <5>1. j - 1 \in BatchTokens /\ (j - 1) + 1 = j
                    BY <4>2, <4>3 DEF BatchTokens
                <5> QED BY <5>1, Zenon
            <4>5. Written[s] = Compressed(batch.input_ids[j])
                BY <2>1, <4>2, <4>4, Zenon DEF StepWritten
            <4>6. batch.input_ids[j] \in Tokens
                BY <4>2, <4>3, ElementOfSeq
            <4> QED BY <4>5, <4>6, CompressedTyped
        <3> QED BY <3>1, <3>2
    <2> QED BY <2>2, <2>3
<1> QED BY <1>1, <1>2

\* The slots of KV that is loaded.
LEMMA LoadedTyped ==
    ASSUME IInv, PoolInv, StoresOK, NEW r \in Requests, NEW k \in Nat, k < Len(tokens[r]), Load(r, k),
           computed' = [computed EXCEPT ![r] = k], UNCHANGED <<runner, tokens, batch, cache>>
    PROVE  loaded' \subseteq Slots
<1>1. PoolOK
    BY Zenon DEF PoolInv, PoolOK, Load
<1>2. AdmittedWith(r, k)
    BY <1>1, LoadAdmits
<1>3. loaded' = loaded \cup {SlotOf(r, p)' : p \in {p \in 0..(k - 1) : InWindow((p \div BlockSize) + 1, k)}}
    BY Zenon DEF Load
<1>4. PICK T : T = table'[r]
    OBVIOUS
<1>5. T \in Seq(0..NumBlocks) /\ k <= Len(T) * BlockSize /\ Len(T) \in Nat
    BY <1>2, <1>4 DEF AdmittedWith
<1>6. ASSUME NEW p \in 0..(k - 1) PROVE SlotOf(r, p)' \in Slots
    <2>1. p \in Nat /\ p < Len(T) * BlockSize
        <3> DEFINE x == Len(T) * BlockSize
        <3>1. x \in Int /\ k <= x
            BY <1>5, Multiples
        <3> HIDE DEF x
        <3>2. p \in Nat /\ p < x
            BY <3>1
        <3> QED BY <3>2 DEF x
    <2>2. PlaceOf(p) \in 1..Len(T)
        <3>1. PlaceOf(p) \in Nat \ {0} /\ PlaceOf(p) <= Len(T)
            BY <1>5, <2>1, PlaceFacts, PlaceWithin
        <3> QED BY <1>5, <3>1
    <2>3. T[PlaceOf(p)] \in 0..NumBlocks
        BY <1>5, <2>2, ElementOfSeq
    <2>4. (p % BlockSize) \in 0..(BlockSize - 1)
        BY <2>1, PlaceFacts
    <2>5. T[PlaceOf(p)] * BlockSize + (p % BlockSize) \in Slots
        BY <2>3, <2>4, SlotInRange
    <2>6. SlotOf(r, p)' = T[PlaceOf(p)] * BlockSize + (p % BlockSize)
        BY <1>4, Zenon DEF SlotOf, PlaceOf
    <2> QED BY <2>5, <2>6, Zenon
<1> QED BY <1>3, <1>6 DEF StoresOK

\* A step of the runner keeps the types of the stores.
LEMMA StoresKept ==
    ASSUME IInv, PoolInv, IInv', PoolInv', StoresOK, Next
    PROVE  StoresOK'
<1>1. runner' = runner
    BY DEF Next, Arrive, Admit, Schedule, Preempt, Finish, Forward
<1>2. table' \in [Requests -> Seq(0..NumBlocks)] /\ content' \in [1..NumBlocks -> Seq(Tokens)]
    <2>1. CASE runner # "v2"
        BY <1>1, <2>1 DEF PoolInv, TablesOK, ContentOK
    <2>2. CASE runner = "v2"
        <3>1. content' = content
            BY <2>2 DEF Next, Arrive, Admit, Schedule, Preempt, Finish, Forward, pool
        <3>2. table' = table \/ \E r \in Requests : table' = [table EXCEPT ![r] = <<>>]
            BY <2>2 DEF Next, Arrive, Admit, Schedule, Preempt, Finish, Forward, pool
        <3>3. <<>> \in Seq(0..NumBlocks)
            OBVIOUS
        <3> QED BY <3>1, <3>2, <3>3 DEF StoresOK
    <2> QED BY <2>1, <2>2
<1>3. cache' \in [Slots -> {Dead} \cup HashedIds]
    <2>1. cache' = cache \/ cache' = Written
        BY DEF Next, Arrive, Admit, Schedule, Preempt, Finish, Forward
    <2> QED BY <2>1, WrittenTyped DEF StoresOK
<1>4. preempts' \in Nat
    <2>1. preempts' = preempts \/ preempts' = preempts + 1
        BY DEF Next, Arrive, Admit, Schedule, Preempt, Finish, Forward
    <2> QED BY <2>1 DEF StoresOK
<1>5. loaded' \subseteq Slots
    <2>1. CASE loaded' = loaded \/ loaded' = Missing
        BY <2>1 DEF StoresOK, Missing
    <2>2. ASSUME NEW r \in Requests, NEW k \in 0..MaxLen, Admit(r, k), Load(r, k) PROVE loaded' \subseteq Slots
        <3>1. k \in Nat
            BY BoundAssumption
        <3>2. k < Len(tokens[r]) /\ computed' = [computed EXCEPT ![r] = k]
              /\ UNCHANGED <<runner, tokens, batch, cache>>
            BY <2>2 DEF Admit
        <3> QED BY <2>2, <3>1, <3>2, LoadedTyped
    <2>3. \/ loaded' = loaded \/ loaded' = Missing
          \/ \E r \in Requests : \E k \in 0..MaxLen : Admit(r, k) /\ Load(r, k)
        <3>1. ASSUME NEW r \in Requests, NEW k \in 0..MaxLen, Admit(r, k)
              PROVE  loaded' = loaded \/ Load(r, k)
            BY <3>1 DEF Admit, Hit
        <3> QED BY <3>1 DEF Next, Arrive, Schedule, Preempt, Finish, Forward
    <2> QED BY <2>1, <2>2, <2>3
<1> QED BY <1>1, <1>2, <1>3, <1>4, <1>5 DEF StoresOK

\* A step of the runner keeps a token to compute in each text.
LEMMA TextsKept ==
    ASSUME IInv, IInv', TextsOK, Next
    PROVE  TextsOK'
<1>0. RequestsOK /\ RequestsOK'
    BY DEF IInv
<1>1. ASSUME NEW r \in Requests, NEW p \in Prompts, Arrive(r, p) PROVE TextsOK'
    <2>1. p \in Seq(Tokens)
        BY TokenAssumption
    <2>2. Len(p) \in Nat /\ (p # <<>> => 0 < Len(p))
        BY <2>1
    <2> QED BY <1>0, <1>1, <2>2 DEF Arrive, RequestsOK, TextsOK
<1>2. ASSUME NEW r \in Requests, NEW k \in 0..MaxLen, Admit(r, k) PROVE TextsOK'
    BY <1>0, <1>2 DEF Admit, RequestsOK, TextsOK
<1>3. ASSUME NEW r \in Requests, NEW n \in 1..MaxChunk,
             NEW drafts \in BoundedSeq(Generated, MaxDrafts), Schedule(r, n, drafts)
      PROVE  TextsOK'
    <2>1. UNCHANGED <<status, tokens, prompt, computed>>
        BY <1>3, Zenon DEF Schedule
    <2> QED BY <2>1 DEF TextsOK
<1>4. ASSUME NEW r \in Requests, Preempt(r) \/ Finish(r) PROVE TextsOK'
    <2>1. /\ computed' = [computed EXCEPT ![r] = 0]
          /\ \/ tokens' = tokens /\ prompt' = prompt
             \/ tokens' = [tokens EXCEPT ![r] = <<>>] /\ prompt' = [prompt EXCEPT ![r] = 0]
          /\ \E st \in {"waiting", "done"} : status' = [status EXCEPT ![r] = st]
        BY <1>4 DEF Preempt, Finish
    <2>2. Len(<<>>) = 0 /\ \A s \in Seq(Tokens) : Len(s) \in Nat /\ (s # <<>> => 0 < Len(s))
        OBVIOUS
    <2>3. ASSUME NEW r2 \in Requests
          PROVE  /\ status'[r2] = "out" => computed'[r2] = 0
                 /\ tokens'[r2] # <<>> => computed'[r2] < Len(tokens'[r2])
                 /\ prompt'[r2] <= Len(tokens'[r2])
        BY <1>0, <2>1, <2>2 DEF RequestsOK, TextsOK
    <2> QED BY <2>3 DEF TextsOK
<1>5. CASE Forward
    <2>1. ASSUME NEW r \in Requests
          PROVE  /\ status'[r] = "out" => computed'[r] = 0
                 /\ tokens'[r] # <<>> => computed'[r] < Len(tokens'[r])
                 /\ prompt'[r] <= Len(tokens'[r])
        <3>1. status' = status /\ prompt' = prompt
            BY <1>5 DEF Forward
        <3>2. /\ Len(tokens[r]) \in Nat /\ Len(tokens'[r]) \in Nat
              /\ Len(tokens[r]) <= Len(tokens'[r])
            <4>1. tokens[r] \in Seq(Tokens) /\ tokens'[r] \in Seq(Tokens)
                  /\ Len(tokens[r]) <= Len(tokens'[r])
                BY <1>5, TextsGrow
            <4> QED BY <4>1, LenProperties
        <3>3. prompt'[r] <= Len(tokens'[r])
            BY <1>0, <3>1, <3>2 DEF RequestsOK, TextsOK
        <3>4. CASE ~InBatch(r)
            <4>1. tokens'[r] = tokens[r] /\ computed'[r] = computed[r]
                BY <1>5, <3>4, ForwardAdvances
            <4> QED BY <3>1, <3>3, <4>1 DEF TextsOK
        <3>5. CASE InBatch(r)
            <4>1. status[r] = "running"
                <5>1. batch.reqs \in Seq(Requests) /\ \A q \in 1..Len(batch.reqs) : status[batch.reqs[q]] = "running"
                    BY Zenon DEF IInv, RowsOK
                <5>2. \E q \in 1..Len(batch.reqs) : batch.reqs[q] = r
                    BY <3>5, <5>1 DEF InBatch, Range
                <5> QED BY <5>1, <5>2, Zenon
            <4>2. status'[r] = "running" /\ status'[r] # "out"
                BY <3>1, <4>1
            <4>3. computed'[r] < Len(tokens'[r])
                BY <1>0, <4>2, Zenon DEF RequestsOK
            <4> QED BY <3>3, <4>2, <4>3, Zenon
        <3> QED BY <3>4, <3>5
    <2> QED BY <2>1 DEF TextsOK
<1> QED BY <1>1, <1>2, <1>3, <1>4, <1>5 DEF Next

\* Always.
LEMMA StoresHold == Spec => [](IInv /\ PoolInv /\ TextsOK /\ StoresOK)
<1>1. Init => TextsOK /\ StoresOK
    <2> SUFFICES ASSUME Init PROVE TextsOK /\ StoresOK
        OBVIOUS
    <2>1. TextsOK
        BY DEF Init, None, Zero, TextsOK
    <2>2. <<>> \in Seq(0..NumBlocks) /\ <<>> \in Seq(Tokens) /\ 0 \in {Dead} \cup HashedIds
        BY DEF HashedIds
    <2>3. StoresOK
        BY <2>2 DEF Init, None, StoresOK
    <2> QED BY <2>1, <2>3
<1>2. IInv /\ PoolInv /\ (IInv /\ PoolInv)' /\ TextsOK /\ StoresOK /\ [Next]_vars => (TextsOK /\ StoresOK)'
    <2> SUFFICES ASSUME IInv, PoolInv, IInv', PoolInv', TextsOK, StoresOK, [Next]_vars PROVE (TextsOK /\ StoresOK)'
        OBVIOUS
    <2>1. CASE Next
        BY <2>1, StoresKept, TextsKept
    <2>2. CASE UNCHANGED vars
        BY <2>2 DEF vars, pool, TextsOK, StoresOK
    <2> QED BY <2>1, <2>2
<1>3. Spec => [](IInv /\ PoolInv)
    BY PoolInvHolds
<1> QED BY <1>1, <1>2, <1>3, PTL DEF Spec

\* The variables have their types: a prompt is a part of its text, of which a
\* token is left to compute, tables name blocks, and slots hold compressed ids.
THEOREM TypeCorrect == Spec => []TypeOK
<1>3. IInv /\ TextsOK /\ StoresOK => TypeOK
    <2> SUFFICES ASSUME IInv, TextsOK, StoresOK PROVE TypeOK
        OBVIOUS
    <2>1. ASSUME NEW r \in Requests
          PROVE  /\ prompt[r] \in 0..Len(tokens[r])
                 /\ computed[r] \in Nat /\ (tokens[r] # <<>> => computed[r] < Len(tokens[r]))
                 /\ table[r] \in Seq(0..NumBlocks)
        <3>1. tokens[r] \in Seq(Tokens) /\ prompt[r] \in Nat /\ computed[r] \in Nat
            BY DEF IInv, RequestsOK
        <3> QED BY <3>1 DEF TextsOK, StoresOK
    <2>2. /\ status \in [Requests -> {"out", "waiting", "running", "done"}]
          /\ tokens \in [Requests -> Seq(Tokens)]
          /\ batch.reqs \in Seq(Requests) /\ batch.input_ids \in Seq(Tokens)
          /\ Len(batch.query_start_loc) = Len(batch.reqs) + 1
        BY DEF IInv, RequestsOK, RowsOK, PositionsOK
    <2>3. \A b \in 1..NumBlocks : content[b] \in Seq(Tokens)
        BY DEF StoresOK
    <2>4. {Dead} \cup HashedIds \subseteq {Dead} \cup Nat
        BY TokenAssumption DEF HashedIds
    <2>5. cache \in [Slots -> {Dead} \cup Nat]
        BY <2>4 DEF StoresOK
    <2> QED BY <2>1, <2>2, <2>3, <2>5 DEF TypeOK, StoresOK
<1> QED BY <1>3, StoresHold, PTL
-----------------------------------------------------------------------------
(* The rows that the ranks fetch. Sizes and offsets of buckets are folds,   *)
(* of which LaidOut says what is needed; TLC evaluates it for an instance. *)

\* Multiples of a natural.
LEMMA TimesFacts ==
    ASSUME NEW a \in Nat, NEW b \in Nat, NEW d \in Nat
    PROVE  /\ a * d \in Nat
           /\ (a + 1) * d = a * d + d
           /\ a <= b => a * d <= b * d
           /\ a < b => a * d + d <= b * d
<1>1. /\ \A i, e \in Nat : i * e \in Nat
      /\ \A i, e \in Nat : (a + i) * e = a * e + i * e
      /\ \A e \in Nat : 1 * e = e
    OBVIOUS
<1>2. ASSUME a <= b PROVE a * d <= b * d
    <2>1. PICK c \in Nat : a + c = b
        <3>1. b - a \in Nat /\ a + (b - a) = b
            BY <1>2
        <3> QED BY <3>1
    <2> DEFINE x == a * d
               y == c * d
    <2>2. x \in Nat /\ y \in Nat /\ b * d = x + y
        BY <1>1, <2>1
    <2> HIDE DEF x, y
    <2>3. x <= b * d
        BY <2>2
    <2> QED BY <2>3 DEF x
<1>3. ASSUME a < b PROVE a * d + d <= b * d
    <2>1. PICK c \in Nat : (a + 1) + c = b
        <3>1. b - (a + 1) \in Nat /\ (a + 1) + (b - (a + 1)) = b
            BY <1>3
        <3> QED BY <3>1
    <2> DEFINE x == (a + 1) * d
               y == c * d
    <2>2. x \in Nat /\ y \in Nat /\ b * d = x + y
        <3>1. \A j, i, e \in Nat : (j + i) * e = j * e + i * e
            OBVIOUS
        <3>2. a + 1 \in Nat
            OBVIOUS
        <3> QED BY <1>1, <2>1, <3>1, <3>2
    <2> HIDE DEF y
    <2>3. x <= b * d
        <3> HIDE DEF x
        <3> QED BY <2>2
    <2>4. x = a * d + d
        BY <1>1
    <2> QED BY <2>3, <2>4
<1>4. a * d \in Nat /\ (a + 1) * d = a * d + d
    BY <1>1
<1> QED BY <1>2, <1>3, <1>4

\* A natural by a divisor.
LEMMA DivFacts ==
    ASSUME NEW a \in Nat, NEW d \in Nat \ {0}
    PROVE  /\ a \div d \in Nat /\ a % d \in 0..(d - 1)
           /\ (a \div d) * d \in Nat
           /\ a = (a \div d) * d + (a % d)
<1>1. a \div d \in Nat /\ a % d \in 0..(d - 1)
    OBVIOUS
<1>2. a = d * (a \div d) + (a % d)
    BY DivMod
<1> DEFINE q == a \div d
<1> HIDE DEF q
<1>3. d * q = q * d /\ q * d \in Nat
    <2>1. q \in Nat
        BY <1>1 DEF q
    <2> QED BY <2>1
<1>4. a = q * d + (a % d)
    BY <1>2, <1>3, Zenon DEF q
<1> QED BY <1>1, <1>3, <1>4 DEF q

\* A quotient and its remainder.
LEMMA DivOfSum ==
    ASSUME NEW q \in Nat, NEW d \in Nat \ {0}, NEW o \in 0..(d - 1)
    PROVE  (q * d + o) \div d = q /\ (q * d + o) % d = o
<1> SUFFICES ASSUME NEW a, a = q * d + o PROVE a \div d = q /\ a % d = o
    OBVIOUS
<1>1. a \in Nat
    <2>1. q * d \in Nat
        BY TimesFacts
    <2> QED BY <2>1
<1> DEFINE p == a \div d
           m == a % d
<1>2. p \in Nat /\ m \in 0..(d - 1) /\ a = p * d + m /\ p * d \in Nat
    BY <1>1, DivFacts
<1> HIDE DEF p, m
<1>3. q * d \in Nat /\ (p < q => p * d + d <= q * d) /\ (q < p => q * d + d <= p * d)
    BY <1>2, TimesFacts
<1> DEFINE x == q * d
           y == p * d
<1>4. x \in Nat /\ y \in Nat /\ a = x + o /\ a = y + m
      /\ (p < q => y + d <= x) /\ (q < p => x + d <= y)
    BY <1>2, <1>3
<1> HIDE DEF x, y
<1>5. ~(p < q) /\ ~(q < p)
    BY <1>2, <1>4
<1>6. p = q
    BY <1>2, <1>5
<1>7. x = y
    BY <1>6 DEF x, y
<1>8. m = o
    BY <1>2, <1>4, <1>7
<1> QED BY <1>6, <1>8 DEF p, m

\* Rounded up, a quotient covers what is divided.
LEMMA CdivFacts ==
    ASSUME NEW n \in Nat, NEW d \in Nat \ {0}
    PROVE  /\ Cdiv(n, d) \in Nat /\ n <= Cdiv(n, d) * d /\ n <= d * Cdiv(n, d)
           /\ n # 0 => Cdiv(n, d) # 0
<1> DEFINE a == n + d - 1
           q == a \div d
           m == a % d
<1>1. a \in Nat
    OBVIOUS
<1>2. q \in Nat /\ m \in 0..(d - 1) /\ a = q * d + m /\ q * d \in Nat
    BY <1>1, DivFacts
<1>3. Cdiv(n, d) = q
    BY DEF Cdiv
<1> HIDE DEF q, m
<1>4. n <= q * d /\ q * d = d * q
    <2> DEFINE x == q * d
    <2>1. x \in Nat /\ n + d - 1 = x + m
        BY <1>2
    <2>2. x = d * q
        BY <1>2
    <2> HIDE DEF x
    <2>3. n <= x
        BY <1>2, <2>1
    <2> QED BY <2>2, <2>3 DEF x
<1>5. n # 0 => q # 0
    <2>1. 0 * d = 0
        OBVIOUS
    <2>2. q = 0 => n <= 0
        BY <1>4, <2>1
    <2> QED BY <2>2
<1> QED BY <1>2, <1>3, <1>4, <1>5

\* There are columns.
LEMMA NumColsFacts == NumCols \in Nat \ {0}
<1>1. LookbackDepth \in Nat \ {0} /\ NumHeads \in Nat \ {0}
    BY NgramAssumption, HeadsAssumption DEF LookbackDepth
<1>2. \A i, j \in Nat \ {0} : i * j \in Nat \ {0}
    OBVIOUS
<1> QED BY <1>1, <1>2, Zenon DEF NumCols

\* The columns, and those of a rank.
LEMMA ColumnFacts ==
    ASSUME NEW tp \in TpSizes
    PROVE  /\ tp \in Nat \ {0} /\ NumCols \in Nat \ {0} /\ PartCols(tp) \in Nat \ {0}
           /\ NumCols <= tp * PartCols(tp)
<1>1. tp \in Nat \ {0}
    BY RanksAssumption
<1>2. NumCols \in Nat \ {0}
    BY NumColsFacts
<1>3. Cdiv(NumCols, tp) \in Nat /\ NumCols <= tp * Cdiv(NumCols, tp) /\ Cdiv(NumCols, tp) # 0
    BY <1>1, <1>2, CdivFacts
<1> QED BY <1>1, <1>2, <1>3 DEF PartCols

\* A column is one of the rank it divides to.
LEMMA RankOfColumn ==
    ASSUME NEW tp \in TpSizes, NEW col \in 0..(NumCols - 1),
           NEW P, P = PartCols(tp), NEW rank, rank = col \div P
    PROVE  /\ rank \in 0..(tp - 1) /\ (col % P) \in 0..(P - 1)
           /\ rank * P \in Nat /\ (rank + 1) * P \in Nat
           /\ rank * P + (col % P) = col
           /\ rank * P <= col /\ col + 1 <= (rank + 1) * P
<1>1. tp \in Nat \ {0} /\ NumCols \in Nat \ {0} /\ P \in Nat \ {0} /\ NumCols <= tp * P
    BY ColumnFacts
<1>2. col \in Nat
    BY <1>1
<1> DEFINE c == col % P
<1>3. rank \in Nat /\ c \in 0..(P - 1) /\ rank * P \in Nat /\ col = rank * P + c
    BY <1>1, <1>2, DivFacts
<1>4. (rank + 1) * P = rank * P + P /\ tp * P \in Nat /\ (tp <= rank => tp * P <= rank * P)
    <2>1. rank \in Nat /\ tp \in Nat /\ P \in Nat
        BY <1>1, <1>3
    <2> QED BY <2>1, TimesFacts, Zenon
<1> DEFINE x == rank * P
           y == tp * P
<1>5. /\ x \in Nat /\ col = x + c /\ y \in Nat /\ NumCols <= y /\ (tp <= rank => y <= x)
      /\ P \in Nat /\ c \in 0..(P - 1) /\ NumCols \in Nat /\ col < NumCols /\ col \in Nat
      /\ rank \in Nat /\ tp \in Nat
    <2>1. col \in Nat /\ col < NumCols
        BY <1>1
    <2>2. x \in Nat /\ col = x + c /\ c \in 0..(P - 1) /\ rank \in Nat
        BY <1>3, Zenon
    <2>3. y \in Nat /\ NumCols <= y /\ (tp <= rank => y <= x)
        BY <1>1, <1>4, Zenon
    <2>4. P \in Nat /\ NumCols \in Nat /\ tp \in Nat
        BY <1>1
    <2> QED BY <2>1, <2>2, <2>3, <2>4, Zenon
<1> HIDE DEF c, x, y
<1>6. x <= col /\ col + 1 <= x + P /\ x + P \in Nat /\ ~(tp <= rank)
    BY ONLY <1>5
<1>7. rank \in 0..(tp - 1)
    BY ONLY <1>5, <1>6
<1> QED BY <1>3, <1>4, <1>6, <1>7 DEF c, x

\* The ids of a token lie in the buckets of their columns, and buckets follow
\* one another.
InBuckets(layer, ids) ==
    /\ \A c \in 0..NumCols : Offset(layer, c) \in Int
    /\ \A c, d \in 0..NumCols : c <= d => Offset(layer, c) <= Offset(layer, d)
    /\ \A col \in 0..(NumCols - 1) :
          ids[col] \in Int /\ Offset(layer, col) <= ids[col] /\ ids[col] < Offset(layer, col + 1)

\* The rank of a column finds its row, and in a copy if it has one.
LEMMA RankFindsRow ==
    ASSUME NEW tp \in TpSizes, NEW layer, NEW copy, copy.lo \in Int, copy.hi \in Int,
           NEW ids, InBuckets(layer, ids), NEW col \in 0..(NumCols - 1)
    PROVE  Lookup(tp, layer, col \div PartCols(tp), copy, ids)[col % PartCols(tp)] = ids[col]
<1> DEFINE P     == PartCols(tp)
           rank  == col \div P
           c     == col % P
           part  == PartVocab(tp, layer, rank)
<1>1. /\ tp \in Nat \ {0} /\ NumCols \in Nat \ {0} /\ P \in Nat \ {0}
      /\ rank \in 0..(tp - 1) /\ c \in 0..(P - 1)
      /\ rank * P \in Nat /\ (rank + 1) * P \in Nat
      /\ rank * P + c = col /\ rank * P <= col /\ col + 1 <= (rank + 1) * P
    BY ColumnFacts, RankOfColumn
<1> HIDE DEF P, rank, c
<1> DEFINE a == Min({rank * P, NumCols})
           b == Min({(rank + 1) * P, NumCols})
<1>2. a \in 0..NumCols /\ a <= col /\ b \in 0..NumCols /\ col + 1 <= b
    <2> DEFINE x == rank * P
               y == (rank + 1) * P
    <2>1. x \in Nat /\ y \in Nat /\ x <= col /\ col + 1 <= y
        BY <1>1
    <2>2. a = IF x <= NumCols THEN x ELSE NumCols
        <3> HIDE DEF x
        <3> QED BY <1>1, <2>1, MinOfTwo DEF x
    <2>3. b = IF y <= NumCols THEN y ELSE NumCols
        <3> HIDE DEF y
        <3> QED BY <1>1, <2>1, MinOfTwo DEF y
    <2> HIDE DEF x, y, a, b
    <2> QED BY <1>1, <2>1, <2>2, <2>3
<1>3. part.start = Offset(layer, a) /\ part.end = Offset(layer, b)
    BY Zenon DEF PartVocab, P, rank
<1> HIDE DEF a, b, part
<1>4. /\ ids[col] \in Int /\ part.start \in Int /\ part.end \in Int
      /\ part.start <= ids[col] /\ ids[col] < part.end
    <2>1. col \in 0..NumCols /\ col + 1 \in 0..NumCols
        BY <1>1
    <2>2. /\ Offset(layer, a) <= Offset(layer, col) /\ Offset(layer, col + 1) <= Offset(layer, b)
          /\ Offset(layer, a) \in Int /\ Offset(layer, b) \in Int
          /\ Offset(layer, col) \in Int /\ Offset(layer, col + 1) \in Int
        BY <1>2, <2>1 DEF InBuckets
    <2>3. ids[col] \in Int /\ Offset(layer, col) <= ids[col] /\ ids[col] < Offset(layer, col + 1)
        BY DEF InBuckets
    <2> DEFINE i == Offset(layer, a)
               j == Offset(layer, col)
               k == Offset(layer, col + 1)
               l == Offset(layer, b)
    <2>4. i \in Int /\ j \in Int /\ k \in Int /\ l \in Int /\ i <= j /\ k <= l /\ j <= ids[col] /\ ids[col] < k
        BY <2>2, <2>3
    <2>5. part.start = i /\ part.end = l
        BY <1>3
    <2> HIDE DEF i, j, k, l
    <2> QED BY <2>3, <2>4, <2>5
<1>5. ReadRow(copy, part, ids[col]) = ids[col]
    BY <1>4 DEF ReadRow
<1>6. Lookup(tp, layer, rank, copy, ids)[c] =
         IF col < NumCols /\ part.start <= ids[col] /\ ids[col] < part.end
         THEN ReadRow(copy, part, ids[col]) ELSE Zeros
    BY <1>1, Zenon DEF Lookup, part, P
<1>7. col < NumCols
    BY <1>1
<1>8. Lookup(tp, layer, rank, copy, ids)[c] = ids[col]
    BY <1>4, <1>5, <1>6, <1>7, Zenon
<1> QED BY <1>8, Zenon DEF rank, c, P

\* The columns of all ranks side by side.
LEMMA ColumnsAreFetched ==
    ASSUME NEW tp \in TpSizes, NEW layer, NEW copy, copy.lo \in Int, copy.hi \in Int,
           NEW ids, InBuckets(layer, ids), NEW col \in 0..(NumCols - 1)
    PROVE  Embed(tp, layer, copy, ids)[col] = ids[col]
<1>1. Embed(tp, layer, copy, ids)[col] = Lookup(tp, layer, col \div PartCols(tp), copy, ids)[col % PartCols(tp)]
    BY Zenon DEF Embed
<1>2. Lookup(tp, layer, col \div PartCols(tp), copy, ids)[col % PartCols(tp)] = ids[col]
    BY RankFindsRow
<1> QED BY <1>1, <1>2, Zenon

\* With sequence parallelism the share of a rank has the rows of its tokens,
\* also when the tokens do not divide by the ranks.
LEMMA SharesAreFetched ==
    ASSUME NEW tp \in TpSizes, NEW layer, NEW copy, copy.lo \in Int, copy.hi \in Int,
           NEW ids, Len(ids) \in Nat \ {0}, NEW i \in 0..(Len(ids) - 1), InBuckets(layer, ids[i + 1]),
           NEW col \in 0..(NumCols - 1)
    PROVE  EmbedShare(tp, layer, copy, i \div Cdiv(Len(ids), tp), ids)[i % Cdiv(Len(ids), tp)][col]
              = ids[i + 1][col]
<1> DEFINE n     == Len(ids)
           share == Cdiv(n, tp)
           P     == PartCols(tp)
           rank  == i \div share
           o     == i % share
           q     == col \div P
           at    == q * n + i
           size  == Min({share, Max({0, n - rank * share})})
           gathered == [k \in 0..(tp * n - 1) |-> Lookup(tp, layer, k \div n, copy, ids[(k % n) + 1])]
<1>1. /\ tp \in Nat \ {0} /\ P \in Nat \ {0} /\ q \in 0..(tp - 1)
    BY ColumnFacts, RankOfColumn
<1>2. n \in Nat \ {0} /\ i \in Nat /\ i < n
    OBVIOUS
<1>3. share \in Nat \ {0}
    BY <1>1, <1>2, CdivFacts
<1> HIDE DEF n, P, q, share
<1>4. rank \in Nat /\ o \in 0..(share - 1) /\ rank * share \in Nat /\ i = rank * share + o
    BY <1>2, <1>3, DivFacts
<1> HIDE DEF rank, o
<1>5. o \in 0..(size - 1)
    <2> DEFINE x == rank * share
    <2>1. x \in Nat /\ i = x + o
        BY <1>4
    <2> HIDE DEF x
    <2>2. n - x \in Int /\ Max({0, n - x}) = IF 0 >= n - x THEN 0 ELSE n - x
        BY <1>2, <2>1, MaxOfTwo
    <2>3. Max({0, n - x}) = n - x /\ o < n - x
        BY <1>2, <1>4, <2>1, <2>2
    <2>4. size = IF share <= n - x THEN share ELSE n - x
        <3>1. size = Min({share, n - x})
            BY <2>3, Zenon DEF x
        <3> QED BY <1>3, <2>2, <3>1, MinOfTwo
    <2> HIDE DEF size
    <2> QED BY <1>3, <1>4, <2>2, <2>3, <2>4
<1>6. at \in 0..(tp * n - 1)
    <2>1. q \in Nat /\ q < tp
        BY <1>1
    <2>2. q * n \in Nat /\ q * n + n <= tp * n /\ tp * n \in Nat
        BY <1>1, <1>2, <2>1, TimesFacts
    <2> DEFINE x == q * n
               y == tp * n
    <2>3. x \in Nat /\ y \in Nat /\ x + n <= y
        BY <2>2
    <2> HIDE DEF x, y
    <2>4. x + i \in 0..(y - 1)
        BY <1>2, <2>3
    <2> QED BY <2>4 DEF x, y
<1>7. at \div n = q /\ at % n = i
    <2>1. q \in Nat /\ i \in 0..(n - 1) /\ n \in Nat \ {0}
        BY <1>1, <1>2
    <2> QED BY <2>1, DivOfSum, Zenon
<1>8. q * n + rank * share + o = at
    <2> DEFINE x == q * n
               y == rank * share
    <2>1. x \in Nat /\ y \in Nat /\ i = y + o
        BY <1>1, <1>2, <1>4, TimesFacts
    <2> HIDE DEF x, y
    <2>2. x + y + o = x + i
        <3>1. o \in Int
            BY <1>3, <1>4
        <3> QED BY ONLY <2>1, <3>1
    <2> QED BY <2>2, Zenon DEF x, y, at
<1> HIDE DEF at
<1>9. gathered[at] = Lookup(tp, layer, q, copy, ids[i + 1])
    <2> DEFINE G(k) == Lookup(tp, layer, k \div n, copy, ids[(k % n) + 1])
    <2>1. gathered = [k \in 0..(tp * n - 1) |-> G(k)]
        OBVIOUS
    <2>2. G(at) = Lookup(tp, layer, q, copy, ids[i + 1])
        BY <1>7, Zenon
    <2> HIDE DEF G, gathered
    <2> QED BY <1>6, <2>1, <2>2, Zenon
<1> HIDE DEF gathered
<1>10. EmbedShare(tp, layer, copy, rank, ids)
          = [k \in 0..(size - 1) |-> [cl \in 0..(NumCols - 1) |->
                gathered[(cl \div P) * n + rank * share + k][cl % P]]]
    BY Zenon DEF EmbedShare, gathered, n, share, P
<1> HIDE DEF size
<1>11. EmbedShare(tp, layer, copy, rank, ids)[o][col] = gathered[q * n + rank * share + o][col % P]
    <2> DEFINE F(k) == [cl \in 0..(NumCols - 1) |->
                          gathered[(cl \div P) * n + rank * share + k][cl % P]]
    <2>1. EmbedShare(tp, layer, copy, rank, ids) = [k \in 0..(size - 1) |-> F(k)]
        BY <1>10, Zenon
    <2>2. F(o)[col] = gathered[q * n + rank * share + o][col % P]
        BY Zenon DEF q
    <2> HIDE DEF F
    <2>3. EmbedShare(tp, layer, copy, rank, ids)[o] = F(o)
        BY <1>5, <2>1, Zenon
    <2> QED BY <2>2, <2>3, Zenon
<1>12. EmbedShare(tp, layer, copy, rank, ids)[o][col] = Lookup(tp, layer, q, copy, ids[i + 1])[col % P]
    BY <1>8, <1>9, <1>11, Zenon
<1>13. Lookup(tp, layer, q, copy, ids[i + 1])[col % P] = ids[i + 1][col]
    BY RankFindsRow DEF P, q
<1>14. EmbedShare(tp, layer, copy, rank, ids)[o][col] = ids[i + 1][col]
    BY <1>12, <1>13
<1> QED BY <1>14, Zenon DEF rank, o, share, n

\* Buckets further on begin later.
LEMMA OffsetsAscend ==
    ASSUME LaidOut, NEW layer \in Layers, NEW c \in 0..NumCols, NEW d \in 0..NumCols, c <= d
    PROVE  Offset(layer, c) <= Offset(layer, d)
<1> DEFINE T == {e \in 0..NumCols : c <= e /\ ~(Offset(layer, c) <= Offset(layer, e))}
<1>1. SUFFICES T = {}
    OBVIOUS
<1>2. SUFFICES ASSUME T # {} PROVE FALSE
    OBVIOUS
<1>3. T \in SUBSET Nat
    OBVIOUS
<1>4. PICK m \in T : \A e \in T : m <= e
    <2> HIDE DEF T
    <2> QED BY <1>2, <1>3, MinOfNaturals
<1>5. m \in 0..NumCols /\ c <= m /\ ~(Offset(layer, c) <= Offset(layer, m))
    OBVIOUS
<1>6. \A e \in 0..NumCols : Offset(layer, e) \in Int
    BY DEF LaidOut
<1>7. c < m
    BY <1>5, <1>6
<1>8. m - 1 \in 0..(NumCols - 1) /\ c <= m - 1 /\ (m - 1) + 1 = m /\ ~(m <= m - 1) /\ m - 1 \in 0..NumCols
    BY <1>5, <1>7, NumColsFacts
<1>9. Offset(layer, c) <= Offset(layer, m - 1)
    BY <1>4, <1>8
<1>10. /\ SizesOf(layer)[(m - 1) + 1] \in Nat \ {0}
       /\ Offset(layer, (m - 1) + 1) = Offset(layer, m - 1) + SizesOf(layer)[(m - 1) + 1]
    BY <1>8, Zenon DEF LaidOut
<1>11. Offset(layer, m - 1) <= Offset(layer, m)
    <2>1. SizesOf(layer)[m] \in Nat /\ Offset(layer, m) = Offset(layer, m - 1) + SizesOf(layer)[m]
        BY <1>8, <1>10
    <2> QED BY <1>6, <1>8, <2>1
<1>12. Offset(layer, c) \in Int /\ Offset(layer, m - 1) \in Int /\ Offset(layer, m) \in Int
    BY <1>5, <1>6, <1>8
<1> QED BY <1>5, <1>9, <1>11, <1>12

\* An id lies in the bucket of its column.
LEMMA HashIdFacts ==
    ASSUME LaidOut, NEW layer \in Layers, NEW g \in Ngrams, NEW col \in 0..(NumCols - 1)
    PROVE  LET id == HashIds(layer, g)[col]
           IN  /\ id \in Nat /\ Offset(layer, col) <= id /\ id < Offset(layer, col + 1)
               /\ <<col, id - Offset(layer, col)>> = Bucket(layer, g, col)
<1> DEFINE h == Rolling(layer, SubSeq(g, 1, (col \div NumHeads) + 2))
           n == SizesOf(layer)[col + 1]
           o == Offset(layer, col)
           e == Offset(layer, col + 1)
           id == HashIds(layer, g)[col]
<1>1. h \in Int
    BY RollingAssumption
<1>2. n \in Nat \ {0} /\ e = o + n
    BY Zenon DEF LaidOut
<1>3. o \in Nat
    <2>1. col \in 0..NumCols
        <3>1. NumCols \in Int
            BY NumColsFacts
        <3> QED BY <3>1
    <2> QED BY <2>1, Zenon DEF LaidOut
<1>4. id = (h % n) + o
    BY Zenon DEF HashIds
<1>5. Bucket(layer, g, col) = <<col, h % n>>
    BY Zenon DEF Bucket
<1> HIDE DEF h, n, o, e, id
<1>6. (h % n) \in 0..(n - 1)
    BY <1>1, <1>2
<1>7. id \in Nat /\ o <= id /\ id < e /\ id - o = h % n
    BY <1>2, <1>3, <1>4, <1>6
<1>8. <<col, id - o>> = Bucket(layer, g, col)
    BY <1>5, <1>7
<1> QED BY <1>7, <1>8 DEF id, o, e

\* The place of an id in the checkpoint is that of its bucket.
LEMMA IdsInBuckets ==
    ASSUME LaidOut, NEW layer \in Layers, NEW g \in Ngrams
    PROVE  /\ InBuckets(layer, HashIds(layer, g))
           /\ \A col \in 0..(NumCols - 1) :
                 TableRow(layer, HashIds(layer, g)[col]) = Bucket(layer, g, col)
<1>0. NumCols \in Int
    BY NumColsFacts
<1>1. InBuckets(layer, HashIds(layer, g))
    <2>1. \A c \in 0..NumCols : Offset(layer, c) \in Nat
        BY Zenon DEF LaidOut
    <2>2. \A c, d \in 0..NumCols : c <= d => Offset(layer, c) <= Offset(layer, d)
        BY OffsetsAscend
    <2>3. \A col \in 0..(NumCols - 1) :
             /\ HashIds(layer, g)[col] \in Nat /\ Offset(layer, col) <= HashIds(layer, g)[col]
             /\ HashIds(layer, g)[col] < Offset(layer, col + 1)
        BY HashIdFacts, Zenon
    <2>4. \A col \in 0..(NumCols - 1) : HashIds(layer, g)[col] \in Int
        BY <2>3
    <2>5. \A c \in 0..NumCols : Offset(layer, c) \in Int
        BY <2>1
    <2> QED BY <2>2, <2>3, <2>4, <2>5, Zenon DEF InBuckets
<1>2. ASSUME NEW col \in 0..(NumCols - 1)
      PROVE  TableRow(layer, HashIds(layer, g)[col]) = Bucket(layer, g, col)
    <2> DEFINE id == HashIds(layer, g)[col]
               C  == {c \in 0..(NumCols - 1) : Offset(layer, c) <= id}
    <2>1. /\ id \in Nat /\ Offset(layer, col) <= id /\ id < Offset(layer, col + 1)
          /\ <<col, id - Offset(layer, col)>> = Bucket(layer, g, col)
        BY HashIdFacts, Zenon
    <2> HIDE DEF id
    <2>2. col \in C
        BY <2>1
    <2>3. ASSUME NEW c \in C PROVE c <= col
        <3>1. c \in 0..(NumCols - 1) /\ Offset(layer, c) <= id
            OBVIOUS
        <3>2. SUFFICES ASSUME col < c PROVE FALSE
            BY <1>0, <3>1
        <3>3. col + 1 \in 0..NumCols /\ c \in 0..NumCols /\ col + 1 <= c
            BY <1>0, <3>1, <3>2
        <3>4. /\ Offset(layer, col + 1) <= Offset(layer, c)
              /\ Offset(layer, col + 1) \in Int /\ Offset(layer, c) \in Int
            BY <1>1, <3>3, Zenon DEF InBuckets
        <3> QED BY <2>1, <3>1, <3>4
    <2>4. Max(C) = col
        <3>1. Max(C) = CHOOSE x \in C : \A y \in C : x >= y
            BY Zenon DEF Max
        <3>2. C \subseteq Int
            BY <1>0
        <3> HIDE DEF C
        <3>3. \A y \in C : col >= y
            BY <1>0, <2>3, <3>2
        <3>4. \A x \in C : (\A y \in C : x >= y) => x = col
            BY <1>0, <2>2, <2>3, <3>2
        <3> QED BY <2>2, <3>1, <3>3, <3>4
    <2>5. TableRow(layer, id) = <<Max(C), id - Offset(layer, Max(C))>>
        BY Zenon DEF TableRow
    <2> HIDE DEF C
    <2>6. TableRow(layer, id) = Bucket(layer, g, col)
        BY <2>1, <2>4, <2>5, Zenon
    <2> QED BY <2>6 DEF id
<1> QED BY <1>1, <1>2

\* Every column of every n-gram gets the row of its bucket in the checkpoint,
\* for any number of heads, columns and ranks, also when the columns do not
\* divide by the ranks nor the tokens of a step, and whatever part of the table
\* a node has a copy of (ParallelEngramEmbedding).
THEOREM EveryNgramFetched ==
    ASSUME LaidOut
    PROVE  Fetched = Ngrams
<1>1. SUFFICES ASSUME NEW g \in Ngrams, NEW layer \in Layers, NEW tp \in TpSizes,
                      NEW copy \in LocalCopies, NEW col \in 0..(NumCols - 1)
               PROVE  LET ids == HashIds(layer, g)
                          row == Embed(tp, layer, copy, ids)[col]
                      IN  /\ row >= 0 /\ TableRow(layer, row) = Bucket(layer, g, col)
                          /\ \A n \in 1..MaxChunk : \A i \in 0..(n - 1) :
                                LET step  == [k \in 1..n |-> IF k = i + 1 THEN ids ELSE HashIds(layer, [g EXCEPT ![1] = 0])]
                                    share == Cdiv(n, tp)
                                IN  EmbedShare(tp, layer, copy, i \div share, step)[i % share][col] = row
    BY Zenon DEF Fetched
<1> DEFINE ids == HashIds(layer, g)
           row == Embed(tp, layer, copy, ids)[col]
           other == HashIds(layer, [g EXCEPT ![1] = 0])
<1>2. copy.lo \in Int /\ copy.hi \in Int
    BY CopiesAssumption
<1>3. InBuckets(layer, ids) /\ TableRow(layer, ids[col]) = Bucket(layer, g, col)
    BY IdsInBuckets
<1>4. ids[col] >= 0
    <2>1. ids[col] \in Nat
        BY HashIdFacts, Zenon
    <2> HIDE DEF ids
    <2> QED BY <2>1
<1> HIDE DEF ids, other
<1>5. row = ids[col]
    BY <1>2, <1>3, ColumnsAreFetched
<1> HIDE DEF row
<1>6. ASSUME NEW n \in 1..MaxChunk, NEW i \in 0..(n - 1)
      PROVE  LET step  == [k \in 1..n |-> IF k = i + 1 THEN ids ELSE other]
                 share == Cdiv(n, tp)
             IN  EmbedShare(tp, layer, copy, i \div share, step)[i % share][col] = row
    <2> DEFINE step == [k \in 1..n |-> IF k = i + 1 THEN ids ELSE other]
    <2>1. n \in Nat \ {0} /\ i + 1 \in 1..n
        BY BoundAssumption
    <2>2. step \in Seq({ids, other}) /\ Len(step) = n
        <3>1. step \in [1..n -> {ids, other}]
            OBVIOUS
        <3> HIDE DEF step
        <3> QED BY <2>1, <3>1
    <2>3. step[i + 1] = ids
        BY <2>1
    <2> HIDE DEF step
    <2>4. i \in 0..(Len(step) - 1)
        BY <2>2
    <2>5. EmbedShare(tp, layer, copy, i \div Cdiv(Len(step), tp), step)[i % Cdiv(Len(step), tp)][col] = step[i + 1][col]
        <3>1. InBuckets(layer, step[i + 1])
            BY <1>3, <2>3, Zenon
        <3>2. Len(step) \in Nat \ {0}
            BY <2>1, <2>2
        <3>3. ASSUME NEW ts, Len(ts) \in Nat \ {0}, i \in 0..(Len(ts) - 1), InBuckets(layer, ts[i + 1])
              PROVE  EmbedShare(tp, layer, copy, i \div Cdiv(Len(ts), tp), ts)[i % Cdiv(Len(ts), tp)][col]
                        = ts[i + 1][col]
            BY <1>2, <3>3, SharesAreFetched
        <3> QED BY <2>4, <3>1, <3>2, <3>3, Zenon
    <2>6. EmbedShare(tp, layer, copy, i \div Cdiv(n, tp), step)[i % Cdiv(n, tp)][col] = row
        BY <1>5, <2>2, <2>3, <2>5
    <2> QED BY <2>6, Zenon DEF step
<1>7. row >= 0 /\ TableRow(layer, row) = Bucket(layer, g, col)
    BY <1>3, <1>4, <1>5
<1> QED BY <1>6, <1>7, Zenon DEF row, ids, other

\* What the kernel finds some tokens back may be hashed, or is a mark.
LEMMA SourceTyped ==
    ASSUME IInv, PoolInv, StoresOK, NEW i \in BatchTokens,
           NEW shift \in 0..LookbackDepth, shift <= Position(i)
    PROVE  Source(i, shift) \in {Dead} \cup HashedIds
<1> DEFINE q        == RowOf(i)
           r        == batch.reqs[q]
           a        == batch.query_start_loc[q]
           c        == computed[r]
           p        == Position(i)
           lookback == p - shift
           col      == ChunkStart(q) - 1 - lookback
<1>1. InText(i, q, r, a, c)
    BY TextOfToken
<1>2. a \in Nat /\ c \in Nat /\ a <= i /\ i \in Nat /\ p = c + (i - a) /\ ChunkStart(q) = c
    BY <1>1, Zenon DEF InText
<1>3. CASE ~ReadsLoaded(i, shift)
    <2>1. Source(i, shift) = Compressed(TextTo(i)[lookback + 1])
        BY <1>3, SourceInText
    <2>2. lookback \in 0..p
        <3> HIDE DEF a, c, p
        <3>1. p \in Nat /\ shift \in Nat
            BY <1>2, NgramAssumption DEF LookbackDepth
        <3> QED BY <3>1 DEF p
    <2>3. TextTo(i)[lookback + 1] \in Tokens
        BY <1>1, <2>2, Zenon DEF InText
    <2> QED BY <2>1, <2>3, CompressedTyped
<1>4. CASE ReadsLoaded(i, shift)
    <2>1. /\ runner # "v2" /\ 0 <= lookback /\ lookback < ChunkStart(q)
          /\ LookbackTokenIds(r)[col] = Unknown /\ SlotOf(r, lookback) \in Missing
        BY <1>4, Zenon DEF ReadsLoaded
    <2>2. Max({lookback, 0}) = lookback /\ ~(lookback >= ChunkStart(q))
        <3>1. p \in Int /\ shift \in Int /\ ChunkStart(q) \in Int
            BY <1>2
        <3> DEFINE d == ChunkStart(q)
        <3>2. d \in Int /\ lookback \in Int /\ 0 <= lookback /\ lookback < d
            BY <2>1, <3>1
        <3> HIDE DEF d, lookback
        <3>3. Max({lookback, 0}) = lookback
            BY <3>2, MaxOfTwo
        <3> QED BY <3>2, <3>3 DEF d
    <2>3. Source(i, shift) = Written[SlotOf(r, lookback)]
        BY <2>1, <2>2, Zenon DEF Source
    <2>4. SlotOf(r, lookback) \in Slots
        BY <2>1 DEF Missing, StoresOK
    <2> QED BY <2>3, <2>4, WrittenTyped
<1> QED BY <1>3, <1>4

\* What a token is hashed by are n-grams, whatever it looks back on.
LEMMA ValuesAreNgrams ==
    ASSUME IInv, PoolInv, StoresOK, NEW i \in BatchTokens
    PROVE  Values(i) \in Ngrams
<1> DEFINE V(s) == IF \E t \in 0..(s - 1) : Position(i) - t < 0 \/ Source(i, t) = Dead
                   THEN PadId ELSE Source(i, s - 1)
<1>1. Position(i) \in Int
    <2> DEFINE q == RowOf(i)
               r == batch.reqs[q]
               a == batch.query_start_loc[q]
               c == computed[r]
    <2>1. InText(i, q, r, a, c)
        BY TextOfToken
    <2> HIDE DEF q, r, a, c
    <2>2. a \in Nat /\ c \in Nat /\ i \in Nat /\ Position(i) = c + (i - a)
        BY <2>1, Zenon DEF InText
    <2> QED BY <2>2
<1>2. ASSUME NEW s \in 1..MaxNgram PROVE V(s) \in HashedIds
    <2>1. CASE \E t \in 0..(s - 1) : Position(i) - t < 0 \/ Source(i, t) = Dead
        BY <2>1 DEF HashedIds
    <2>2. CASE ~\E t \in 0..(s - 1) : Position(i) - t < 0 \/ Source(i, t) = Dead
        <3>1. s - 1 \in 0..(s - 1) /\ s - 1 \in 0..LookbackDepth
            BY NgramAssumption DEF LookbackDepth
        <3>2. ~(Position(i) - (s - 1) < 0) /\ Source(i, s - 1) # Dead
            BY <2>2, <3>1
        <3>3. s - 1 <= Position(i)
            BY <1>1, <3>2
        <3>4. Source(i, s - 1) \in {Dead} \cup HashedIds
            BY <3>1, <3>3, SourceTyped
        <3> QED BY <2>2, <3>2, <3>4
    <2> QED BY <2>1, <2>2
<1>3. Values(i) = [s \in 1..MaxNgram |-> V(s)]
    BY Zenon DEF Values
<1> HIDE DEF V
<1> QED BY <1>2, <1>3 DEF Ngrams

\* What a step hashes is fetched right on every rank count and with every local
\* copy, whatever the slot cache held.
THEOREM RowsOfBucketsAlways ==
    ASSUME LaidOut
    PROVE  Spec => []RowsOfBuckets
<1>1. IInv /\ PoolInv /\ TextsOK /\ StoresOK => RowsOfBuckets
    BY ValuesAreNgrams, EveryNgramFetched, Zenon DEF RowsOfBuckets
<1> QED BY <1>1, StoresHold, PTL
=============================================================================
