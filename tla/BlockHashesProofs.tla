-------------------------- MODULE BlockHashesProofs --------------------------
(***************************************************************************)
(* Theorems of BlockHashes: types, and that two requests share the hash of *)
(* a block, or a group the hash of its block, just when the prefixes are   *)
(* the same.                                                               *)
(*                                                                         *)
(* The argument: the keys of a block list the items that it touches, and   *)
(* lists of items in order are determined by their sets (KeysAreTouching); *)
(* so the hasher may skip items that ended before (SkippedItems), and the  *)
(* keys say how the items of the prefix go on (BlockTells). The inductive  *)
(* invariant is that the hashes of a request form a chain over the keys of *)
(* all items that each block touches, if no more than one item lies in the *)
(* block that its prompt ends in (Good). Two chains are equal up to a      *)
(* place just when the prefixes up to it are (ChainsTell).                 *)
(***************************************************************************)
EXTENDS BlockHashes, SequenceTheorems, FiniteSetTheorems, WellFoundedInduction, TLAPS

-----------------------------------------------------------------------------
(* Natural numbers *)

\* A set of naturals has a least element.
LEMMA LeastNatural ==
    ASSUME NEW T \in SUBSET Nat, T # {}
    PROVE  \E m \in T : \A k \in T : m <= k
<1>1. PICK m \in T : \A k \in T : <<k, m>> \notin OpToRel(<, Nat)
    BY WFMin, NatLessThanWellFounded, Zenon
<1>2. ASSUME NEW k \in T PROVE m <= k
    <2>1. ~ (k < m)
        BY <1>1, Zenon DEF OpToRel
    <2> QED BY <2>1
<1> QED BY <1>2

\* A set with 0 in it that is closed under successor contains every natural.
LEMMA SetInduction ==
    ASSUME NEW S, 0 \in S, \A n \in Nat : n \in S => n + 1 \in S
    PROVE  Nat \subseteq S
<1> DEFINE T == {n \in Nat : n \notin S}
<1>1. SUFFICES ASSUME T # {} PROVE FALSE
    OBVIOUS
<1>2. PICK m \in T : \A k \in T : m <= k
    BY <1>1, LeastNatural
<1> QED BY <1>2

\* Min() of a set of naturals is in it, and below all others.
LEMMA MinFacts ==
    ASSUME NEW T \in SUBSET Nat, T # {}
    PROVE  Min(T) \in T /\ \A k \in T : Min(T) <= k
<1>1. \E m \in T : \A k \in T : m <= k
    BY LeastNatural
<1> QED BY <1>1 DEF Min

\* Block sizes are positive.
LEMMA Sizes == HashBlockSize \in Nat \ {0} /\ ScaleFactor \in Nat \ {0}
BY SizesAssumption

\* The hash blocks of a request, as many as fit into its tokens.
LEMMA Multiples ==
    ASSUME NEW m \in Nat, NEW k \in Nat
    PROVE  /\ m * HashBlockSize \in Nat
           /\ (m + 1) * HashBlockSize = m * HashBlockSize + HashBlockSize
           /\ m <= k => m * HashBlockSize <= k * HashBlockSize
           /\ m < k => (m + 1) * HashBlockSize <= k * HashBlockSize
<1> DEFINE B == HashBlockSize
<1>1. B \in Nat \ {0}
    BY Sizes
<1> HIDE DEF B
<1>2. \A i \in Nat : i * B \in Nat /\ (i + 1) * B = i * B + B
    BY <1>1
<1>3. ASSUME NEW i \in Nat, NEW l \in Nat, i <= l PROVE i * B <= l * B
    <2> DEFINE x == i * B
               y == (l - i) * B
               z == l * B
    <2>1. l - i \in Nat /\ i + (l - i) = l
        BY <1>3
    <2>2. z = x + y
        <3>1. \A d \in Nat : (i + d) * B = i * B + d * B
            BY <1>1
        <3> QED BY <2>1, <3>1
    <2>3. x \in Nat /\ y \in Nat
        BY <1>2, <2>1
    <2> HIDE DEF x, y, z
    <2>4. x <= z
        BY <2>2, <2>3
    <2> QED BY <2>4 DEF x, z
<1>4. m < k => (m + 1) * B <= k * B
    <2>1. m < k => m + 1 <= k
        OBVIOUS
    <2> QED BY <1>3, <2>1
<1> QED BY <1>2, <1>3, <1>4 DEF B

\* How many hash blocks fit into n tokens.
LEMMA Division ==
    ASSUME NEW n \in Nat
    PROVE  /\ n \div HashBlockSize \in Nat
           /\ (n \div HashBlockSize) * HashBlockSize <= n
           /\ n < (n \div HashBlockSize) * HashBlockSize + HashBlockSize
           /\ \A k \in Nat : k * HashBlockSize <= n => k <= n \div HashBlockSize
<1> DEFINE B == HashBlockSize
           d == n \div B
<1>1. B \in Nat \ {0}
    BY Sizes
<1> HIDE DEF B
<1>2. d \in Nat /\ d * B <= n /\ n < d * B + B
    BY <1>1
<1> HIDE DEF d
<1>3. ASSUME NEW k \in Nat, k * B <= n, k > d PROVE FALSE
    <2>1. (d + 1) * B = d * B + B /\ (d + 1) * B <= k * B
        BY <1>2, <1>3, Multiples DEF B
    <2> DEFINE x == d * B
               y == k * B
               z == (d + 1) * B
    <2>2. x \in Nat /\ y \in Nat /\ z \in Nat
        BY <1>2, Multiples DEF B
    <2>3. n < x + B /\ z = x + B /\ z <= y /\ y <= n
        BY <1>2, <1>3, <2>1
    <2> HIDE DEF x, y, z
    <2> QED BY <1>1, <2>2, <2>3
<1> QED BY <1>2, <1>3 DEF d, B

-----------------------------------------------------------------------------
(* The items of a block *)

\* Items that lie one after the other.
Ordered(fs, n) ==
    /\ n \in Nat /\ fs \in [1..n -> Features] /\ Len(fs) = n
    /\ \A i, j \in 1..n : i < j => End(fs[i]) <= fs[j].offset

\* The items a block has a token of.
Touching(fs, n, start) ==
    {fs[j] : j \in {i \in 1..n : start < End(fs[i]) /\ fs[i].offset < start + HashBlockSize}}

\* u lists the items of T by their offsets.
Lists(u, m, T) ==
    /\ m \in Nat /\ u \in [1..m -> Features]
    /\ \A i, j \in 1..m : i < j => u[i].offset < u[j].offset
    /\ \A f : f \in T <=> \E i \in 1..m : u[i] = f

\* The keys of the items u.
KeysOf(u, m, start) == [k \in 1..m |-> <<u[k].identifier, u[k].offset - start>>]

\* An item has at least one token.
LEMMA FeatureFacts ==
    ASSUME NEW f \in Features
    PROVE  /\ f.offset \in Nat /\ f.identifier \in Items
           /\ End(f) \in Nat /\ f.offset < End(f)
           /\ f = [identifier |-> f.identifier, offset |-> f.offset]
<1>1. f.offset \in Nat /\ f.identifier \in Items
    BY DEF Features
<1>2. LengthOf[f.identifier] \in Nat \ {0}
    BY <1>1, ItemsAssumption
<1>3. f = [identifier |-> f.identifier, offset |-> f.offset]
    BY DEF Features
<1> QED BY <1>1, <1>2, <1>3 DEF End

\* EndsAfter() splits the items into those that ended by x and those that did not.
LEMMA EndsAfterFacts ==
    ASSUME NEW n, NEW fs, Ordered(fs, n), NEW i \in 1 .. n + 1, NEW x \in Int
    PROVE  /\ EndsAfter(fs, i, x) \in i .. n + 1
           /\ \A j \in i .. EndsAfter(fs, i, x) - 1 : End(fs[j]) <= x
           /\ \A j \in EndsAfter(fs, i, x) .. n : x < End(fs[j])
<1>n. /\ n \in Nat /\ fs \in [1..n -> Features] /\ Len(fs) = n
      /\ \A k, j \in 1..n : k < j => End(fs[k]) <= fs[j].offset
    BY DEF Ordered
<1> DEFINE T == {j \in i..Len(fs) : x < End(fs[j])} \cup {Len(fs) + 1}
           e == EndsAfter(fs, i, x)
<1>1. T \in SUBSET Nat /\ T # {}
    BY <1>n
<1>2. e = Min(T)
    BY Zenon DEF EndsAfter
<1> HIDE DEF e
<1>3. e \in T /\ \A k \in T : e <= k
    <2> HIDE DEF T
    <2> QED BY <1>1, <1>2, MinFacts
<1>4. e \in i .. n + 1 /\ (e <= n => x < End(fs[e]))
    BY <1>3, <1>n
<1>f. \A j \in 1..n : End(fs[j]) \in Nat /\ fs[j].offset \in Nat /\ fs[j].offset < End(fs[j])
    BY <1>n, FeatureFacts
<1>5. ASSUME NEW j \in i .. e - 1 PROVE End(fs[j]) <= x
    <2>1. j \in i..n /\ j \in 1..n /\ ~ (e <= j)
        BY <1>4, <1>n
    <2>2. j \notin T
        BY <1>3, <2>1
    <2>3. ~ (x < End(fs[j]))
        BY <2>1, <2>2, <1>n
    <2> QED BY <2>1, <2>3, <1>f
<1>6. ASSUME NEW j \in e .. n PROVE x < End(fs[j])
    <2>1. j = e \/ e < j
        BY <1>4, <1>n
    <2>2. CASE e < j
        <3>1. e \in 1..n /\ j \in 1..n
            BY <1>4, <1>n
        <3>2. End(fs[e]) <= fs[j].offset /\ x < End(fs[e])
            BY <1>n, <1>4, <2>2, <3>1
        <3> QED BY <3>1, <3>2, <1>f
    <2> QED BY <2>1, <2>2, <1>4
<1> QED BY <1>4, <1>5, <1>6 DEF e

\* BeginsFrom() splits the items into those that begin before x and the others.
LEMMA BeginsFromFacts ==
    ASSUME NEW n, NEW fs, Ordered(fs, n), NEW i \in 1 .. n + 1, NEW x \in Int
    PROVE  /\ BeginsFrom(fs, i, x) \in i .. n + 1
           /\ \A j \in i .. BeginsFrom(fs, i, x) - 1 : fs[j].offset < x
           /\ \A j \in BeginsFrom(fs, i, x) .. n : x <= fs[j].offset
<1>n. /\ n \in Nat /\ fs \in [1..n -> Features] /\ Len(fs) = n
      /\ \A k, j \in 1..n : k < j => End(fs[k]) <= fs[j].offset
    BY DEF Ordered
<1> DEFINE T == {j \in i..Len(fs) : x <= fs[j].offset} \cup {Len(fs) + 1}
           e == BeginsFrom(fs, i, x)
<1>1. T \in SUBSET Nat /\ T # {}
    BY <1>n
<1>2. e = Min(T)
    BY Zenon DEF BeginsFrom
<1> HIDE DEF e
<1>3. e \in T /\ \A k \in T : e <= k
    <2> HIDE DEF T
    <2> QED BY <1>1, <1>2, MinFacts
<1>4. e \in i .. n + 1 /\ (e <= n => x <= fs[e].offset)
    BY <1>3, <1>n
<1>f. \A j \in 1..n : End(fs[j]) \in Nat /\ fs[j].offset \in Nat /\ fs[j].offset < End(fs[j])
    BY <1>n, FeatureFacts
<1>5. ASSUME NEW j \in i .. e - 1 PROVE fs[j].offset < x
    <2>1. j \in i..n /\ j \in 1..n /\ ~ (e <= j)
        BY <1>4, <1>n
    <2>2. j \notin T
        BY <1>3, <2>1
    <2>3. ~ (x <= fs[j].offset)
        BY <2>1, <2>2, <1>n
    <2> QED BY <2>1, <2>3, <1>f
<1>6. ASSUME NEW j \in e .. n PROVE x <= fs[j].offset
    <2>1. j = e \/ e < j
        BY <1>4, <1>n
    <2>2. CASE e < j
        <3>1. e \in 1..n /\ j \in 1..n
            BY <1>4, <1>n
        <3>2. End(fs[e]) <= fs[j].offset /\ x <= fs[e].offset
            BY <1>n, <1>4, <2>2, <3>1
        <3> QED BY <3>1, <3>2, <1>f
    <2> QED BY <2>1, <2>2, <1>4
<1> QED BY <1>4, <1>5, <1>6 DEF e

\* Whichever item the search starts at: if those before it ended before the
\* block, the keys are of the items that the block touches, by their offsets.
LEMMA KeysListTouching ==
    ASSUME NEW n, NEW fs, Ordered(fs, n), NEW i \in 1 .. n + 1, NEW start \in Nat,
           \A j \in 1 .. i - 1 : End(fs[j]) <= start
    PROVE  \E m, u : /\ Lists(u, m, Touching(fs, n, start))
                     /\ ItemKeys(fs, start, i) = KeysOf(u, m, start)
<1>n. /\ n \in Nat /\ fs \in [1..n -> Features] /\ Len(fs) = n
      /\ \A k, j \in 1..n : k < j => End(fs[k]) <= fs[j].offset
    BY DEF Ordered
<1>f. \A j \in 1..n : End(fs[j]) \in Nat /\ fs[j].offset \in Nat /\ fs[j].offset < End(fs[j])
    BY <1>n, FeatureFacts
<1> DEFINE x == start + HashBlockSize
<1>x. x \in Int /\ start \in Int /\ start < x
    BY Sizes
<1>0. PICK first, after : first = EndsAfter(fs, i, start) /\ after = BeginsFrom(fs, i, x)
    OBVIOUS
<1> HIDE DEF x
<1>1. /\ first \in i .. n + 1
      /\ \A j \in i .. first - 1 : End(fs[j]) <= start
      /\ \A j \in first .. n : start < End(fs[j])
    BY <1>0, <1>x, EndsAfterFacts
<1>2. /\ after \in i .. n + 1
      /\ \A j \in i .. after - 1 : fs[j].offset < x
      /\ \A j \in after .. n : x <= fs[j].offset
    BY <1>0, <1>x, BeginsFromFacts
<1> DEFINE m == IF after < first THEN 0 ELSE after - first
           u == [k \in 1..m |-> fs[first + k - 1]]
<1>3. m \in Nat /\ 1 .. after - first = 1..m
    BY <1>1, <1>2, <1>n
<1>4. \A k \in 1..m : first + k - 1 \in 1..n /\ first + k - 1 \in first .. after - 1
    BY <1>1, <1>2, <1>n
<1>5. ItemKeys(fs, start, i) = KeysOf(u, m, start)
    <2>1. ItemKeys(fs, start, i) =
            [k \in 1 .. after - first |-> <<fs[first + k - 1].identifier, fs[first + k - 1].offset - start>>]
        BY <1>0, Zenon DEF ItemKeys, x
    <2> QED BY <2>1, <1>3, Zenon DEF KeysOf
<1>6. Lists(u, m, Touching(fs, n, start))
    <2>1. u \in [1..m -> Features]
        BY <1>4, <1>n
    <2>2. ASSUME NEW k \in 1..m, NEW l \in 1..m, k < l PROVE u[k].offset < u[l].offset
        <3>1. first + k - 1 \in 1..n /\ first + l - 1 \in 1..n /\ first + k - 1 < first + l - 1
            BY <1>1, <1>4, <1>3, <2>2, <1>n
        <3>2. End(fs[first + k - 1]) <= fs[first + l - 1].offset
            BY <3>1, <1>n
        <3> QED BY <3>1, <3>2, <1>f
    <2>3. ASSUME NEW k \in 1..m PROVE u[k] \in Touching(fs, n, start)
        <3> DEFINE j == first + k - 1
        <3>1. j \in 1..n /\ j \in first .. n /\ j \in i .. after - 1
            BY <1>1, <1>2, <1>4, <1>n
        <3>2. start < End(fs[j]) /\ fs[j].offset < x
            BY <1>1, <1>2, <3>1
        <3> QED BY <3>1, <3>2 DEF Touching, x
    <2>4. ASSUME NEW f \in Touching(fs, n, start) PROVE \E k \in 1..m : u[k] = f
        <3>1. PICK j \in 1..n : start < End(fs[j]) /\ fs[j].offset < x /\ f = fs[j]
            BY DEF Touching, x
        <3>2. j >= i
            <4>1. CASE j < i
                <5>1. j \in 1 .. i - 1
                    BY <4>1, <1>n
                <5> QED BY <5>1, <3>1, <1>f
            <4> QED BY <4>1, <1>n
        <3>3. j >= first
            <4>1. CASE j < first
                <5>1. j \in i .. first - 1
                    BY <4>1, <3>2, <1>1, <1>n
                <5> QED BY <5>1, <3>1, <1>1, <1>f
            <4> QED BY <4>1, <1>1, <1>n
        <3>4. j < after
            <4>1. CASE j >= after
                <5>1. j \in after .. n
                    BY <4>1, <1>2, <1>n
                <5> QED BY <5>1, <3>1, <1>2, <1>f, <1>x
            <4> QED BY <4>1, <1>2, <1>n
        <3>5. j - first + 1 \in 1..m /\ first + (j - first + 1) - 1 = j
            BY <3>3, <3>4, <1>1, <1>2, <1>n
        <3> QED BY <3>1, <3>5
    <2> QED BY <1>3, <2>1, <2>2, <2>3, <2>4 DEF Lists
<1> QED BY <1>5, <1>6, Zenon

-----------------------------------------------------------------------------
(* Lists of items and their sets *)

\* Two lists of one set: each is within the other.
LEMMA ListsWithin ==
    ASSUME NEW T, NEW m, NEW u, Lists(u, m, T), NEW k, NEW v, Lists(v, k, T)
    PROVE  \A i \in 1..m : i <= k /\ u[i] = v[i]
<1>u. /\ m \in Nat /\ u \in [1..m -> Features]
      /\ \A i, j \in 1..m : i < j => u[i].offset < u[j].offset
      /\ \A f : f \in T <=> \E i \in 1..m : u[i] = f
    BY DEF Lists
<1>v. /\ k \in Nat /\ v \in [1..k -> Features]
      /\ \A i, j \in 1..k : i < j => v[i].offset < v[j].offset
      /\ \A f : f \in T <=> \E i \in 1..k : v[i] = f
    BY DEF Lists
<1>o. (\A i \in 1..m : u[i].offset \in Nat) /\ (\A i \in 1..k : v[i].offset \in Nat)
    BY <1>u, <1>v, FeatureFacts
<1> DEFINE D == {i \in 1..m : ~ (i <= k /\ u[i] = v[i])}
<1>1. SUFFICES ASSUME D # {} PROVE FALSE
    OBVIOUS
<1>2. PICK d \in D : \A i \in D : d <= i
    <2>1. D \in SUBSET Nat
        BY <1>u
    <2> HIDE DEF D
    <2> QED BY <1>1, <2>1, LeastNatural
<1>3. d \in 1..m /\ ~ (d <= k /\ u[d] = v[d])
    BY <1>2
<1>4. \A i \in 1..m : i < d => i <= k /\ u[i] = v[i]
    <2> TAKE i \in 1..m
    <2> HAVE i < d
    <2>1. i \notin D
        BY <1>2, <1>3, <1>u
    <2> QED BY <2>1
<1> HIDE DEF D
<1>5. PICK e \in 1..k : v[e] = u[d]
    BY <1>u, <1>v, <1>3
<1>6. ~ (e < d)
    <2> SUFFICES ASSUME e < d PROVE FALSE
        OBVIOUS
    <2>1. e \in 1..m /\ u[e] = v[e]
        BY <1>3, <1>4, <1>u, <1>v
    <2>2. u[e].offset < u[d].offset
        BY <2>1, <1>3, <1>u
    <2> QED BY <2>1, <2>2, <1>3, <1>5, <1>o
<1>7. d \in 1..k /\ u[d] # v[d] /\ d # e /\ d < e
    BY <1>3, <1>5, <1>6, <1>u, <1>v
<1>8. PICK c \in 1..m : u[c] = v[d]
    BY <1>u, <1>v, <1>7
<1>9. ~ (c < d)
    <2> SUFFICES ASSUME c < d PROVE FALSE
        OBVIOUS
    <2>1. c \in 1..k /\ u[c] = v[c]
        BY <1>4, <1>u, <1>v
    <2>2. v[c].offset < v[d].offset
        BY <2>1, <1>7, <1>v
    <2> QED BY <2>1, <2>2, <1>7, <1>8, <1>o
<1>10. d < c
    BY <1>3, <1>7, <1>8, <1>9, <1>u
<1>11. v[d].offset < v[e].offset /\ u[d].offset < u[c].offset
    BY <1>3, <1>7, <1>10, <1>u, <1>v
<1>12. v[d].offset < u[d].offset /\ u[d].offset < v[d].offset
    BY <1>5, <1>8, <1>11, Zenon
<1>13. v[d].offset \in Nat /\ u[d].offset \in Nat
    BY <1>3, <1>7, <1>o, Zenon
<1>14. \A p, q \in Nat : ~ (p < q /\ q < p)
    OBVIOUS
<1> QED BY <1>12, <1>13, <1>14, Zenon

\* So the list of a set is unique.
LEMMA ListsUnique ==
    ASSUME NEW T, NEW m, NEW u, Lists(u, m, T), NEW k, NEW v, Lists(v, k, T)
    PROVE  m = k /\ u = v
<1>a. \A i \in 1..m : i <= k /\ u[i] = v[i]
    BY ListsWithin
<1>b. \A i \in 1..k : i <= m /\ v[i] = u[i]
    BY ListsWithin
<1>1. (\A i \in 1..m : i <= k /\ u[i] = v[i]) /\ (\A i \in 1..k : i <= m /\ v[i] = u[i])
    BY <1>a, <1>b
<1>2. m \in Nat /\ k \in Nat /\ u \in [1..m -> Features] /\ v \in [1..k -> Features]
    BY DEF Lists
<1>3. m <= k /\ k <= m
    <2>1. m = 0 \/ m \in 1..m
        BY <1>2
    <2>2. k = 0 \/ k \in 1..k
        BY <1>2
    <2>3. m <= k
        BY <1>1, <1>2, <2>1
    <2>4. k <= m
        BY <1>1, <1>2, <2>2
    <2> QED BY <2>3, <2>4
<1>4. m = k
    BY <1>2, <1>3
<1> QED BY <1>1, <1>2, <1>4

\* Keys tell the items they are of.
LEMMA KeysOfTell ==
    ASSUME NEW S, NEW T, NEW m, NEW u, Lists(u, m, S), NEW k, NEW v, Lists(v, k, T),
           NEW start \in Nat, KeysOf(u, m, start) = KeysOf(v, k, start)
    PROVE  S = T
<1>u. /\ m \in Nat /\ u \in [1..m -> Features]
      /\ \A f : f \in S <=> \E i \in 1..m : u[i] = f
    BY DEF Lists
<1>v. /\ k \in Nat /\ v \in [1..k -> Features]
      /\ \A f : f \in T <=> \E i \in 1..k : v[i] = f
    BY DEF Lists
<1>1. DOMAIN KeysOf(u, m, start) = 1..m /\ DOMAIN KeysOf(v, k, start) = 1..k
    BY DEF KeysOf
<1>2. 1..m = 1..k
    BY <1>1
<1>3. ASSUME NEW i \in 1..m PROVE u[i] = v[i]
    <2>1. i \in 1..k
        BY <1>2
    <2>2. KeysOf(u, m, start)[i] = <<u[i].identifier, u[i].offset - start>>
        BY DEF KeysOf
    <2>3. KeysOf(v, k, start)[i] = <<v[i].identifier, v[i].offset - start>>
        BY <2>1 DEF KeysOf
    <2>4. u[i].identifier = v[i].identifier /\ u[i].offset - start = v[i].offset - start
        BY <2>2, <2>3
    <2>5. u[i] \in Features /\ v[i] \in Features
        BY <1>u, <1>v, <2>1
    <2>6. u[i].offset \in Nat /\ v[i].offset \in Nat
        BY <2>5, FeatureFacts
    <2>7. u[i].offset = v[i].offset
        BY <2>4, <2>6
    <2> QED BY <2>4, <2>5, <2>7 DEF Features
<1>4. \A f : f \in S <=> f \in T
    <2> TAKE f
    <2>1. (\E i \in 1..m : u[i] = f) <=> (\E i \in 1..k : v[i] = f)
        BY <1>2, <1>3, Zenon
    <2> QED BY <1>u, <1>v, <2>1, Zenon
<1> QED BY <1>4

\* Items that ended before a block need not be looked at for it.
LEMMA SkippedItems ==
    ASSUME NEW n, NEW fs, Ordered(fs, n), NEW i \in 1 .. n + 1, NEW start \in Nat,
           \A j \in 1 .. i - 1 : End(fs[j]) <= start
    PROVE  ItemKeys(fs, start, i) = ItemKeys(fs, start, 1)
<1>1. PICK m, u : /\ Lists(u, m, Touching(fs, n, start))
                  /\ ItemKeys(fs, start, i) = KeysOf(u, m, start)
    BY KeysListTouching
<1>2. n \in Nat /\ 1 \in 1 .. n + 1 /\ 1 .. 1 - 1 = {}
    BY DEF Ordered
<1>3. \A j \in 1 .. 1 - 1 : End(fs[j]) <= start
    BY <1>2
<1>4. PICK k, v : /\ Lists(v, k, Touching(fs, n, start))
                  /\ ItemKeys(fs, start, 1) = KeysOf(v, k, start)
    BY <1>2, <1>3, KeysListTouching
<1>5. m = k /\ u = v
    BY <1>1, <1>4, ListsUnique
<1> QED BY <1>1, <1>4, <1>5

\* The case that the search starts at the first item.
LEMMA KeysOfBlock ==
    ASSUME NEW n, NEW fs, Ordered(fs, n), NEW start \in Nat
    PROVE  \E m, u : /\ Lists(u, m, Touching(fs, n, start))
                     /\ ItemKeys(fs, start, 1) = KeysOf(u, m, start)
<1>1. n \in Nat /\ 1 \in 1 .. n + 1 /\ 1 .. 1 - 1 = {}
    BY DEF Ordered
<1>2. \A j \in 1 .. 1 - 1 : End(fs[j]) <= start
    BY <1>1
<1> QED BY <1>1, <1>2, KeysListTouching

\* The keys of a block tell what items it touches, and follow from them.
LEMMA KeysAreTouching ==
    ASSUME NEW n, NEW fs, Ordered(fs, n), NEW k, NEW gs, Ordered(gs, k), NEW start \in Nat
    PROVE  ItemKeys(fs, start, 1) = ItemKeys(gs, start, 1)
              <=> Touching(fs, n, start) = Touching(gs, k, start)
<1>3. PICK a, u : /\ Lists(u, a, Touching(fs, n, start))
                  /\ ItemKeys(fs, start, 1) = KeysOf(u, a, start)
    BY KeysOfBlock, Zenon
<1>4. PICK b, v : /\ Lists(v, b, Touching(gs, k, start))
                  /\ ItemKeys(gs, start, 1) = KeysOf(v, b, start)
    BY KeysOfBlock, Zenon
<1>5. ASSUME ItemKeys(fs, start, 1) = ItemKeys(gs, start, 1)
      PROVE  Touching(fs, n, start) = Touching(gs, k, start)
    <2>1. KeysOf(u, a, start) = KeysOf(v, b, start)
        BY <1>3, <1>4, <1>5, Zenon
    <2>2. Lists(u, a, Touching(fs, n, start)) /\ Lists(v, b, Touching(gs, k, start))
        BY <1>3, <1>4
    <2> DEFINE S == Touching(fs, n, start)
               T == Touching(gs, k, start)
    <2> HIDE DEF S, T
    <2>3. Lists(u, a, S) /\ Lists(v, b, T)
        BY <2>2, Zenon DEF S, T
    <2>4. S = T
        BY <2>1, <2>3, KeysOfTell
    <2> QED BY <2>4, Zenon DEF S, T
<1>6. ASSUME Touching(fs, n, start) = Touching(gs, k, start)
      PROVE  ItemKeys(fs, start, 1) = ItemKeys(gs, start, 1)
    <2>1. Lists(v, b, Touching(fs, n, start))
        BY <1>4, <1>6, Zenon
    <2>2. a = b /\ u = v
        BY <1>3, <2>1, ListsUnique, Zenon
    <2> QED BY <1>3, <1>4, <2>2, Zenon
<1> QED BY <1>5, <1>6

\* An item key is an identifier with an offset.
LEMMA KeysType ==
    ASSUME NEW n, NEW fs, Ordered(fs, n), NEW start \in Nat
    PROVE  ItemKeys(fs, start, 1) \in Seq(Items \X Int)
<1>1. n \in Nat /\ 1 \in 1 .. n + 1 /\ \A j \in 1 .. 1 - 1 : End(fs[j]) <= start
    BY DEF Ordered
<1>2. PICK m, u : /\ Lists(u, m, Touching(fs, n, start))
                  /\ ItemKeys(fs, start, 1) = KeysOf(u, m, start)
    BY <1>1, KeysListTouching
<1>3. m \in Nat /\ u \in [1..m -> Features]
    BY <1>2 DEF Lists
<1>4. ASSUME NEW k \in 1..m PROVE <<u[k].identifier, u[k].offset - start>> \in Items \X Int
    <2>1. u[k] \in Features
        BY <1>3
    <2> QED BY <2>1, FeatureFacts
<1>5. KeysOf(u, m, start) \in [1..m -> Items \X Int]
    BY <1>4 DEF KeysOf
<1> QED BY <1>2, <1>3, <1>5

-----------------------------------------------------------------------------
(* The flat tuple of keys *)

\* A name that is given makes one key, none makes no key.
LEMMA KeyOfFacts ==
    ASSUME NEW X, NEW name \in X \cup {None}
    PROVE  /\ KeyOf(name) \in Seq(X) /\ Len(KeyOf(name)) \in Nat
           /\ name = None => Len(KeyOf(name)) = 0
           /\ name # None => Len(KeyOf(name)) = 1 /\ KeyOf(name)[1] = name /\ name \in X
<1>1. CASE name = None
    <2>1. KeyOf(name) = <<>>
        BY <1>1 DEF KeyOf
    <2> QED BY <1>1, <2>1
<1>2. CASE name # None
    <2>1. KeyOf(name) = <<name>> /\ name \in X
        BY <1>2 DEF KeyOf
    <2> QED BY <1>2, <2>1
<1> QED BY <1>1, <1>2

\* Names and item keys as they are read off the tuple e.
TakenApart(e, l, y, z) ==
    /\ Len(e) \in Nat
    /\ l = (IF Len(e) > 0 /\ e[1] \in Adapters THEN e[1] ELSE None)
    /\ z = (IF Len(e) > 0 /\ e[Len(e)] \in Salts THEN e[Len(e)] ELSE None)
    /\ Len(y) = Len(e) - Len(KeyOf(l)) - Len(KeyOf(z))
    /\ y = [k \in 1..Len(y) |-> e[k + Len(KeyOf(l))]]

\* The flat tuple of a block's keys can be taken apart again.
LEMMA KeysRead ==
    ASSUME NEW l \in Adapters \cup {None}, NEW z \in Salts \cup {None}, NEW y \in Seq(Items \X Int),
           NEW e, e = KeyOf(l) \o y \o KeyOf(z)
    PROVE  TakenApart(e, l, y, z)
<1> DEFINE S == Adapters \cup Salts \cup (Items \X Int)
           p == KeyOf(l)
           r == KeyOf(z)
           a == Len(p)
           b == Len(r)
<1>1. /\ p \in Seq(S) /\ a \in Nat /\ (l = None => a = 0)
      /\ l # None => a = 1 /\ p[1] = l /\ l \in Adapters
    <2>1. /\ p \in Seq(Adapters) /\ a \in Nat /\ (l = None => a = 0)
          /\ l # None => a = 1 /\ p[1] = l /\ l \in Adapters
        BY KeyOfFacts, Zenon
    <2>2. Adapters \subseteq S
        OBVIOUS
    <2> HIDE DEF S, p
    <2> QED BY <2>1, <2>2
<1>2. /\ r \in Seq(S) /\ b \in Nat /\ (z = None => b = 0)
      /\ z # None => b = 1 /\ r[1] = z /\ z \in Salts
    <2>1. /\ r \in Seq(Salts) /\ b \in Nat /\ (z = None => b = 0)
          /\ z # None => b = 1 /\ r[1] = z /\ z \in Salts
        BY KeyOfFacts, Zenon
    <2>2. Salts \subseteq S
        OBVIOUS
    <2> HIDE DEF S, r
    <2> QED BY <2>1, <2>2
<1>3. y \in Seq(S) /\ Len(y) \in Nat /\ \A k \in 1..Len(y) : y[k] \in Items \X Int
    <2>1. Items \X Int \subseteq S
        OBVIOUS
    <2> HIDE DEF S
    <2> QED BY <2>1
<1> HIDE DEF S, p, r
<1>4. /\ (p \o y) \in Seq(S) /\ Len(p \o y) = a + Len(y)
      /\ \A k \in 1 .. a + Len(y) : (p \o y)[k] = IF k <= a THEN p[k] ELSE y[k - a]
    BY <1>1, <1>3
<1>5. /\ e = (p \o y) \o r
      /\ Len(e) = a + Len(y) + b
      /\ \A k \in 1 .. a + Len(y) + b :
            e[k] = IF k <= a + Len(y) THEN (p \o y)[k] ELSE r[k - (a + Len(y))]
    <2>1. e = (p \o y) \o r
        BY Zenon DEF p, r
    <2> QED BY <1>1, <1>2, <1>3, <1>4, <2>1
<1>6. \A k \in 1 .. a : e[k] = p[k]
    BY <1>1, <1>2, <1>3, <1>4, <1>5
<1>7. \A k \in 1 .. Len(y) : e[k + a] = y[k]
    <2> TAKE k \in 1 .. Len(y)
    <2>1. k + a \in 1 .. a + Len(y) /\ ~ (k + a <= a) /\ (k + a) - a = k /\ k + a \in 1 .. a + Len(y) + b
          /\ k + a <= a + Len(y)
        BY <1>1, <1>2, <1>3
    <2>2. e[k + a] = (p \o y)[k + a]
        <3>1. e[k + a] = IF k + a <= a + Len(y) THEN (p \o y)[k + a] ELSE r[(k + a) - (a + Len(y))]
            BY <1>5, <2>1, Zenon
        <3> QED BY <2>1, <3>1, Zenon
    <2>3. (p \o y)[k + a] = y[(k + a) - a]
        <3>1. (p \o y)[k + a] = IF k + a <= a THEN p[k + a] ELSE y[(k + a) - a]
            BY <1>4, <2>1, Zenon
        <3> QED BY <2>1, <3>1, Zenon
    <2> QED BY <2>1, <2>2, <2>3, Zenon
<1>8. b = 1 => e[Len(e)] = r[1]
    <2> HAVE b = 1
    <2>1. PICK k : k = Len(e)
        OBVIOUS
    <2>2. k \in 1 .. a + Len(y) + b /\ ~ (k <= a + Len(y)) /\ k - (a + Len(y)) = 1
        <3>1. Len(e) = a + Len(y) + b
            BY <1>5, Zenon
        <3> QED BY <1>1, <1>2, <1>3, <2>1, <3>1
    <2>3. e[k] = r[k - (a + Len(y))]
        <3>1. e[k] = IF k <= a + Len(y) THEN (p \o y)[k] ELSE r[k - (a + Len(y))]
            BY <1>5, <2>2, Zenon
        <3> QED BY <2>2, <3>1, Zenon
    <2>4. e[k] = r[1]
        BY <2>2, <2>3, Zenon
    <2> QED BY <2>1, <2>4, Zenon
<1>9. l = (IF Len(e) > 0 /\ e[1] \in Adapters THEN e[1] ELSE None)
    <2>1. CASE l # None
        <3>1. a = 1 /\ p[1] = l /\ l \in Adapters
            BY <1>1, <2>1, Zenon
        <3>2. Len(e) > 0 /\ 1 \in 1..a
            <4>1. Len(e) = a + Len(y) + b
                BY <1>5, Zenon
            <4>2. Len(y) \in Nat /\ b \in Nat
                BY <1>2, <1>3, Zenon
            <4> QED BY <3>1, <4>1, <4>2
        <3>3. e[1] = l
            BY <1>6, <3>1, <3>2, Zenon
        <3> QED BY <3>1, <3>2, <3>3, Zenon
    <2>2. CASE l = None
        <3>1. SUFFICES ASSUME Len(e) > 0, e[1] \in Adapters PROVE FALSE
            BY <2>2
        <3>2. CASE Len(y) > 0
            <4>1. e[1] = y[1] /\ 1 \in 1..Len(y)
                <5>1. 1 \in 1..Len(y) /\ 1 + a = 1
                    BY <1>1, <1>3, <2>2, <3>2
                <5> QED BY <1>7, <5>1
            <4> QED BY <1>3, <3>1, <4>1, NamesAssumption
        <3>3. CASE Len(y) = 0
            <4>1. b = 1 /\ Len(e) = 1
                BY <1>1, <1>2, <1>5, <2>2, <3>1, <3>3
            <4>2. e[1] = z /\ z \in Salts
                BY <1>2, <1>8, <4>1
            <4> QED BY <3>1, <4>2, NamesAssumption
        <3> QED BY <1>3, <3>2, <3>3
    <2> QED BY <2>1, <2>2
<1>10. z = (IF Len(e) > 0 /\ e[Len(e)] \in Salts THEN e[Len(e)] ELSE None)
    <2>1. CASE z # None
        <3>1. b = 1 /\ r[1] = z /\ z \in Salts
            BY <1>2, <2>1, Zenon
        <3>2. Len(e) > 0
            <4>1. Len(e) = a + Len(y) + b
                BY <1>5, Zenon
            <4>2. Len(y) \in Nat /\ a \in Nat
                BY <1>1, <1>3, Zenon
            <4> QED BY <3>1, <4>1, <4>2
        <3>3. e[Len(e)] = z
            BY <1>8, <3>1, Zenon
        <3> QED BY <3>1, <3>2, <3>3, Zenon
    <2>2. CASE z = None
        <3>1. SUFFICES ASSUME Len(e) > 0, e[Len(e)] \in Salts PROVE FALSE
            BY <2>2
        <3>0. b = 0 /\ Len(e) = a + Len(y)
            BY <1>1, <1>2, <1>3, <1>5, <2>2
        <3>2. CASE Len(y) > 0
            <4>1. Len(y) \in 1..Len(y) /\ Len(y) + a = Len(e)
                BY <1>1, <1>3, <3>0, <3>2
            <4>2. e[Len(e)] = y[Len(y)]
                BY <1>7, <4>1
            <4> QED BY <1>3, <3>1, <4>1, <4>2, NamesAssumption
        <3>3. CASE Len(y) = 0
            <4>1. a = 1 /\ Len(e) = 1 /\ l # None
                BY <1>1, <3>0, <3>1, <3>3
            <4>2. e[1] = l /\ l \in Adapters
                BY <1>1, <1>6, <4>1
            <4> QED BY <3>1, <4>1, <4>2, NamesAssumption
        <3> QED BY <1>3, <3>2, <3>3
    <2> QED BY <2>1, <2>2
<1>11. y = [k \in 1..Len(y) |-> e[k + a]]
    <2>1. y = [k \in 1..Len(y) |-> y[k]]
        BY <1>3
    <2> QED BY <1>7, <2>1
<1>12. Len(e) \in Nat /\ Len(y) = Len(e) - a - b
    BY <1>1, <1>2, <1>3, <1>5
<1> QED BY <1>9, <1>10, <1>11, <1>12, Zenon DEF p, r, TakenApart

\* So equal tuples are of equal names, items and salts.
LEMMA OneReading ==
    ASSUME NEW e, NEW l, NEW y, NEW z, TakenApart(e, l, y, z),
           NEW m, NEW x, NEW w, TakenApart(e, m, x, w)
    PROVE  l = m /\ y = x /\ z = w
<1>1. l = m /\ z = w
    BY Zenon DEF TakenApart
<1>2. Len(y) = Len(x)
    BY <1>1, Zenon DEF TakenApart
<1> QED BY <1>1, <1>2, Zenon DEF TakenApart

-----------------------------------------------------------------------------
(* What is hashed of a block *)

\* A request whose prompt holds items one after the other.
Wellformed(q) ==
    /\ q \in Inputs
    /\ Ordered(q.features, Len(q.features))
    /\ q.prompt <= Len(q.tokens)
    /\ \A i \in 1..Len(q.features) : End(q.features[i]) <= q.prompt

\* Slices are equal where the sequences are.
LEMMA SameSlice ==
    ASSUME NEW X, NEW s \in Seq(X), NEW t \in Seq(X), NEW a \in Nat \ {0}, NEW b \in Nat,
           b <= Len(s), b <= Len(t)
    PROVE  SubSeq(s, a, b) = SubSeq(t, a, b) <=> \A i \in a..b : s[i] = t[i]
<1>0. /\ \A i \in a..b : i \in 1..Len(s) /\ i \in 1..Len(t)
      /\ \A i \in a..b : s[i] \in X /\ t[i] \in X
    OBVIOUS
<1>1. /\ SubSeq(s, a, b) \in Seq(X)
      /\ Len(SubSeq(s, a, b)) = IF a <= b THEN b - a + 1 ELSE 0
      /\ \A i \in 1 .. b - a + 1 : SubSeq(s, a, b)[i] = s[a + i - 1]
    BY <1>0, SubSeqProperties
<1>2. /\ SubSeq(t, a, b) \in Seq(X)
      /\ Len(SubSeq(t, a, b)) = IF a <= b THEN b - a + 1 ELSE 0
      /\ \A i \in 1 .. b - a + 1 : SubSeq(t, a, b)[i] = t[a + i - 1]
    BY <1>0, SubSeqProperties
<1> DEFINE u == SubSeq(s, a, b)
           v == SubSeq(t, a, b)
<1> HIDE DEF u, v
<1>3. ASSUME u = v, NEW i \in a..b PROVE s[i] = t[i]
    <2>1. i - a + 1 \in 1 .. b - a + 1 /\ a + (i - a + 1) - 1 = i
        OBVIOUS
    <2>2. u[i - a + 1] = s[a + (i - a + 1) - 1]
        BY <1>1, <2>1 DEF u
    <2>3. v[i - a + 1] = t[a + (i - a + 1) - 1]
        BY <1>2, <2>1 DEF v
    <2> QED BY <1>3, <2>1, <2>2, <2>3
<1>4. ASSUME \A i \in a..b : s[i] = t[i] PROVE u = v
    <2>1. Len(u) = Len(v) /\ u \in Seq(X) /\ v \in Seq(X)
        BY <1>1, <1>2 DEF u, v
    <2>2. ASSUME NEW i \in 1 .. Len(u) PROVE u[i] = v[i]
        <3>1. i \in 1 .. b - a + 1 /\ a + i - 1 \in a..b
            BY <1>1 DEF u
        <3>2. u[i] = s[a + i - 1]
            BY <1>1, <3>1 DEF u
        <3>3. v[i] = t[a + i - 1]
            BY <1>2, <3>1 DEF v
        <3> QED BY <1>4, <3>1, <3>2, <3>3
    <2> QED BY <2>1, <2>2, SeqEqual
<1> QED BY <1>3, <1>4 DEF u, v

\* The text of a prefix one block longer.
LEMMA TextGrows ==
    ASSUME NEW X, NEW s \in Seq(X), NEW t \in Seq(X), NEW a \in Nat, NEW b \in Nat,
           a + b <= Len(s), a + b <= Len(t)
    PROVE  SubSeq(s, 1, a + b) = SubSeq(t, 1, a + b) <=>
               /\ SubSeq(s, 1, a) = SubSeq(t, 1, a)
               /\ SubSeq(s, a + 1, a + b) = SubSeq(t, a + 1, a + b)
<1>1. /\ a + b \in Nat /\ a + 1 \in Nat \ {0} /\ a <= Len(s) /\ a <= Len(t) /\ 1 \in Nat \ {0}
      /\ Len(s) \in Nat /\ Len(t) \in Nat
    OBVIOUS
<1>2. SubSeq(s, 1, a + b) = SubSeq(t, 1, a + b) <=> \A i \in 1..(a + b) : s[i] = t[i]
    BY <1>1, SameSlice
<1>3. SubSeq(s, 1, a) = SubSeq(t, 1, a) <=> \A i \in 1..a : s[i] = t[i]
    BY <1>1, SameSlice
<1>4. SubSeq(s, a + 1, a + b) = SubSeq(t, a + 1, a + b) <=> \A i \in (a + 1)..(a + b) : s[i] = t[i]
    BY <1>1, SameSlice
<1>5. \A i : i \in 1..(a + b) <=> (i \in 1..a \/ i \in (a + 1)..(a + b))
    OBVIOUS
<1> QED BY <1>2, <1>3, <1>4, <1>5, Zenon

\* The items of a prefix of n tokens.
ItemsBefore(fs, n) == {fs[i] : i \in {j \in DOMAIN fs : fs[j].offset < n}}

\* The items of a prefix one block longer.
LEMMA ItemsGrow ==
    ASSUME NEW n, NEW fs, Ordered(fs, n), NEW start \in Nat
    PROVE  /\ ItemsBefore(fs, start + HashBlockSize) = ItemsBefore(fs, start) \cup Touching(fs, n, start)
           /\ ItemsBefore(fs, start) = {f \in ItemsBefore(fs, start + HashBlockSize) : f.offset < start}
           /\ Touching(fs, n, start) = {f \in ItemsBefore(fs, start + HashBlockSize) : start < End(f)}
<1>1. n \in Nat /\ fs \in [1..n -> Features] /\ DOMAIN fs = 1..n
    BY DEF Ordered
<1>2. \A i \in 1..n : fs[i].offset \in Nat /\ End(fs[i]) \in Nat /\ fs[i].offset < End(fs[i])
    BY <1>1, FeatureFacts
<1> DEFINE x == start + HashBlockSize
<1>3. x \in Nat /\ start < x
    BY Sizes
<1> HIDE DEF x
<1>4. \A f : f \in Touching(fs, n, start) <=> \E i \in 1..n : f = fs[i] /\ start < End(fs[i]) /\ fs[i].offset < x
    BY Zenon DEF Touching, x
<1>5. \A y, f : f \in ItemsBefore(fs, y) <=> \E i \in 1..n : f = fs[i] /\ fs[i].offset < y
    BY <1>1 DEF ItemsBefore
<1>6. \A i \in 1..n : fs[i].offset < x <=> (fs[i].offset < start \/ (start < End(fs[i]) /\ fs[i].offset < x))
    BY <1>2, <1>3
<1>7. \A i \in 1..n : fs[i].offset < start => fs[i].offset < x
    BY <1>2, <1>3
<1>8. ItemsBefore(fs, x) = ItemsBefore(fs, start) \cup Touching(fs, n, start)
    <2>1. \A f : f \in ItemsBefore(fs, x) <=> (f \in ItemsBefore(fs, start) \/ f \in Touching(fs, n, start))
        BY <1>4, <1>5, <1>6, Zenon
    <2> QED BY <2>1
<1>9. ItemsBefore(fs, start) = {f \in ItemsBefore(fs, x) : f.offset < start}
    <2>1. \A f : f \in ItemsBefore(fs, start) <=> (f \in ItemsBefore(fs, x) /\ f.offset < start)
        BY <1>5, <1>7
    <2> QED BY <2>1
<1>10. Touching(fs, n, start) = {f \in ItemsBefore(fs, x) : start < End(f)}
    <2>1. \A f : f \in Touching(fs, n, start) <=> (f \in ItemsBefore(fs, x) /\ start < End(f))
        BY <1>4, <1>5, Zenon
    <2> QED BY <2>1
<1> QED BY <1>8, <1>9, <1>10, Zenon DEF x

\* Two requests have the same prefix of n tokens.
SamePrefix(q, p, n) ==
    /\ SubSeq(q.tokens, 1, n) = SubSeq(p.tokens, 1, n)
    /\ ItemsBefore(q.features, n) = ItemsBefore(p.features, n)
    /\ q.lora = p.lora /\ q.salt = p.salt

\* Prefixes are the same if tokens, items, adapter and salt are.
LEMMA PrefixesSame ==
    ASSUME NEW q, NEW p, NEW n
    PROVE  Prefix(q, n) = Prefix(p, n) <=> SamePrefix(q, p, n)
<1> DEFINE a(r) == SubSeq(r.tokens, 1, n)
           b(r) == ItemsBefore(r.features, n)
<1>1. \A r : Prefix(r, n) = [tokens |-> a(r), items |-> b(r), lora |-> r.lora, salt |-> r.salt]
    BY Zenon DEF Prefix, ItemsBefore
<1>2. SamePrefix(q, p, n) <=> a(q) = a(p) /\ b(q) = b(p) /\ q.lora = p.lora /\ q.salt = p.salt
    BY Zenon DEF SamePrefix
<1> HIDE DEF a, b
<1> QED BY <1>1, <1>2

\* What is hashed of a block, besides its parent, says how its prefix goes on.
LEMMA BlockTells ==
    ASSUME NEW q, Wellformed(q), NEW p, Wellformed(p), NEW start \in Nat,
           start + HashBlockSize <= Len(q.tokens), start + HashBlockSize <= Len(p.tokens)
    PROVE  SamePrefix(q, p, start + HashBlockSize) <=>
               /\ start = 0 \/ SamePrefix(q, p, start)
               /\ SubSeq(q.tokens, start + 1, start + HashBlockSize)
                      = SubSeq(p.tokens, start + 1, start + HashBlockSize)
               /\ ExtraKeys(q, start, 1) = ExtraKeys(p, start, 1)
<1> DEFINE x == start + HashBlockSize
           text(a, b) == SubSeq(q.tokens, a, b) = SubSeq(p.tokens, a, b)
           items(n) == ItemsBefore(q.features, n) = ItemsBefore(p.features, n)
           keys == ItemKeys(q.features, start, 1) = ItemKeys(p.features, start, 1)
           sal(r) == IF start = 0 THEN r.salt ELSE None
<1>1. /\ q.lora \in Adapters \cup {None} /\ q.salt \in Salts \cup {None}
      /\ p.lora \in Adapters \cup {None} /\ p.salt \in Salts \cup {None}
      /\ q.tokens \in Seq(Texts \cup {Placeholder}) /\ p.tokens \in Seq(Texts \cup {Placeholder})
    BY DEF Wellformed, Inputs
<1>2. Ordered(q.features, Len(q.features)) /\ Ordered(p.features, Len(p.features))
    BY DEF Wellformed
<1>3. text(1, x) <=> text(1, start) /\ text(start + 1, x)
    <2>1. HashBlockSize \in Nat
        BY Sizes
    <2> QED BY <1>1, <2>1, TextGrows
<1>4. start = 0 => text(1, start) /\ items(start)
    <2> SUFFICES ASSUME start = 0 PROVE text(1, start) /\ items(start)
        OBVIOUS
    <2>1. text(1, start)
        <3>1. SubSeq(q.tokens, 1, 0) = <<>> /\ SubSeq(p.tokens, 1, 0) = <<>>
            BY SubSeqEmpty
        <3> QED BY <3>1
    <2>2. ASSUME NEW r, Ordered(r, Len(r)) PROVE ItemsBefore(r, 0) = {}
        <3>1. Len(r) \in Nat /\ r \in [1..Len(r) -> Features]
            BY <2>2 DEF Ordered
        <3>2. \A i \in DOMAIN r : ~ (r[i].offset < 0)
            <4> TAKE i \in DOMAIN r
            <4>1. r[i] \in Features
                BY <3>1
            <4>2. r[i].offset \in Nat
                BY <4>1, FeatureFacts
            <4> QED BY <4>2
        <3> QED BY <3>2 DEF ItemsBefore
    <2> QED BY <1>2, <2>1, <2>2
<1>5. keys <=> Touching(q.features, Len(q.features), start) = Touching(p.features, Len(p.features), start)
    BY <1>2, KeysAreTouching
<1>6. items(x) <=> items(start) /\ keys
    <2> DEFINE A == ItemsBefore(q.features, x)
               B == ItemsBefore(p.features, x)
               a == ItemsBefore(q.features, start)
               b == ItemsBefore(p.features, start)
               c == Touching(q.features, Len(q.features), start)
               d == Touching(p.features, Len(p.features), start)
    <2>1. /\ A = a \cup c
          /\ a = {f \in A : f.offset < start}
          /\ c = {f \in A : start < End(f)}
        BY <1>2, ItemsGrow
    <2>2. /\ B = b \cup d
          /\ b = {f \in B : f.offset < start}
          /\ d = {f \in B : start < End(f)}
        BY <1>2, ItemsGrow
    <2>3. keys <=> c = d
        BY <1>5
    <2> HIDE DEF A, B, a, b, c, d, keys
    <2>4. A = B <=> a = b /\ c = d
        BY <2>1, <2>2
    <2> QED BY <2>3, <2>4, Zenon DEF A, B, a, b
<1>7. ExtraKeys(q, start, 1) = ExtraKeys(p, start, 1) <=> q.lora = p.lora /\ keys /\ sal(q) = sal(p)
    <2>1. /\ ExtraKeys(q, start, 1) = KeyOf(q.lora) \o ItemKeys(q.features, start, 1) \o KeyOf(sal(q))
          /\ ExtraKeys(p, start, 1) = KeyOf(p.lora) \o ItemKeys(p.features, start, 1) \o KeyOf(sal(p))
        BY Zenon DEF ExtraKeys
    <2>2. sal(q) \in Salts \cup {None} /\ sal(p) \in Salts \cup {None}
        BY <1>1
    <2>3. PICK u, v, l, m, y, z :
             /\ u = ItemKeys(q.features, start, 1) /\ v = ItemKeys(p.features, start, 1)
             /\ l = q.lora /\ m = p.lora /\ y = sal(q) /\ z = sal(p)
        OBVIOUS
    <2>4. u \in Seq(Items \X Int) /\ v \in Seq(Items \X Int)
        BY <1>2, <2>3, KeysType
    <2>5. /\ l \in Adapters \cup {None} /\ m \in Adapters \cup {None}
          /\ y \in Salts \cup {None} /\ z \in Salts \cup {None}
        BY <1>1, <2>2, <2>3
    <2>6. KeyOf(l) \o u \o KeyOf(y) = KeyOf(m) \o v \o KeyOf(z) <=> l = m /\ u = v /\ y = z
        <3> HIDE DEF sal
        <3>1. ASSUME KeyOf(l) \o u \o KeyOf(y) = KeyOf(m) \o v \o KeyOf(z)
              PROVE  l = m /\ u = v /\ y = z
            <4>1. PICK e : e = KeyOf(l) \o u \o KeyOf(y) /\ e = KeyOf(m) \o v \o KeyOf(z)
                BY <3>1, Zenon
            <4>2. TakenApart(e, l, u, y) /\ TakenApart(e, m, v, z)
                <5>1. TakenApart(e, l, u, y)
                    BY <2>4, <2>5, <4>1, KeysRead
                <5>2. TakenApart(e, m, v, z)
                    BY <2>4, <2>5, <4>1, KeysRead
                <5> QED BY <5>1, <5>2
            <4> QED BY <4>2, OneReading, Zenon
        <3> QED BY <3>1, Zenon
    <2>7. /\ ExtraKeys(q, start, 1) = KeyOf(l) \o u \o KeyOf(y)
          /\ ExtraKeys(p, start, 1) = KeyOf(m) \o v \o KeyOf(z)
        BY <2>1, <2>3, Zenon
    <2> QED BY <2>3, <2>6, <2>7, Zenon
<1>8. start = 0 => (sal(q) = sal(p) <=> q.salt = p.salt)
    OBVIOUS
<1>9. start # 0 => sal(q) = sal(p)
    OBVIOUS
<1> HIDE DEF keys, sal, x, text, items
<1>10. \A n : SamePrefix(q, p, n) <=> text(1, n) /\ items(n) /\ q.lora = p.lora /\ q.salt = p.salt
    BY Zenon DEF SamePrefix, text, items
<1>11. SamePrefix(q, p, x) <=>
          (start = 0 \/ SamePrefix(q, p, start)) /\ text(start + 1, x) /\ ExtraKeys(q, start, 1) = ExtraKeys(p, start, 1)
    BY <1>3, <1>4, <1>6, <1>7, <1>8, <1>9, <1>10
<1> QED BY <1>11, Zenon DEF x, text

-----------------------------------------------------------------------------
(* Chains of hashes *)

\* The parent of a hash.
Before(h, i) == IF i = 1 THEN NoneHash ELSE h[i - 1]

\* The tokens of a block.
Text(q, start) == SubSeq(q.tokens, start + 1, start + HashBlockSize)

\* h holds the hashes of the first Len(h) blocks of q, each with the keys of
\* all items that the block touches.
Chained(q, h) ==
    /\ Len(h) \in Nat
    /\ Len(h) * HashBlockSize <= Len(q.tokens)
    /\ \A i \in 1..Len(h) :
          h[i] = BlockHash(Before(h, i), Text(q, (i - 1) * HashBlockSize),
                           ExtraKeys(q, (i - 1) * HashBlockSize, 1))

\* A hash is told by what is hashed, and is not the root.
LEMMA BlockHashesDiffer ==
    ASSUME NEW a, NEW b, NEW c, NEW d, NEW e, NEW f
    PROVE  /\ BlockHash(a, b, c) = BlockHash(d, e, f) <=> a = d /\ b = e /\ c = f
           /\ BlockHash(a, b, c) # NoneHash
BY DEF BlockHash, NoneHash

\* In two such chains, equal hashes are of one place and of equal prefixes.
LEMMA ChainsTell ==
    ASSUME NEW q, Wellformed(q), NEW p, Wellformed(p),
           NEW h, Chained(q, h), NEW g, Chained(p, g)
    PROVE  \A i \in 1..Len(h), j \in 1..Len(g) :
               h[i] = g[j] <=> i = j /\ SamePrefix(q, p, i * HashBlockSize)
<1> DEFINE B == HashBlockSize
           Tell(i, j) == h[i] = g[j] <=> i = j /\ SamePrefix(q, p, i * B)
           S == {i \in Nat : i \in 1..Len(h) => \A j \in 1..Len(g) : Tell(i, j)}
<1>0. Len(h) \in Nat /\ Len(g) \in Nat /\ B \in Nat \ {0}
    BY Sizes DEF Chained
<1>1. ASSUME NEW i \in 1..Len(h), NEW j \in 1..Len(g)
      PROVE  h[i] = g[j] <=> /\ Before(h, i) = Before(g, j)
                             /\ Text(q, (i - 1) * B) = Text(p, (j - 1) * B)
                             /\ ExtraKeys(q, (i - 1) * B, 1) = ExtraKeys(p, (j - 1) * B, 1)
    <2>1. h[i] = BlockHash(Before(h, i), Text(q, (i - 1) * B), ExtraKeys(q, (i - 1) * B, 1))
        BY Zenon DEF Chained
    <2>2. g[j] = BlockHash(Before(g, j), Text(p, (j - 1) * B), ExtraKeys(p, (j - 1) * B, 1))
        BY Zenon DEF Chained
    <2> QED BY <2>1, <2>2, BlockHashesDiffer
<1>2. ASSUME NEW i \in 1..Len(h) PROVE h[i] # NoneHash
    <2>1. h[i] = BlockHash(Before(h, i), Text(q, (i - 1) * B), ExtraKeys(q, (i - 1) * B, 1))
        BY Zenon DEF Chained
    <2> QED BY <2>1, BlockHashesDiffer
<1>3. ASSUME NEW j \in 1..Len(g) PROVE g[j] # NoneHash
    <2>1. g[j] = BlockHash(Before(g, j), Text(p, (j - 1) * B), ExtraKeys(p, (j - 1) * B, 1))
        BY Zenon DEF Chained
    <2> QED BY <2>1, BlockHashesDiffer
<1>4. ASSUME NEW i \in 1..Len(h), i \in 1..Len(g)
      PROVE  SamePrefix(q, p, i * B) <=>
                 /\ i = 1 \/ SamePrefix(q, p, (i - 1) * B)
                 /\ Text(q, (i - 1) * B) = Text(p, (i - 1) * B)
                 /\ ExtraKeys(q, (i - 1) * B, 1) = ExtraKeys(p, (i - 1) * B, 1)
    <2> DEFINE start == (i - 1) * B
    <2>1. i - 1 \in Nat /\ (i - 1) + 1 = i
        BY <1>0
    <2>2. start \in Nat /\ i * B = start + B
        <3>1. (i - 1) * B \in Nat /\ ((i - 1) + 1) * B = (i - 1) * B + B
            BY <2>1, Multiples
        <3> QED BY <2>1, <3>1
    <2>3. i * B <= Len(h) * B /\ i * B <= Len(g) * B
        <3>1. i \in Nat /\ i <= Len(h) /\ i <= Len(g)
            BY <1>0, <1>4
        <3> QED BY <1>0, <3>1, Multiples
    <2>4. Len(h) * B <= Len(q.tokens) /\ Len(g) * B <= Len(p.tokens)
        BY Zenon DEF Chained
    <2>5. start = 0 <=> i = 1
        <3>1. i - 1 = 0 => start = 0
            BY <1>0
        <3>2. 0 < i - 1 => B <= start
            <4>1. 0 < i - 1 => (0 + 1) * B <= (i - 1) * B
                BY <2>1, Multiples
            <4>2. (0 + 1) * B = B
                BY <1>0
            <4> QED BY <4>1, <4>2
        <3> HIDE DEF start
        <3> QED BY <1>0, <2>1, <3>1, <3>2
    <2>6. start + B <= Len(q.tokens) /\ start + B <= Len(p.tokens)
        <3> DEFINE a == i * B
                   b == Len(h) * B
                   c == Len(g) * B
        <3>1. a \in Nat /\ b \in Nat /\ c \in Nat
            BY <1>0, Multiples
        <3>2. Len(q.tokens) \in Nat /\ Len(p.tokens) \in Nat
            BY DEF Wellformed, Inputs
        <3> HIDE DEF start, a, b, c
        <3>3. a <= b /\ a <= c /\ b <= Len(q.tokens) /\ c <= Len(p.tokens) /\ a = start + B
            BY <2>2, <2>3, <2>4, Zenon DEF a, b, c
        <3>4. a <= Len(q.tokens) /\ a <= Len(p.tokens)
            BY <3>1, <3>2, <3>3
        <3> QED BY <3>3, <3>4, Zenon
    <2> HIDE DEF start
    <2>7. SamePrefix(q, p, start + B) <=>
              /\ start = 0 \/ SamePrefix(q, p, start)
              /\ Text(q, start) = Text(p, start)
              /\ ExtraKeys(q, start, 1) = ExtraKeys(p, start, 1)
        BY <2>2, <2>6, BlockTells, Zenon DEF Text
    <2> QED BY <2>2, <2>5, <2>7, Zenon DEF start
<1> HIDE DEF B
<1>5. 0 \in S
    OBVIOUS
<1>6. ASSUME NEW n \in Nat, n \in S PROVE n + 1 \in S
    <2>1. SUFFICES ASSUME n + 1 \in 1..Len(h), NEW j \in 1..Len(g) PROVE Tell(n + 1, j)
        OBVIOUS
    <2> DEFINE i == n + 1
    <2>2. i \in 1..Len(h) /\ i - 1 = n
        BY <2>1
    <2>3. CASE n = 0
        <3>1. i = 1 /\ Before(h, i) = NoneHash
            BY <2>3 DEF Before
        <3>2. CASE j = 1
            <4>1. Before(g, j) = NoneHash /\ i = j /\ i \in 1..Len(g)
                BY <3>1, <3>2 DEF Before
            <4> HIDE DEF i
            <4> QED BY <1>1, <1>4, <2>2, <3>1, <4>1
        <3>3. CASE j # 1
            <4>1. Before(g, j) = g[j - 1] /\ j - 1 \in 1..Len(g)
                BY <1>0, <3>3 DEF Before
            <4>2. Before(g, j) # NoneHash
                BY <1>3, <4>1
            <4> HIDE DEF i
            <4> QED BY <1>1, <2>2, <3>1, <3>3, <4>2
        <3> QED BY <3>2, <3>3
    <2>4. CASE n # 0
        <3>1. n \in 1..Len(h) /\ Before(h, i) = h[n] /\ i # 1
            BY <1>0, <2>1, <2>4 DEF Before
        <3>2. CASE j = 1
            <4>1. Before(g, j) = NoneHash
                BY <3>2 DEF Before
            <4>2. Before(h, i) # NoneHash
                BY <1>2, <3>1
            <4> HIDE DEF i
            <4> QED BY <1>1, <2>2, <3>1, <3>2, <4>1, <4>2
        <3>3. CASE j # 1
            <4>1. Before(g, j) = g[j - 1] /\ j - 1 \in 1..Len(g)
                BY <1>0, <3>3 DEF Before
            <4>2. Tell(n, j - 1)
                BY <1>6, <3>1, <4>1
            <4>3. n = j - 1 <=> i = j
                OBVIOUS
            <4> HIDE DEF i
            <4>4. h[n] = g[j - 1] <=> i = j /\ SamePrefix(q, p, (i - 1) * B)
                BY <2>2, <4>2, <4>3
            <4>5. CASE i = j
                <5>1. i \in 1..Len(g)
                    BY <4>5
                <5> QED BY <1>1, <1>4, <2>2, <3>1, <4>1, <4>4, <4>5, <5>1
            <4>6. CASE i # j
                BY <1>1, <2>2, <3>1, <4>1, <4>4, <4>6
            <4> QED BY <4>5, <4>6
        <3> QED BY <3>2, <3>3
    <2> QED BY <2>3, <2>4
<1>7. Nat \subseteq S
    <2> HIDE DEF S
    <2> QED BY <1>5, <1>6, SetInduction
<1>8. ASSUME NEW i \in 1..Len(h), NEW j \in 1..Len(g) PROVE Tell(i, j)
    <2>1. i \in S
        BY <1>0, <1>7
    <2> QED BY <2>1
<1> QED BY <1>8 DEF B

-----------------------------------------------------------------------------
(* The walk of the hasher *)

\* w is the function that the hasher's loop computes from base on.
IsWalk(q, base, from, to, w) ==
    w = [k \in from..to |-> IF k = from THEN base ELSE HashNext(q, w[k - 1], k)]

\* Where the loop starts: at the last hash, and at FirstItem().
Base(q, h) ==
    [hash |-> IF Len(h) = 0 THEN NoneHash ELSE h[Len(h)],
     item |-> FirstItem(q.features, Len(h))]

\* The recursion over the blocks defines a function.
LEMMA WalkExists ==
    ASSUME NEW q, NEW base, NEW from \in Nat, NEW to \in Nat
    PROVE  \E w : IsWalk(q, base, from, to, w)
<1> DEFINE S == {n \in Nat : \E w : IsWalk(q, base, from, from + n, w)}
<1>1. 0 \in S
    <2> DEFINE w == [k \in from .. from + 0 |-> base]
    <2>1. w = [k \in from .. from + 0 |-> IF k = from THEN base ELSE HashNext(q, w[k - 1], k)]
        <3>1. \A k \in from .. from + 0 : k = from
            OBVIOUS
        <3> QED BY <3>1
    <2> HIDE DEF w
    <2> QED BY <2>1 DEF IsWalk
<1>2. ASSUME NEW n \in Nat, n \in S PROVE n + 1 \in S
    <2>1. PICK w : w = [k \in from .. from + n |-> IF k = from THEN base ELSE HashNext(q, w[k - 1], k)]
        BY <1>2 DEF IsWalk
    <2> DEFINE l == from + n + 1
               v == [k \in from .. l |-> IF k = l THEN HashNext(q, w[l - 1], l) ELSE w[k]]
    <2>2. l \in Nat /\ from < l /\ l - 1 \in from .. from + n /\ l = from + (n + 1)
        OBVIOUS
    <2>3. ASSUME NEW k \in from..l PROVE v[k] = IF k = from THEN base ELSE HashNext(q, v[k - 1], k)
        <3>1. CASE k = l
            <4>1. k # from /\ k - 1 = l - 1 /\ k - 1 # l /\ k - 1 \in from..l
                BY <2>2, <3>1
            <4>2. v[k - 1] = w[l - 1]
                BY <4>1
            <4>3. v[k] = HashNext(q, w[l - 1], l)
                BY <3>1
            <4> HIDE DEF v, l
            <4> QED BY <3>1, <4>1, <4>2, <4>3
        <3>2. CASE k # l
            <4>1. k \in from .. from + n
                BY <2>2, <3>2
            <4>2. v[k] = w[k] /\ w[k] = IF k = from THEN base ELSE HashNext(q, w[k - 1], k)
                BY <2>1, <3>2, <4>1
            <4>3. k # from => k - 1 \in from..l /\ k - 1 # l
                BY <2>2, <4>1
            <4>4. k # from => v[k - 1] = w[k - 1]
                BY <4>3
            <4> HIDE DEF v, l
            <4> QED BY <4>2, <4>4
        <3> QED BY <3>1, <3>2
    <2>4. v = [k \in from..l |-> v[k]]
        OBVIOUS
    <2> HIDE DEF v
    <2>5. v = [k \in from .. l |-> IF k = from THEN base ELSE HashNext(q, v[k - 1], k)]
        BY <2>3, <2>4
    <2>6. IsWalk(q, base, from, from + (n + 1), v)
        BY <2>2, <2>5 DEF IsWalk
    <2> QED BY <2>6
<1>3. Nat \subseteq S
    <2> HIDE DEF S
    <2> QED BY <1>1, <1>2, SetInduction
<1>4. CASE from <= to
    <2>1. to - from \in S /\ from + (to - from) = to
        BY <1>3, <1>4
    <2> QED BY <2>1
<1>5. CASE to < from
    <2>1. from..to = {}
        BY <1>5
    <2> DEFINE w == [k \in {} |-> base]
    <2>2. IsWalk(q, base, from, to, w)
        BY <2>1 DEF IsWalk
    <2> QED BY <2>2
<1> QED BY <1>4, <1>5

\* NewHashes() is a walk.
LEMMA NewHashesWalk ==
    ASSUME NEW q, NEW h, Len(h) \in Nat, NumBlocks(q.tokens) \in Nat
    PROVE  \E w : /\ IsWalk(q, Base(q, h), Len(h), NumBlocks(q.tokens), w)
                  /\ NewHashes(q, h) = [k \in 1 .. NumBlocks(q.tokens) - Len(h) |-> w[Len(h) + k].hash]
<1> DEFINE w == CHOOSE v : v = [k \in Len(h) .. NumBlocks(q.tokens) |->
                  IF k = Len(h)
                  THEN [hash |-> IF Len(h) = 0 THEN NoneHash ELSE h[Len(h)],
                        item |-> FirstItem(q.features, Len(h))]
                  ELSE HashNext(q, v[k - 1], k)]
<1>1. NewHashes(q, h) = [k \in 1 .. NumBlocks(q.tokens) - Len(h) |-> w[Len(h) + k].hash]
    BY DEF NewHashes
<1>2. \E v : IsWalk(q, Base(q, h), Len(h), NumBlocks(q.tokens), v)
    BY WalkExists
<1>3. \E v : v = [k \in Len(h) .. NumBlocks(q.tokens) |->
                  IF k = Len(h)
                  THEN [hash |-> IF Len(h) = 0 THEN NoneHash ELSE h[Len(h)],
                        item |-> FirstItem(q.features, Len(h))]
                  ELSE HashNext(q, v[k - 1], k)]
    BY <1>2, Zenon DEF IsWalk, Base
<1>4. IsWalk(q, Base(q, h), Len(h), NumBlocks(q.tokens), w)
    BY <1>3, Zenon DEF IsWalk, Base
<1> HIDE DEF w
<1> QED BY <1>1, <1>4

-----------------------------------------------------------------------------
(* The hasher goes on with a chain *)

\* What such a function is at its start, and at each later block.
LEMMA WalkFacts ==
    ASSUME NEW q, NEW base, NEW from, NEW to, NEW w, IsWalk(q, base, from, to, w), from \in from..to
    PROVE  w[from] = base /\ \A k \in from..to : k # from => w[k] = HashNext(q, w[k - 1], k)
<1>1. \A k \in from..to : w[k] = IF k = from THEN base ELSE HashNext(q, w[k - 1], k)
    BY Zenon DEF IsWalk
<1> QED BY <1>1

\* Where a search may start: all items before it ended by there.
Skips(fs, i, x) == i \in 1 .. Len(fs) + 1 /\ \A j \in 1 .. i - 1 : End(fs[j]) <= x

\* One block of the hasher's walk.
LEMMA HashNextFacts ==
    ASSUME NEW q, Wellformed(q), NEW k \in Nat \ {0}, NEW last,
           Skips(q.features, last.item, (k - 1) * HashBlockSize)
    PROVE  /\ HashNext(q, last, k).hash =
                 BlockHash(last.hash, Text(q, (k - 1) * HashBlockSize),
                           ExtraKeys(q, (k - 1) * HashBlockSize, 1))
           /\ Skips(q.features, HashNext(q, last, k).item, k * HashBlockSize)
<1> DEFINE fs == q.features
           n == Len(fs)
           i == last.item
           start == (k - 1) * HashBlockSize
           x == start + HashBlockSize
           next == EndsAfter(fs, i, x)
<1>1. Ordered(fs, n) /\ n \in Nat
    BY DEF Wellformed, Ordered
<1>2. k - 1 \in Nat /\ (k - 1) + 1 = k
    OBVIOUS
<1>3. start \in Nat /\ k * HashBlockSize = x /\ x \in Nat /\ start <= x
    <2>1. start \in Nat /\ ((k - 1) + 1) * HashBlockSize = x
        BY <1>2, Multiples
    <2> HIDE DEF start
    <2>2. x \in Nat /\ start <= x
        BY <2>1, Sizes
    <2> QED BY <1>2, <2>1, <2>2
<1>4. i \in 1 .. n + 1 /\ \A j \in 1 .. i - 1 : End(fs[j]) <= start
    BY Zenon DEF Skips
<1>5. HashNext(q, last, k) = [hash |-> BlockHash(last.hash, Text(q, start), ExtraKeys(q, start, i)),
                              item |-> next]
    BY Zenon DEF HashNext, NextItem, Text
<1> HIDE DEF start, i, fs, n
<1>6. ItemKeys(fs, start, i) = ItemKeys(fs, start, 1)
    BY <1>1, <1>3, <1>4, SkippedItems
<1>7. ExtraKeys(q, start, i) = ExtraKeys(q, start, 1)
    BY <1>6, Zenon DEF ExtraKeys, fs
<1> HIDE DEF x
<1>8. next \in i .. n + 1 /\ \A j \in i .. next - 1 : End(fs[j]) <= x
    BY <1>1, <1>3, <1>4, EndsAfterFacts
<1> HIDE DEF next
<1>9. \A j \in 1..n : End(fs[j]) \in Nat
    <2>1. \A j \in 1..n : fs[j] \in Features
        BY <1>1 DEF Ordered
    <2> QED BY <2>1, FeatureFacts
<1>10. ASSUME NEW j \in 1 .. next - 1 PROVE End(fs[j]) <= x
    <2>1. j \in 1..n /\ (j \in 1 .. i - 1 \/ j \in i .. next - 1)
        BY <1>1, <1>4, <1>8
    <2>2. CASE j \in 1 .. i - 1
        <3>1. End(fs[j]) <= start /\ End(fs[j]) \in Nat
            BY <1>4, <1>9, <2>1, <2>2
        <3> QED BY <1>3, <3>1
    <2> QED BY <1>8, <2>1, <2>2
<1>11. Skips(fs, next, x)
    <2>1. next \in 1 .. n + 1
        BY <1>1, <1>4, <1>8
    <2> QED BY <1>10, <2>1 DEF Skips, n
<1>12. HashNext(q, last, k).hash = BlockHash(last.hash, Text(q, start), ExtraKeys(q, start, 1))
    BY <1>5, <1>7
<1>13. HashNext(q, last, k).item = next
    BY <1>5
<1> QED BY <1>3, <1>11, <1>12, <1>13, Zenon DEF start, fs

\* The hasher goes on with a chain, and hashes every full block.
LEMMA HashesGrow ==
    ASSUME NEW q, Wellformed(q), NEW X, NEW h \in Seq(X), Chained(q, h),
           Len(h) <= NumBlocks(q.tokens), Skips(q.features, FirstItem(q.features, Len(h)), Len(h) * HashBlockSize)
    PROVE  Chained(q, h \o NewHashes(q, h))
<1> DEFINE B == HashBlockSize
           to == NumBlocks(q.tokens)
           from == Len(h)
           fs == q.features
           g == h \o NewHashes(q, h)
<1>0. q.tokens \in Seq(Texts \cup {Placeholder}) /\ Len(q.tokens) \in Nat
    BY DEF Wellformed, Inputs
<1>1. from \in Nat /\ to \in Nat /\ from <= to /\ to * B <= Len(q.tokens)
    BY <1>0, Division DEF NumBlocks
<1>2. PICK w : /\ IsWalk(q, Base(q, h), from, to, w)
               /\ NewHashes(q, h) = [k \in 1 .. to - from |-> w[from + k].hash]
    BY <1>1, NewHashesWalk
<1> HIDE DEF to, B
<1>3. w[from] = Base(q, h) /\ \A k \in from..to : k # from => w[k] = HashNext(q, w[k - 1], k)
    <2>1. from \in from..to
        BY <1>1
    <2> QED BY <1>2, <2>1, WalkFacts
<1>4. \A k \in from..to : Skips(fs, w[k].item, k * B)
    <2> DEFINE S == {k \in Nat : from + k \in from..to => Skips(fs, w[from + k].item, (from + k) * B)}
    <2>1. 0 \in S
        <3>1. w[from].item = FirstItem(fs, from)
            BY <1>3 DEF Base
        <3>2. from + 0 = from
            BY <1>1
        <3> QED BY <3>1, <3>2 DEF B
    <2>2. ASSUME NEW k \in Nat, k \in S PROVE k + 1 \in S
        <3>1. SUFFICES ASSUME from + (k + 1) \in from..to
                       PROVE  Skips(fs, w[from + (k + 1)].item, (from + (k + 1)) * B)
            OBVIOUS
        <3>2. /\ from + k \in from..to /\ from + (k + 1) # from
              /\ from + (k + 1) \in Nat \ {0} /\ (from + (k + 1)) - 1 = from + k
            BY <1>1, <3>1
        <3>3. Skips(fs, w[from + k].item, (from + k) * B)
            BY <2>2, <3>2
        <3>4. w[from + (k + 1)] = HashNext(q, w[from + k], from + (k + 1))
            BY <1>3, <3>1, <3>2
        <3>5. Skips(fs, HashNext(q, w[from + k], from + (k + 1)).item, (from + (k + 1)) * B)
            <4> DEFINE l == from + (k + 1)
                       v == w[from + k]
            <4>1. l \in Nat \ {0} /\ Skips(fs, v.item, (l - 1) * B)
                BY <3>2, <3>3
            <4> HIDE DEF l, v
            <4>2. Skips(fs, HashNext(q, v, l).item, l * B)
                BY <4>1, HashNextFacts DEF B
            <4> QED BY <4>2 DEF l, v
        <3> QED BY <3>4, <3>5
    <2>3. Nat \subseteq S
        <3> HIDE DEF S
        <3> QED BY <2>1, <2>2, SetInduction
    <2>4. ASSUME NEW k \in from..to PROVE Skips(fs, w[k].item, k * B)
        <3>1. k - from \in Nat /\ from + (k - from) = k
            BY <1>1
        <3>2. k - from \in S
            <4> HIDE DEF S
            <4> QED BY <2>3, <3>1
        <3> QED BY <3>1, <3>2
    <2> QED BY <2>4
<1>5. ASSUME NEW k \in from..to, k # from
      PROVE  w[k].hash = BlockHash(w[k - 1].hash, Text(q, (k - 1) * B), ExtraKeys(q, (k - 1) * B, 1))
    <2>1. k \in Nat \ {0} /\ k - 1 \in from..to
        BY <1>1, <1>5
    <2>2. Skips(fs, w[k - 1].item, (k - 1) * B)
        BY <1>4, <2>1
    <2>3. w[k] = HashNext(q, w[k - 1], k)
        BY <1>3, <1>5
    <2> DEFINE v == w[k - 1]
    <2>4. Skips(fs, v.item, (k - 1) * B)
        BY <2>2
    <2> HIDE DEF v
    <2>5. HashNext(q, v, k).hash = BlockHash(v.hash, Text(q, (k - 1) * B), ExtraKeys(q, (k - 1) * B, 1))
        BY <2>1, <2>4, HashNextFacts DEF B
    <2> QED BY <2>3, <2>5 DEF v
<1>6. /\ Len(g) = to
      /\ \A i \in 1..from : g[i] = h[i]
      /\ \A i \in from + 1 .. to : g[i] = w[i].hash
    <2> DEFINE d == to - from
               f == [k \in 1..d |-> w[from + k].hash]
               Y == X \cup {w[from + k].hash : k \in 1..d}
    <2>1. d \in Nat /\ f \in Seq(Y) /\ Len(f) = d
        <3>1. d \in Nat
            BY <1>1
        <3>2. f \in [1..d -> Y]
            OBVIOUS
        <3> HIDE DEF f, Y, d
        <3> QED BY <3>1, <3>2
    <2>2. h \in Seq(Y)
        <3>1. X \subseteq Y
            OBVIOUS
        <3> HIDE DEF Y
        <3> QED BY <3>1, SeqMonotonic
    <2>3. g = h \o f
        BY <1>2
    <2>4. \A k \in 1..d : f[k] = w[from + k].hash
        OBVIOUS
    <2> HIDE DEF f, Y, d
    <2>5. /\ Len(h \o f) = from + d
          /\ \A i \in 1 .. from + d : (h \o f)[i] = IF i <= from THEN h[i] ELSE f[i - from]
        BY <2>1, <2>2, ConcatProperties
    <2>6. from + d = to
        BY <1>1 DEF d
    <2>7. ASSUME NEW i \in from + 1 .. to PROVE g[i] = w[i].hash
        <3>1. i \in 1 .. from + d /\ ~ (i <= from) /\ i - from \in 1..d /\ from + (i - from) = i
            BY <1>1, <2>6, <2>1
        <3>2. g[i] = f[i - from]
            BY <2>3, <2>5, <3>1
        <3>3. f[i - from] = w[from + (i - from)].hash
            BY <2>4, <3>1
        <3> QED BY <3>1, <3>2, <3>3
    <2>8. ASSUME NEW i \in 1..from PROVE g[i] = h[i]
        <3>1. i \in 1 .. from + d /\ i <= from
            BY <1>1, <2>1
        <3> QED BY <2>3, <2>5, <3>1
    <2> QED BY <2>3, <2>5, <2>6, <2>7, <2>8
<1>h. \A i \in 1..from : h[i] = BlockHash(Before(h, i), Text(q, (i - 1) * B), ExtraKeys(q, (i - 1) * B, 1))
    BY Zenon DEF Chained, B
<1> HIDE DEF g
<1>7. ASSUME NEW i \in 1..to
      PROVE  g[i] = BlockHash(Before(g, i), Text(q, (i - 1) * B), ExtraKeys(q, (i - 1) * B, 1))
    <2>1. CASE i <= from
        <3>1. i \in 1..from /\ (i # 1 => i - 1 \in 1..from)
            BY <1>1, <2>1
        <3>2. Before(g, i) = Before(h, i) /\ g[i] = h[i]
            BY <1>6, <3>1 DEF Before
        <3> QED BY <1>h, <3>1, <3>2
    <2>2. CASE i > from
        <3>1. /\ i \in from + 1 .. to /\ i \in from..to /\ i # from
              /\ i - 1 # from => i - 1 \in from + 1 .. to /\ i # 1
              /\ i - 1 = from /\ i # 1 => i - 1 \in 1..from
              /\ i = 1 => from = 0
            BY <1>1, <2>2
        <3>2. Before(g, i) = w[i - 1].hash
            <4>1. CASE i = 1
                <5>1. from = 0 /\ i - 1 = from
                    BY <3>1, <4>1
                <5>2. w[from].hash = NoneHash
                    BY <1>3, <5>1 DEF Base
                <5> QED BY <4>1, <5>1, <5>2 DEF Before
            <4>2. CASE i # 1 /\ i - 1 = from
                <5>1. from \in 1..from /\ from # 0
                    BY <1>1, <3>1, <4>2
                <5>2. w[from].hash = h[from]
                    BY <1>3, <5>1 DEF Base
                <5>3. g[from] = h[from]
                    BY <1>6, <5>1
                <5> QED BY <4>2, <5>2, <5>3 DEF Before
            <4>3. CASE i - 1 # from
                BY <1>6, <3>1, <4>3 DEF Before
            <4> QED BY <4>1, <4>2, <4>3
        <3>3. g[i] = w[i].hash
            BY <1>6, <3>1
        <3> QED BY <1>5, <3>1, <3>2, <3>3
    <2> QED BY <1>1, <2>1, <2>2
<1> QED BY <1>1, <1>6, <1>7 DEF Chained, B, g

-----------------------------------------------------------------------------
(* One request *)

\* No more than one item in the block that the prompt ends in.
FewInTail(q) == Cardinality(ItemsInTail(q)) <= 1

\* h is a sequence, of whatever.
Sequence(h) == \E X : h \in Seq(X)

\* The hashes of a request are in order.
Good(q, h) ==
    /\ Wellformed(q)
    /\ Sequence(h)
    /\ Len(h) = NumBlocks(q.tokens)
    /\ FewInTail(q) => Chained(q, h)

\* The full blocks of a prompt and of a request.
LEMMA PromptBlocks ==
    ASSUME NEW q, Wellformed(q)
    PROVE  /\ q.prompt \in Nat /\ Len(q.tokens) \in Nat
           /\ NumBlocks(SubSeq(q.tokens, 1, q.prompt)) = q.prompt \div HashBlockSize
           /\ NumBlocks(q.tokens) = Len(q.tokens) \div HashBlockSize
<1>1. q.tokens \in Seq(Texts \cup {Placeholder}) /\ q.prompt \in 0..MaxPrompt /\ q.prompt <= Len(q.tokens)
    BY DEF Wellformed, Inputs
<1>2. q.prompt \in Nat /\ Len(q.tokens) \in Nat
    BY <1>1, BoundsAssumption
<1>3. Len(SubSeq(q.tokens, 1, q.prompt)) = q.prompt
    <2>1. \A i \in 1..q.prompt : q.tokens[i] \in Texts \cup {Placeholder}
        BY <1>1, <1>2
    <2>2. Len(SubSeq(q.tokens, 1, q.prompt)) = IF 1 <= q.prompt THEN q.prompt - 1 + 1 ELSE 0
        BY <1>2, <2>1, SubSeqProperties
    <2> QED BY <1>2, <2>2
<1> QED BY <1>2, <1>3, Zenon DEF NumBlocks

\* The search starts behind items that ended before the blocks to be hashed, if
\* no more than one lies in the block that the prompt ends in.
LEMMA SearchStarts ==
    ASSUME NEW q, Wellformed(q), FewInTail(q), NEW m \in Nat, q.prompt \div HashBlockSize <= m
    PROVE  Skips(q.features, FirstItem(q.features, m), m * HashBlockSize)
<1> DEFINE fs == q.features
           n == Len(fs)
           tail == (q.prompt \div HashBlockSize) * HashBlockSize
           x == m * HashBlockSize
<1>1. n \in Nat /\ fs \in [1..n -> Features] /\ DOMAIN fs = 1..n
    BY DEF Wellformed, Ordered
<1>2. CASE m = 0 \/ fs = <<>>
    <2>1. FirstItem(fs, m) = 1
        BY <1>2 DEF FirstItem
    <2>2. 1 \in 1 .. n + 1 /\ 1 .. 1 - 1 = {}
        BY <1>1
    <2>3. \A j \in 1 .. 1 - 1 : End(fs[j]) <= x
        BY <2>2
    <2>4. Skips(fs, 1, x)
        BY <2>2, <2>3, Zenon DEF Skips
    <2> QED BY <2>1, <2>4, Zenon
<1>3. CASE m # 0 /\ fs # <<>>
    <2>1. FirstItem(fs, m) = n
        BY <1>3 DEF FirstItem
    <2>2. n > 0
        <3>1. n = 0 => fs = <<>>
            BY <1>1
        <3> QED BY <1>1, <1>3, <3>1
    <2>3. /\ q.prompt \in Nat /\ q.prompt \div HashBlockSize \in Nat /\ q.prompt < tail + HashBlockSize
          /\ q.prompt \div HashBlockSize = 0 => tail = 0
        <3>1. q.prompt \in Nat
            BY PromptBlocks
        <3>2. q.prompt \div HashBlockSize \in Nat /\ q.prompt < tail + HashBlockSize
            BY <3>1, Division
        <3>3. 0 * HashBlockSize = 0
            BY Sizes
        <3> QED BY <3>1, <3>2, <3>3, Zenon
    <2>4. tail \in Nat /\ x \in Nat /\ tail <= x /\ HashBlockSize <= x
        <3> DEFINE c == q.prompt \div HashBlockSize
        <3>0. c \in Nat /\ c <= m
            BY <2>3, Zenon
        <3> HIDE DEF c
        <3>1. c * HashBlockSize \in Nat /\ x \in Nat /\ c * HashBlockSize <= x
            BY <3>0, Multiples
        <3>4. tail = c * HashBlockSize
            BY Zenon DEF c
        <3> HIDE DEF tail, x
        <3>2. (0 + 1) * HashBlockSize <= x
            BY <1>3, Multiples DEF x
        <3>3. (0 + 1) * HashBlockSize = HashBlockSize
            BY Sizes
        <3>5. HashBlockSize <= x
            BY <3>2, <3>3, Zenon
        <3> QED BY <3>1, <3>4, <3>5, Zenon
    <2>5. ItemsInTail(q) = {i \in 1..n : tail > 0 /\ End(fs[i]) > tail}
        BY <1>1, PromptBlocks DEF ItemsInTail
    <2>6. \A j \in 1..n : End(fs[j]) \in Nat /\ fs[j].offset \in Nat /\ fs[j].offset < End(fs[j])
                          /\ End(fs[j]) <= q.prompt
        <3>1. \A j \in 1..n : fs[j] \in Features
            BY <1>1
        <3>2. \A j \in 1..n : End(fs[j]) <= q.prompt
            BY Zenon DEF Wellformed
        <3> QED BY <3>1, <3>2, FeatureFacts
    <2> HIDE DEF tail, x
    <2>7. ASSUME NEW j \in 1 .. n - 1, ~ (End(fs[j]) <= x) PROVE FALSE
        <3>1. j \in 1..n /\ n \in 1..n /\ j < n
            BY <1>1, <2>2
        <3>2. End(fs[j]) > x /\ End(fs[j]) > tail
            BY <2>4, <2>6, <2>7, <3>1
        <3>3. tail > 0
            <4>1. SUFFICES ASSUME tail = 0 PROVE FALSE
                BY <2>4
            <4>0. q.prompt \in Nat /\ q.prompt < tail + HashBlockSize
                BY <2>3, Zenon
            <4>2. q.prompt < HashBlockSize
                BY <4>0, <4>1, Sizes
            <4>3. End(fs[j]) <= q.prompt /\ End(fs[j]) \in Nat
                BY <2>6, <3>1
            <4> DEFINE y == End(fs[j])
                       z == q.prompt
            <4>4. y <= z /\ z < HashBlockSize /\ HashBlockSize <= x /\ y > x /\ y \in Nat /\ z \in Nat /\ x \in Nat
                BY <2>4, <3>2, <4>0, <4>2, <4>3
            <4> HIDE DEF y, z
            <4> QED BY <4>4, Sizes
        <3>4. End(fs[n]) > tail
            <4>1. End(fs[j]) <= fs[n].offset
                BY <3>1 DEF Wellformed, Ordered
            <4> QED BY <2>4, <2>6, <3>1, <3>2, <4>1
        <3>5. j \in ItemsInTail(q) /\ n \in ItemsInTail(q)
            BY <2>5, <3>1, <3>2, <3>3, <3>4
        <3>6. IsFiniteSet(ItemsInTail(q))
            <4>1. IsFiniteSet(1..n)
                BY <1>1, FS_Interval
            <4>2. ItemsInTail(q) \subseteq 1..n
                BY <2>5
            <4> QED BY <4>1, <4>2, FS_Subset
        <3>7. Cardinality({j, n}) <= Cardinality(ItemsInTail(q)) /\ Cardinality(ItemsInTail(q)) \in Nat
            <4>1. {j, n} \subseteq ItemsInTail(q)
                BY <3>5
            <4> QED BY <3>6, <4>1, FS_Subset, FS_CardinalityType
        <3>8. Cardinality({j, n}) = 2
            <4>1. j \notin {n}
                BY <3>1, <1>1
            <4>2. IsFiniteSet({n}) /\ Cardinality({n}) = 1
                BY FS_Singleton
            <4>3. Cardinality({n} \cup {j}) = Cardinality({n}) + 1
                BY <4>1, <4>2, FS_AddElement, Zenon
            <4>4. {n} \cup {j} = {j, n}
                OBVIOUS
            <4>5. Cardinality({j, n}) = 1 + 1
                BY <4>2, <4>3, <4>4, Zenon
            <4> QED BY <4>5
        <3> QED BY <3>7, <3>8 DEF FewInTail
    <2>8. \A j \in 1 .. n - 1 : End(fs[j]) <= x
        BY <2>7
    <2>9. n \in 1 .. n + 1
        BY <1>1, <2>2
    <2>10. Skips(fs, n, x)
        BY <2>8, <2>9, Zenon DEF Skips
    <2> QED BY <2>1, <2>10 DEF x
<1> QED BY <1>2, <1>3

\* After a call of the hasher there is one hash for each full block.
LEMMA NewHashesLength ==
    ASSUME NEW q, NEW X, NEW h \in Seq(X), NumBlocks(q.tokens) \in Nat, Len(h) <= NumBlocks(q.tokens)
    PROVE  /\ Sequence(h \o NewHashes(q, h))
           /\ Len(h \o NewHashes(q, h)) = NumBlocks(q.tokens)
<1> DEFINE to == NumBlocks(q.tokens)
           from == Len(h)
<1>1. from \in Nat /\ to \in Nat /\ from <= to
    OBVIOUS
<1>2. PICK w : NewHashes(q, h) = [k \in 1 .. to - from |-> w[from + k].hash]
    BY <1>1, NewHashesWalk
<1> HIDE DEF to
<1> DEFINE d == to - from
           f == [k \in 1..d |-> w[from + k].hash]
           Y == X \cup {w[from + k].hash : k \in 1..d}
<1>3. d \in Nat /\ f \in [1..d -> Y] /\ X \subseteq Y /\ from + d = to
    <2>1. d \in Nat /\ from + d = to
        BY <1>1
    <2> HIDE DEF d
    <2> QED BY <2>1
<1>4. NewHashes(q, h) = f
    BY <1>2, Zenon
<1> HIDE DEF d, f, Y
<1>5. f \in Seq(Y) /\ Len(f) = d /\ h \in Seq(Y)
    BY <1>3, SeqMonotonic
<1>6. h \o f \in Seq(Y) /\ Len(h \o f) = from + d
    BY <1>5, ConcatProperties
<1>7. Len(h \o f) = to
    BY <1>1, <1>3, <1>6
<1>8. Sequence(h \o f)
    BY <1>6, Zenon DEF Sequence
<1> QED BY <1>4, <1>7, <1>8 DEF to

\* A call of the hasher leaves the hashes in order.
LEMMA HashedGood ==
    ASSUME NEW q, Wellformed(q), NEW h, Sequence(h), Len(h) <= NumBlocks(q.tokens),
           FewInTail(q) => /\ Chained(q, h)
                           /\ Skips(q.features, FirstItem(q.features, Len(h)), Len(h) * HashBlockSize)
    PROVE  Good(q, h \o NewHashes(q, h))
<1>1. PICK X : h \in Seq(X)
    BY DEF Sequence
<1>2. NumBlocks(q.tokens) \in Nat
    BY PromptBlocks, Division
<1>3. Sequence(h \o NewHashes(q, h)) /\ Len(h \o NewHashes(q, h)) = NumBlocks(q.tokens)
    BY <1>1, <1>2, NewHashesLength
<1>4. ASSUME FewInTail(q) PROVE Chained(q, h \o NewHashes(q, h))
    BY <1>1, <1>4, HashesGrow
<1> QED BY <1>3, <1>4, Zenon DEF Good

-----------------------------------------------------------------------------
(* The operations *)

\* Before a request arrives.
LEMMA NoRequestGood == Wellformed(NoRequest) /\ Good(NoRequest, <<>>)
<1>1. /\ NoRequest.features = <<>> /\ NoRequest.tokens = <<>> /\ NoRequest.prompt = 0
      /\ Len(NoRequest.tokens) = 0 /\ Len(NoRequest.features) = 0
    BY DEF NoRequest
<1>2. NoRequest \in Inputs
    <2>1. 0 \in 0..MaxPrompt
        BY BoundsAssumption
    <2> QED BY <2>1 DEF NoRequest, Inputs
<1>3. Ordered(NoRequest.features, Len(NoRequest.features))
    <2>1. <<>> \in [1..0 -> Features] /\ 1..0 = {}
        OBVIOUS
    <2> QED BY <1>1, <2>1 DEF Ordered
<1>4. Wellformed(NoRequest)
    <2>1. \A i \in 1..Len(NoRequest.features) : End(NoRequest.features[i]) <= NoRequest.prompt
        BY <1>1
    <2> QED BY <1>1, <1>2, <1>3, <2>1 DEF Wellformed
<1>5. NumBlocks(NoRequest.tokens) = 0
    <2>1. NumBlocks(NoRequest.tokens) = 0 \div HashBlockSize
        BY <1>1, Zenon DEF NumBlocks
    <2> QED BY <2>1, Sizes
<1>6. Sequence(<<>>) /\ Len(<<>>) = 0
    <2>1. <<>> \in Seq({})
        OBVIOUS
    <2> QED BY <2>1 DEF Sequence
<1>7. Chained(NoRequest, <<>>)
    <2>1. 0 * HashBlockSize = 0
        BY Sizes
    <2> QED BY <1>1, <1>6, <2>1 DEF Chained
<1> QED BY <1>4, <1>5, <1>6, <1>7, Zenon DEF Good

\* The record that Arrive makes is a request.
LEMMA InputsRecord ==
    ASSUME NEW fs \in Seq(Features), NEW a \in Adapters \cup {None}, NEW s \in Salts \cup {None},
           NEW n \in 0..MaxPrompt, NEW toks \in Seq(Texts \cup {Placeholder})
    PROVE  [features |-> fs, lora |-> a, salt |-> s, prompt |-> n, tokens |-> toks] \in Inputs
BY DEF Inputs

\* A prompt, as Arrive takes it.
LEMMA ArriveGood ==
    ASSUME NEW h, Good(NoRequest, h), NEW n \in 1..MaxPrompt, NEW fs \in Layouts(n),
           NEW text \in [1..n -> Texts], NEW a \in Adapters \cup {None}, NEW s \in Salts \cup {None},
           NEW q, q = [features |-> fs, lora |-> a, salt |-> s, prompt |-> n,
                       tokens |-> [p \in 1..n |-> IF Inside(fs, p - 1) THEN Placeholder ELSE text[p]]]
    PROVE  Good(q, h \o NewHashes(q, h))
<1>1. n \in Nat /\ n \in 0..MaxPrompt
    BY BoundsAssumption
<1>2. PICK k \in 0..MaxItems : fs \in [1..k -> Features]
    BY DEF Layouts
<1>3. k \in Nat /\ Len(fs) = k /\ DOMAIN fs = 1..k /\ fs \in Seq(Features)
    BY <1>2, BoundsAssumption
<1>4. (\A i \in 1..k : End(fs[i]) <= n) /\ \A i, j \in 1..k : i < j => End(fs[i]) <= fs[j].offset
    BY <1>3 DEF Layouts
<1>5. Ordered(fs, Len(fs))
    BY <1>2, <1>3, <1>4 DEF Ordered
<1> DEFINE toks == [p \in 1..n |-> IF Inside(fs, p - 1) THEN Placeholder ELSE text[p]]
<1>6. toks \in Seq(Texts \cup {Placeholder}) /\ Len(toks) = n
    <2>1. toks \in [1..n -> Texts \cup {Placeholder}]
        OBVIOUS
    <2> HIDE DEF toks
    <2> QED BY <1>1, <2>1
<1> HIDE DEF toks
<1>7. q = [features |-> fs, lora |-> a, salt |-> s, prompt |-> n, tokens |-> toks]
    BY Zenon DEF toks
<1>8. Wellformed(q)
    <2>1. q \in Inputs
        <3>1. [features |-> fs, lora |-> a, salt |-> s, prompt |-> n, tokens |-> toks] \in Inputs
            BY <1>1, <1>3, <1>6, InputsRecord, Zenon
        <3> QED BY <1>7, <3>1, Zenon
    <2>2. q.features = fs /\ q.prompt = n /\ q.tokens = toks
        BY <1>7
    <2>3. q.prompt <= Len(q.tokens)
        BY <1>1, <1>6, <2>2
    <2>4. \A i \in 1..Len(q.features) : End(q.features[i]) <= q.prompt
        BY <1>3, <1>4, <2>2
    <2> QED BY <1>5, <2>1, <2>2, <2>3, <2>4, Zenon DEF Wellformed
<1>9. Len(h) = 0 /\ Sequence(h)
    <2>1. NumBlocks(NoRequest.tokens) = 0
        <3>1. NoRequest.tokens = <<>> /\ Len(<<>>) = 0
            BY DEF NoRequest
        <3>2. NumBlocks(NoRequest.tokens) = 0 \div HashBlockSize
            BY <3>1, Zenon DEF NumBlocks
        <3> QED BY <3>2, Sizes
    <2> QED BY <2>1, Zenon DEF Good
<1>10. Len(h) <= NumBlocks(q.tokens)
    <2>1. NumBlocks(q.tokens) \in Nat
        BY <1>8, PromptBlocks, Division
    <2> QED BY <1>9, <2>1
<1>11. Chained(q, h)
    <2>1. 0 * HashBlockSize = 0
        BY Sizes
    <2>2. Len(q.tokens) \in Nat
        BY <1>8, PromptBlocks
    <2> QED BY <1>9, <2>1, <2>2 DEF Chained
<1>12. Skips(q.features, FirstItem(q.features, Len(h)), Len(h) * HashBlockSize)
    <2>1. FirstItem(q.features, Len(h)) = 1
        BY <1>9 DEF FirstItem
    <2>2. q.features = fs /\ 1 \in 1 .. Len(fs) + 1 /\ 1 .. 1 - 1 = {}
        BY <1>3, <1>7
    <2> QED BY <2>1, <2>2 DEF Skips
<1> QED BY <1>8, <1>9, <1>10, <1>11, <1>12, HashedGood

\* One token more.
LEMMA GenerateGood ==
    ASSUME NEW p, NEW h, Good(p, h), NEW t \in Texts,
           NEW q, q = [p EXCEPT !.tokens = Append(@, t)]
    PROVE  Good(q, h \o NewHashes(q, h))
<1> DEFINE B == HashBlockSize
           toks == p.tokens
<1>1. Wellformed(p) /\ Sequence(h) /\ Len(h) = NumBlocks(toks) /\ (FewInTail(p) => Chained(p, h))
    BY Zenon DEF Good
<1>2. p \in Inputs /\ toks \in Seq(Texts \cup {Placeholder}) /\ Len(toks) \in Nat
      /\ p = [features |-> p.features, lora |-> p.lora, salt |-> p.salt, prompt |-> p.prompt, tokens |-> toks]
    BY <1>1 DEF Wellformed, Inputs
<1>3. /\ q.tokens = Append(toks, t)
      /\ q.tokens \in Seq(Texts \cup {Placeholder})
      /\ Len(q.tokens) = Len(toks) + 1
      /\ \A i \in 1..Len(toks) : q.tokens[i] = toks[i]
    BY <1>2
<1>4. q.features = p.features /\ q.lora = p.lora /\ q.salt = p.salt /\ q.prompt = p.prompt
    BY <1>2
<1>5. Wellformed(q)
    <2>1. q \in Inputs
        BY <1>2, <1>3 DEF Inputs
    <2>2. q.prompt <= Len(q.tokens)
        <3>1. p.prompt <= Len(toks) /\ p.prompt \in Nat
            BY <1>1, PromptBlocks DEF Wellformed
        <3> QED BY <1>2, <1>3, <1>4, <3>1
    <2> QED BY <1>1, <1>4, <2>1, <2>2, Zenon DEF Wellformed
<1>6. Len(h) \in Nat /\ Len(h) * B <= Len(toks) /\ Len(h) <= NumBlocks(q.tokens)
    <2>1. Len(h) = Len(toks) \div B
        BY <1>1, Zenon DEF NumBlocks
    <2>2. Len(h) \in Nat /\ Len(h) * B <= Len(toks)
        BY <1>2, <2>1, Division
    <2> DEFINE x == Len(h) * B
    <2>3. x \in Nat
        BY <2>2, Multiples
    <2>4. x <= Len(q.tokens) /\ Len(q.tokens) \in Nat
        <3> HIDE DEF x
        <3>1. x <= Len(toks)
            BY <2>2 DEF x
        <3> QED BY <1>2, <1>3, <2>3, <3>1
    <2>5. Len(h) <= Len(q.tokens) \div B
        BY <2>2, <2>4, Division
    <2> QED BY <2>2, <2>5, Zenon DEF NumBlocks
<1>7. FewInTail(q) <=> FewInTail(p)
    <2>1. ItemsInTail(q) = ItemsInTail(p)
        <3>1. NumBlocks(SubSeq(q.tokens, 1, q.prompt)) = NumBlocks(SubSeq(p.tokens, 1, p.prompt))
            BY <1>1, <1>4, <1>5, PromptBlocks
        <3> QED BY <1>4, <3>1, Zenon DEF ItemsInTail
    <2> QED BY <2>1, Zenon DEF FewInTail
<1>8. ASSUME FewInTail(q) PROVE Chained(q, h)
    <2>1. Chained(p, h)
        BY <1>1, <1>7, <1>8
    <2>2. ASSUME NEW start \in Nat, start + B <= Len(toks) PROVE Text(q, start) = Text(p, start)
        <3>1. B \in Nat \ {0}
            BY Sizes
        <3>2. start + 1 \in Nat \ {0} /\ start + B \in Nat /\ start + B <= Len(q.tokens)
            BY <1>2, <1>3, <2>2, <3>1
        <3>3. \A i \in start + 1 .. start + B : q.tokens[i] = toks[i]
            BY <1>2, <1>3, <2>2, <3>1
        <3> QED BY <1>2, <1>3, <2>2, <3>2, <3>3, SameSlice DEF Text
    <2>3. \A start : ExtraKeys(q, start, 1) = ExtraKeys(p, start, 1)
        BY <1>4, Zenon DEF ExtraKeys
    <2>4. ASSUME NEW i \in 1..Len(h)
          PROVE  h[i] = BlockHash(Before(h, i), Text(q, (i - 1) * B), ExtraKeys(q, (i - 1) * B, 1))
        <3>1. h[i] = BlockHash(Before(h, i), Text(p, (i - 1) * B), ExtraKeys(p, (i - 1) * B, 1))
            BY <2>1, Zenon DEF Chained
        <3>2. i - 1 \in Nat /\ (i - 1) + 1 = i /\ i <= Len(h) /\ i \in Nat
            BY <1>6
        <3> DEFINE start == (i - 1) * B
                   x == i * B
                   y == Len(h) * B
        <3>3. start \in Nat /\ x = start + B
            <4>1. (i - 1) * B \in Nat /\ ((i - 1) + 1) * B = (i - 1) * B + B
                BY <3>2, Multiples
            <4> QED BY <3>2, <4>1
        <3>4. x \in Nat /\ y \in Nat /\ x <= y
            BY <1>6, <3>2, Multiples
        <3>5. y <= Len(toks)
            BY <1>6
        <3> HIDE DEF start, x, y
        <3>6. start + B <= Len(toks)
            BY <1>2, <3>3, <3>4, <3>5
        <3>7. Text(q, start) = Text(p, start)
            BY <2>2, <3>3, <3>6
        <3> QED BY <2>3, <3>1, <3>7, Zenon DEF start
    <2>5. Len(h) * B <= Len(q.tokens)
        <3> DEFINE y == Len(h) * B
        <3>1. y \in Nat /\ y <= Len(toks)
            BY <1>6, Multiples
        <3> HIDE DEF y
        <3>2. y <= Len(q.tokens)
            BY <1>2, <1>3, <3>1
        <3> QED BY <3>2 DEF y
    <2> QED BY <1>6, <2>4, <2>5, Zenon DEF Chained
<1>9. ASSUME FewInTail(q) PROVE Skips(q.features, FirstItem(q.features, Len(h)), Len(h) * B)
    <2>1. q.prompt \in Nat /\ q.prompt <= Len(toks)
        <3>1. p.prompt \in Nat /\ p.prompt <= Len(toks)
            BY <1>1, PromptBlocks DEF Wellformed
        <3> QED BY <1>4, <3>1
    <2>2. q.prompt \div B <= Len(h)
        <3> DEFINE c == q.prompt \div B
                   x == c * B
        <3>1. c \in Nat /\ x <= q.prompt
            BY <2>1, Division
        <3>2. x \in Nat
            <4> HIDE DEF c
            <4> QED BY <3>1, Multiples
        <3>3. x <= Len(toks)
            <4> HIDE DEF x
            <4> QED BY <1>2, <2>1, <3>1, <3>2
        <3>4. c <= Len(toks) \div B
            <4> HIDE DEF c
            <4> QED BY <1>2, <3>1, <3>3, Division
        <3> QED BY <1>1, <3>4, Zenon DEF NumBlocks
    <2> QED BY <1>5, <1>6, <1>9, <2>2, SearchStarts
<1> QED BY <1>1, <1>5, <1>6, <1>8, <1>9, HashedGood

\* Two good requests have equal hashes where their prefixes are equal.
LEMMA GoodTell ==
    ASSUME NEW q, NEW h, Good(q, h), FewInTail(q), NEW p, NEW g, Good(p, g), FewInTail(p)
    PROVE  \A i \in 1..Len(h), j \in 1..Len(g) :
               h[i] = g[j] <=> i = j /\ Prefix(q, i * HashBlockSize) = Prefix(p, j * HashBlockSize)
<1>1. Wellformed(q) /\ Wellformed(p) /\ Chained(q, h) /\ Chained(p, g)
    BY Zenon DEF Good
<1>2. \A i \in 1..Len(h), j \in 1..Len(g) :
          h[i] = g[j] <=> i = j /\ SamePrefix(q, p, i * HashBlockSize)
    BY <1>1, ChainsTell
<1>3. \A n : Prefix(q, n) = Prefix(p, n) <=> SamePrefix(q, p, n)
    BY PrefixesSame, Zenon
<1> QED BY <1>2, <1>3, Zenon

-----------------------------------------------------------------------------
(* The theorems *)

\* The inductive invariant.
IInv ==
    /\ request \in [Requests -> Inputs]
    /\ DOMAIN block_hashes = Requests
    /\ \A r \in Requests : Good(request[r], block_hashes[r])

\* The hashes are in order initially.
LEMMA InitGood == Init => IInv
<1> SUFFICES ASSUME Init PROVE IInv
    OBVIOUS
<1>1. NoRequest \in Inputs
    BY NoRequestGood DEF Wellformed
<1> QED BY <1>1, NoRequestGood DEF Init, IInv

\* A request and its hashes are replaced, the others stay.
LEMMA BecomesGood ==
    ASSUME IInv, NEW r \in Requests, NEW q, Becomes(r, q),
           Good(q, block_hashes[r] \o NewHashes(q, block_hashes[r]))
    PROVE  IInv'
<1> DEFINE g == block_hashes[r] \o NewHashes(q, block_hashes[r])
<1>1. q \in Inputs
    BY Zenon DEF Good, Wellformed
<1>2. request' = [request EXCEPT ![r] = q] /\ block_hashes' = [block_hashes EXCEPT ![r] = g]
    BY DEF Becomes
<1>3. Good(q, g)
    OBVIOUS
<1> HIDE DEF g
<1>4. request' \in [Requests -> Inputs]
    BY <1>1, <1>2 DEF IInv
<1>5. DOMAIN block_hashes' = Requests
    BY <1>2 DEF IInv
<1>6. ASSUME NEW s \in Requests PROVE Good(request'[s], block_hashes'[s])
    <2>1. CASE s = r
        <3>1. request'[s] = q /\ block_hashes'[s] = g
            BY <1>2, <2>1 DEF IInv
        <3> QED BY <1>3, <3>1
    <2>2. CASE s # r
        <3>1. request'[s] = request[s] /\ block_hashes'[s] = block_hashes[s]
            BY <1>2, <2>2 DEF IInv
        <3> QED BY <3>1 DEF IInv
    <2> QED BY <2>1, <2>2
<1>7. \A s \in Requests : Good(request'[s], block_hashes'[s])
    BY <1>6
<1> QED BY <1>4, <1>5, <1>7 DEF IInv

\* Every step keeps the hashes in order.
LEMMA NextGood == IInv /\ [Next]_vars => IInv'
<1> SUFFICES ASSUME IInv, [Next]_vars PROVE IInv'
    OBVIOUS
<1>1. ASSUME NEW r \in Requests, Arrive(r) PROVE IInv'
    <2>1. request[r] = NoRequest /\ Good(NoRequest, block_hashes[r])
        BY <1>1 DEF Arrive, IInv
    <2>2. PICK n \in 1..MaxPrompt :
             \E fs \in Layouts(n), text \in [1..n -> Texts],
                a \in Adapters \cup {None}, s \in Salts \cup {None} :
                Becomes(r, [features |-> fs, lora |-> a, salt |-> s, prompt |-> n,
                            tokens |-> [p \in 1..n |-> IF Inside(fs, p - 1) THEN Placeholder
                                                                          ELSE text[p]]])
        BY <1>1, Zenon DEF Arrive
    <2>3. PICK fs \in Layouts(n), text \in [1..n -> Texts], a \in Adapters \cup {None}, s \in Salts \cup {None} :
                Becomes(r, [features |-> fs, lora |-> a, salt |-> s, prompt |-> n,
                            tokens |-> [p \in 1..n |-> IF Inside(fs, p - 1) THEN Placeholder
                                                                          ELSE text[p]]])
        BY <2>2, Zenon
    <2>4. PICK q, h : /\ q = [features |-> fs, lora |-> a, salt |-> s, prompt |-> n,
                           tokens |-> [p \in 1..n |-> IF Inside(fs, p - 1) THEN Placeholder ELSE text[p]]]
                      /\ h = block_hashes[r]
        OBVIOUS
    <2>5. Good(q, h \o NewHashes(q, h))
        BY <2>1, <2>4, ArriveGood
    <2>6. Becomes(r, q)
        BY <2>3, <2>4, Zenon
    <2> QED BY <2>4, <2>5, <2>6, BecomesGood
<1>2. ASSUME NEW r \in Requests, Generate(r) PROVE IInv'
    <2>1. PICK t \in Texts : Becomes(r, [request[r] EXCEPT !.tokens = Append(@, t)])
        BY <1>2, Zenon DEF Generate
    <2>2. PICK p, q, h : p = request[r] /\ q = [p EXCEPT !.tokens = Append(@, t)] /\ h = block_hashes[r]
        OBVIOUS
    <2>3. Good(p, h)
        BY <2>2 DEF IInv
    <2>4. Good(q, h \o NewHashes(q, h))
        BY <2>2, <2>3, GenerateGood
    <2>5. Becomes(r, q)
        BY <2>1, <2>2, Zenon
    <2> QED BY <2>2, <2>4, <2>5, BecomesGood
<1>3. ASSUME UNCHANGED vars PROVE IInv'
    BY <1>3 DEF vars, IInv
<1> QED BY <1>1, <1>2, <1>3 DEF Next

\* The hashes of every request are in order, always.
LEMMA AlwaysGood == Spec => []IInv
BY InitGood, NextGood, PTL DEF Spec

\* Every full block has its hash, and no other has.
LEMMA GoodTypeOK == IInv => TypeOK
<1> SUFFICES ASSUME IInv, NEW r \in Requests
             PROVE  LET hashed == Len(block_hashes[r]) * HashBlockSize
                    IN  Len(request[r].tokens) \in hashed .. hashed + HashBlockSize - 1
    BY DEF IInv, TypeOK
<1> DEFINE len == Len(request[r].tokens)
           d == len \div HashBlockSize
           x == d * HashBlockSize
<1>1. Wellformed(request[r]) /\ Len(block_hashes[r]) = d
    BY Zenon DEF IInv, Good, NumBlocks
<1>2. len \in Nat
    BY <1>1, PromptBlocks
<1> HIDE DEF len
<1>3. d \in Nat /\ x <= len /\ len < x + HashBlockSize
    BY <1>2, Division
<1> HIDE DEF d
<1>4. x \in Nat
    BY <1>3, Multiples
<1> HIDE DEF x
<1>5. len \in x .. x + HashBlockSize - 1
    BY <1>2, <1>3, <1>4, Sizes
<1> QED BY <1>1, <1>5, Zenon DEF x, len

\* Hashes in order are told apart by their prefixes.
LEMMA GoodHashes == IInv => HashIsOfPrefixUnlessItemsInTail
<1> SUFFICES ASSUME IInv, \A r \in Requests : FewInTail(request[r]),
                    NEW r \in Requests, NEW s \in Requests
             PROVE  \A i \in 1..Len(block_hashes[r]), j \in 1..Len(block_hashes[s]) :
                        block_hashes[r][i] = block_hashes[s][j] <=>
                            /\ i = j
                            /\ Prefix(request[r], i * HashBlockSize) = Prefix(request[s], j * HashBlockSize)
    BY DEF HashIsOfPrefixUnlessItemsInTail, HashIsOfPrefix, SameBlocks, FewInTail
<1>1. PICK q, p, h, g : q = request[r] /\ p = request[s] /\ h = block_hashes[r] /\ g = block_hashes[s]
    OBVIOUS
<1>2. Good(q, h) /\ Good(p, g) /\ FewInTail(q) /\ FewInTail(p)
    BY <1>1 DEF IInv
<1>3. \A i \in 1..Len(h), j \in 1..Len(g) :
          h[i] = g[j] <=> i = j /\ Prefix(q, i * HashBlockSize) = Prefix(p, j * HashBlockSize)
    BY <1>2, GoodTell
<1> QED BY <1>1, <1>3, Zenon

\* Requests keep their types, and after every call of request_block_hasher()
\* there are as many hashes as full blocks.
THEOREM TypeCorrect == Spec => []TypeOK
BY AlwaysGood, GoodTypeOK, PTL

\* Two requests share the hash of a block, computed for the prompt or for
\* generated tokens, just when everything that its KV depends on is the same, if
\* no prompt ends in a block of several items (request_block_hasher()).
THEOREM HashIsOfPrefixAlways == Spec => []HashIsOfPrefixUnlessItemsInTail
BY AlwaysGood, GoodHashes, PTL

\* A group's block, in hash blocks and in tokens.
LEMMA GroupSizes ==
    ASSUME NEW len \in Nat, NEW i \in 1 .. len \div (HashBlockSize * ScaleFactor)
    PROVE  /\ i * ScaleFactor \in 1 .. len \div HashBlockSize
           /\ i \in 1 .. (len \div HashBlockSize) \div ScaleFactor
           /\ (i * ScaleFactor) * HashBlockSize = i * (HashBlockSize * ScaleFactor)
<1> DEFINE B == HashBlockSize
           F == ScaleFactor
           d == len \div B
           e == len \div (B * F)
<1>1. B \in Nat \ {0} /\ F \in Nat \ {0}
    BY Sizes
<1> HIDE DEF B, F
<1>2. B * F \in Nat \ {0}
    BY <1>1
<1>3. e \in Nat /\ e * (B * F) <= len
    <2> DEFINE c == B * F
    <2>1. c \in Nat \ {0}
        BY <1>2
    <2> HIDE DEF c
    <2>2. len \div c \in Nat /\ (len \div c) * c <= len
        BY <2>1
    <2> QED BY <2>2 DEF c
<1>4. i \in Nat \ {0} /\ i <= e
    BY <1>3 DEF B, F
<1> HIDE DEF e
<1>5. (i * F) * B = i * (B * F) /\ i * (B * F) \in Nat /\ i * F \in Nat \ {0}
    BY <1>1, <1>4
<1>6. i * (B * F) <= e * (B * F)
    <2>1. \A c \in Nat, x, y \in Nat : x <= y => x * c <= y * c
        OBVIOUS
    <2> QED BY <1>2, <1>3, <1>4, <2>1
<1>7. (i * F) * B <= len
    <2> DEFINE x == i * (B * F)
               y == e * (B * F)
    <2>1. x \in Nat /\ x <= y /\ y <= len /\ y \in Nat
        BY <1>3, <1>5, <1>6, <1>2
    <2> HIDE DEF x, y
    <2>2. x <= len
        BY <2>1
    <2> QED BY <1>5, <2>2 DEF x
<1>8. d \in Nat /\ i * F <= d
    BY <1>5, <1>7, Division DEF B
<1> HIDE DEF d
<1>9. i <= d \div F
    <2>1. d \div F \in Nat /\ d < (d \div F) * F + F
        BY <1>1, <1>8
    <2> DEFINE c == d \div F
    <2>2. SUFFICES ASSUME c + 1 <= i PROVE FALSE
        BY <1>4, <2>1
    <2>3. c \in Nat /\ d < c * F + F
        BY <2>1
    <2> HIDE DEF c
    <2>4. (c + 1) * F <= i * F /\ (c + 1) * F = c * F + F
        <3>1. \A a \in Nat, x, y \in Nat : x <= y => x * a <= y * a
            OBVIOUS
        <3>2. c + 1 \in Nat
            BY <2>3
        <3>3. (c + 1) * F <= i * F
            BY <1>1, <1>4, <2>2, <3>1, <3>2
        <3> QED BY <1>1, <2>3, <3>3
    <2> DEFINE x == c * F
               y == i * F
    <2>5. x \in Nat /\ y \in Nat /\ y <= d /\ d < x + F /\ x + F <= y
        BY <1>1, <1>4, <1>8, <2>3, <2>4
    <2> HIDE DEF x, y
    <2> QED BY <1>1, <1>8, <2>5
<1>10. i \in 1 .. d \div F /\ i * F \in 1..d
    <2>1. d \div F \in Nat
        BY <1>1, <1>8
    <2> QED BY <1>4, <1>5, <1>8, <1>9, <2>1
<1> QED BY <1>5, <1>10 DEF B, F, d

\* A group sees hashes of the ends of its blocks.
LEMMA GoodGroupHashes == IInv => GroupHashIsOfPrefix
<1> SUFFICES ASSUME IInv, \A r \in Requests : FewInTail(request[r]) PROVE
        SameBlocks([r \in Requests |->
                       [i \in 1 .. NumGroupBlocks(block_hashes[r]) |-> GroupHash(block_hashes[r], i)]],
                   [r \in Requests |-> Len(request[r].tokens) \div (HashBlockSize * ScaleFactor)],
                   HashBlockSize * ScaleFactor)
    BY DEF GroupHashIsOfPrefix, FewInTail
<1> DEFINE hash == [r \in Requests |->
                       [i \in 1 .. NumGroupBlocks(block_hashes[r]) |-> GroupHash(block_hashes[r], i)]]
           num == [r \in Requests |-> Len(request[r].tokens) \div (HashBlockSize * ScaleFactor)]
<1>1. ASSUME NEW r \in Requests, NEW i \in 1..num[r]
      PROVE  /\ hash[r][i] = block_hashes[r][i * ScaleFactor]
             /\ i * ScaleFactor \in 1..Len(block_hashes[r])
             /\ (i * ScaleFactor) * HashBlockSize = i * (HashBlockSize * ScaleFactor)
             /\ i \in Nat
    <2>1. PICK len : len = Len(request[r].tokens)
        OBVIOUS
    <2>2. Wellformed(request[r]) /\ Len(block_hashes[r]) = len \div HashBlockSize
        BY <2>1, Zenon DEF IInv, Good, NumBlocks
    <2>3. len \in Nat
        BY <2>1, <2>2, PromptBlocks
    <2>4. num[r] = len \div (HashBlockSize * ScaleFactor)
        BY <2>1
    <2>5. i \in 1 .. len \div (HashBlockSize * ScaleFactor)
        BY <2>4
    <2> HIDE DEF num
    <2>6. /\ i * ScaleFactor \in 1 .. len \div HashBlockSize
          /\ i \in 1 .. (len \div HashBlockSize) \div ScaleFactor
          /\ (i * ScaleFactor) * HashBlockSize = i * (HashBlockSize * ScaleFactor)
        BY <2>3, <2>5, GroupSizes
    <2>7. i \in 1 .. NumGroupBlocks(block_hashes[r])
        BY <2>2, <2>6, Zenon DEF NumGroupBlocks
    <2>8. hash[r][i] = block_hashes[r][i * ScaleFactor]
        BY <2>7 DEF GroupHash
    <2>9. i \in Nat
        <3> HIDE DEF hash
        <3>1. \A m : i \in 1..m => i \in Int
            OBVIOUS
        <3> QED BY <2>5
    <2> QED BY <2>2, <2>6, <2>8, <2>9, Zenon
<1>2. HashIsOfPrefix
    BY GoodHashes DEF HashIsOfPrefixUnlessItemsInTail, FewInTail
<1>3. ASSUME NEW r \in Requests, NEW s \in Requests, NEW i \in 1..num[r], NEW j \in 1..num[s]
      PROVE  hash[r][i] = hash[s][j] <=>
                /\ i = j
                /\ Prefix(request[r], i * (HashBlockSize * ScaleFactor)) = Prefix(request[s], j * (HashBlockSize * ScaleFactor))
    <2> DEFINE a == i * ScaleFactor
               b == j * ScaleFactor
    <2>1. /\ hash[r][i] = block_hashes[r][a] /\ a \in 1..Len(block_hashes[r]) /\ i \in Nat
          /\ a * HashBlockSize = i * (HashBlockSize * ScaleFactor)
        BY <1>1
    <2>2. /\ hash[s][j] = block_hashes[s][b] /\ b \in 1..Len(block_hashes[s]) /\ j \in Nat
          /\ b * HashBlockSize = j * (HashBlockSize * ScaleFactor)
        BY <1>1
    <2>3. a = b <=> i = j
        BY <2>1, <2>2, Sizes
    <2> HIDE DEF hash, num, a, b
    <2>4. block_hashes[r][a] = block_hashes[s][b] <=>
              a = b /\ Prefix(request[r], a * HashBlockSize) = Prefix(request[s], b * HashBlockSize)
        BY <1>2, <2>1, <2>2 DEF HashIsOfPrefix, SameBlocks
    <2> QED BY <2>1, <2>2, <2>3, <2>4, Zenon
<1> QED BY <1>3, Zenon DEF SameBlocks

\* And so for the blocks of a group that are several hash blocks long
\* (BlockHashListWithBlockSize).
THEOREM GroupHashIsOfPrefixAlways == Spec => []GroupHashIsOfPrefix
BY AlwaysGood, GoodGroupHashes, PTL
=============================================================================
