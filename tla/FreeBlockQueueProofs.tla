------------------------ MODULE FreeBlockQueueProofs ------------------------
(***************************************************************************)
(* For any number of blocks and however the block pool uses it, the list   *)
(* of FreeBlockQueue stays well linked. Every operation replaces what lies *)
(* between two elements of the list by other blocks (none, one or a        *)
(* batch), so one lemma, Spliced, says what that does to the links, and     *)
(* what it does to the list is a step of FreeList.                         *)
(***************************************************************************)
EXTENDS FreeBlockQueue, WellFoundedInduction, TLAPS

(***************************************************************************)
(* Induction over the naturals, from the library's minimum of a set.       *)
(***************************************************************************)

\* A set of naturals that is not empty has a least element.
LEMMA LeastNatural ==
    ASSUME NEW T \in SUBSET Nat, T # {}
    PROVE  \E m \in T : \A k \in T : m <= k
<1>1. PICK m \in T : \A k \in T : <<k, m>> \notin OpToRel(<, Nat)
    BY WFMin, NatLessThanWellFounded, Zenon
<1>2. ASSUME NEW k \in T PROVE m <= k
    <2>1. ~ (k < m)
        BY <1>1, Zenon DEF OpToRel
    <2> QED BY <2>1
<1> QED BY <1>2

\* A set with 0 in it that is closed under successor contains every natural.
LEMMA SetInduction ==
    ASSUME NEW S, 0 \in S, \A n \in Nat : n \in S => n + 1 \in S
    PROVE  Nat \subseteq S
<1> DEFINE T == {n \in Nat : n \notin S}
<1>1. SUFFICES ASSUME T # {} PROVE FALSE
    OBVIOUS
<1>2. PICK m \in T : \A k \in T : m <= k
    BY <1>1, LeastNatural
<1> QED BY <1>2

(***************************************************************************)
(* Paths                                                                   *)
(***************************************************************************)

\* The list of a well linked state, with the fake blocks at its ends.
Full(s) == Path(Head, s, num, Tail)

LEMMA FullFacts ==
    ASSUME num \in Nat, NEW s \in [1..num -> BlockIds], LinkedAs(s)
    PROVE  /\ \A i \in 0..num + 1 : Full(s)[i] \in Nodes
           /\ \A i \in 1..num : Full(s)[i] = s[i]
           /\ Full(s)[0] = Head /\ Full(s)[num + 1] = Tail
           /\ \A i, j \in 0..num + 1 : Full(s)[i] = Full(s)[j] => i = j
           /\ \A i \in 0..num + 1 : Full(s)[i] \notin held
<1>1. /\ \A i \in 1..num : Full(s)[i] = s[i] /\ s[i] \in BlockIds
      /\ Full(s)[0] = Head /\ Full(s)[num + 1] = Tail
    BY DEF Full, Path
<1>2. \A i \in 0..num + 1 : i = 0 \/ i = num + 1 \/ i \in 1..num
    OBVIOUS
<1>3. \A i, j \in 0..num + 1 : Full(s)[i] = Full(s)[j] => i = j
    BY <1>1, <1>2, NodesAssumption DEF LinkedAs
<1> QED BY <1>1, <1>2, <1>3, NodesAssumption DEF LinkedAs, Nodes

\* What is left of s when blocks lo + 1 .. hi - 1 are replaced by k others.
Replaced(s, lo, hi, k, b, n) ==
    [i \in 1..n |-> IF i <= lo THEN s[i]
                    ELSE IF i <= lo + k THEN b[i - lo]
                    ELSE s[i - lo - k + hi - 1]]

Gone(s, lo, hi) == {s[i] : i \in lo + 1 .. hi - 1}

\* The step that does it: everything between two elements of the list goes,
\* and a batch of blocks from outside takes its place.
SpliceStep(s, lo, hi, k, b) ==
    /\ b \in [1..k -> held]
    /\ \A i, j \in 1..k : b[i] = b[j] => i = j
    /\ Relink(Path(Full(s)[lo], b, k, Full(s)[hi]), k, Gone(s, lo, hi))
    /\ num' = num - (hi - lo - 1) + k
    /\ held' = (held \cup Gone(s, lo, hi)) \ {b[i] : i \in 1..k}

\* Relinking from one element of the list to a later one, over a batch of
\* blocks from outside, leaves the links of the list with that replacement.
LEMMA Spliced ==
    ASSUME TypeOK, num \in Nat,
           NEW s \in [1..num -> BlockIds], LinkedAs(s),
           NEW lo \in 0..num, NEW hi \in lo + 1 .. num + 1,
           NEW k \in Nat, NEW b, SpliceStep(s, lo, hi, k, b),
           NEW t, t = Replaced(s, lo, hi, k, b, num')
    PROVE  /\ num' \in Nat
           /\ t \in [1..num' -> BlockIds]
           /\ LinkedAs(t)'
<1> DEFINE P == Full(s)
           Q == Path(P[lo], b, k, P[hi])
           D == Gone(s, lo, hi)
           n == num'
           T == Path(Head, t, n, Tail)
<1>n. n \in Nat /\ n = num - (hi - lo - 1) + k
    BY DEF SpliceStep
<1>k. b \in [1..k -> held] /\ (\A i, j \in 1..k : b[i] = b[j] => i = j)
    BY DEF SpliceStep
<1>e. t = [i \in 1..n |-> IF i <= lo THEN s[i]
                         ELSE IF i <= lo + k THEN b[i - lo]
                         ELSE s[i - lo - k + hi - 1]]
    BY DEF Replaced
<1> HIDE DEF P, Q, D, n, T
<1>h. held \subseteq BlockIds
    BY DEF TypeOK
<1>t. t \in [1..n -> BlockIds]
    <2>1. ASSUME NEW i \in 1..n PROVE t[i] \in BlockIds
        <3>1. CASE i <= lo
            <4>1. i \in 1..num /\ t[i] = s[i]
                BY <3>1, <1>n, <1>e
            <4> QED BY <4>1
        <3>2. CASE i > lo /\ i <= lo + k
            <4>1. i - lo \in 1..k /\ t[i] = b[i - lo]
                BY <3>2, <1>n, <1>e
            <4> QED BY <4>1, <1>h, <1>k
        <3>3. CASE i > lo + k
            <4>1. i - lo - k + hi - 1 \in 1..num /\ t[i] = s[i - lo - k + hi - 1]
                BY <3>3, <1>n, <1>e
            <4> QED BY <4>1
        <3> QED BY <3>1, <3>2, <3>3, <1>n
    <2> QED BY <2>1, <1>e
<1>T. /\ \A i \in 0..lo : T[i] = P[i]
      /\ \A i \in lo + 1 .. lo + k : T[i] = b[i - lo]
      /\ \A i \in lo + k + 1 .. n + 1 : T[i] = P[i - lo - k + hi - 1]
    <2>1. ASSUME NEW i \in 0..lo PROVE T[i] = P[i]
        <3>1. CASE i = 0
            BY <3>1, FullFacts, <1>n DEF P, T, Path
        <3>2. CASE i # 0
            <4>1. i \in 1..n /\ i \in 1..num /\ i \in 0..n + 1
                BY <3>2, <1>n
            <4>2. T[i] = t[i]
                BY <4>1, <1>n DEF T, Path
            <4>3. t[i] = s[i]
                BY <4>1, <1>n, <1>e
            <4> QED BY <4>1, <4>2, <4>3, FullFacts DEF P
        <3> QED BY <3>1, <3>2
    <2>2. ASSUME NEW i \in lo + 1 .. lo + k PROVE T[i] = b[i - lo]
        <3>1. i \in 1..n /\ i \in 0..n + 1
            BY <1>n
        <3>2. T[i] = t[i]
            BY <3>1, <1>n DEF T, Path
        <3> QED BY <3>1, <3>2, <1>n, <1>e
    <2>3. ASSUME NEW i \in lo + k + 1 .. n + 1 PROVE T[i] = P[i - lo - k + hi - 1]
        <3>1. CASE i = n + 1
            <4>1. i - lo - k + hi - 1 = num + 1
                BY <3>1, <1>n
            <4>2. T[i] = Tail
                BY <3>1, <1>n DEF T, Path
            <4> QED BY <4>1, <4>2, FullFacts DEF P
        <3>2. CASE i # n + 1
            <4>1. i \in 1..n /\ i \in 0..n + 1 /\ i - lo - k + hi - 1 \in 1..num
                BY <3>2, <1>n
            <4>2. T[i] = t[i]
                BY <4>1, <1>n DEF T, Path
            <4>3. t[i] = s[i - lo - k + hi - 1]
                BY <4>1, <1>n, <1>e
            <4> QED BY <4>1, <4>2, <4>3, FullFacts DEF P
        <3> QED BY <3>1, <3>2
    <2> QED BY <2>1, <2>2, <2>3
<1>P. /\ \A i \in 0..num + 1 : P[i] \in Nodes /\ P[i] \notin held
      /\ \A i, j \in 0..num + 1 : P[i] = P[j] => i = j
      /\ \A i \in 1..num : P[i] = s[i]
      /\ P[0] = Head /\ P[num + 1] = Tail
    BY FullFacts DEF P
<1>Q. /\ Q[0] = P[lo] /\ Q[k + 1] = P[hi]
      /\ \A i \in 1..k : Q[i] = b[i] /\ Q[i] \in held
    BY <1>k DEF Q, Path
<1>0. \A i \in 0..k + 1 : i = 0 \/ i = k + 1 \/ i \in 1..k
    OBVIOUS
<1>Qd. \A i, j \in 0..k + 1 : Q[i] = Q[j] => i = j
    <2>1. P[lo] # P[hi] /\ P[lo] \notin held /\ P[hi] \notin held
        BY <1>P
    <2> QED BY <1>0, <1>Q, <1>k, <2>1
<1>D. /\ \A i \in lo + 1 .. hi - 1 : P[i] \in D
      /\ \A i \in 0..lo : P[i] \notin D
      /\ \A i \in hi .. num + 1 : P[i] \notin D
      /\ D \cap held = {} /\ D \subseteq BlockIds
    <2>1. \A i \in lo + 1 .. hi - 1 : i \in 1..num /\ P[i] = s[i]
        BY <1>P
    <2>2. \A x : x \in D <=> \E i \in lo + 1 .. hi - 1 : x = P[i]
        BY <2>1 DEF D, Gone
    <2>3. \A i \in lo + 1 .. hi - 1 : P[i] \in D
        BY <2>2
    <2>4. ASSUME NEW i \in 0..num + 1, P[i] \in D
          PROVE  i \in lo + 1 .. hi - 1
        <3>1. PICK j \in lo + 1 .. hi - 1 : P[i] = P[j]
            BY <2>2, <2>4
        <3>2. j \in 0..num + 1
            BY <2>1
        <3> QED BY <3>1, <3>2, <1>P
    <2>5. (\A i \in 0..lo : P[i] \notin D) /\ (\A i \in hi .. num + 1 : P[i] \notin D)
        BY <2>4
    <2>6. D \cap held = {}
        BY <2>1, <2>2, <1>P
    <2>7. D \subseteq BlockIds
        BY <2>1 DEF D, Gone
    <2> QED BY <2>3, <2>5, <2>6, <2>7
<1>N. \A x \in Nodes : /\ x \in D => next'[x] = None /\ prev'[x] = None
                       /\ x \notin D => /\ next'[x] = After(Q, k, next, x)
                                       /\ prev'[x] = Before(Q, k, prev, x)
    BY DEF SpliceStep, Relink, P, Q, D
<1>a. \A x \in Nodes : (\A i \in 0..k : Q[i] # x) /\ x \notin D => next'[x] = next[x]
    BY <1>N DEF After
<1>b. \A x \in Nodes : (\A i \in 0..k + 1 : Q[i] # x) /\ x \notin D
                         => next'[x] = next[x] /\ prev'[x] = prev[x]
    BY <1>N DEF After, Before
<1>A. \A u \in 0..k : After(Q, k, next, Q[u]) = Q[u + 1]
    <2> TAKE u \in 0..k
    <2> DEFINE j == CHOOSE j \in 0..k : Q[j] = Q[u]
    <2>1. j \in 0..k /\ Q[j] = Q[u]
        OBVIOUS
    <2>2. j = u
        BY <2>1, <1>Qd
    <2> QED BY <2>2 DEF After
<1>B. \A u \in 0..k : Before(Q, k, prev, Q[u + 1]) = Q[u]
    <2> TAKE u \in 0..k
    <2> DEFINE j == CHOOSE j \in 0..k : Q[j + 1] = Q[u + 1]
    <2>1. j \in 0..k /\ Q[j + 1] = Q[u + 1]
        OBVIOUS
    <2>2. j + 1 = u + 1
        <3>1. j + 1 \in 0..k + 1 /\ u + 1 \in 0..k + 1
            BY <2>1
        <3> QED BY <2>1, <3>1, <1>Qd
    <2>3. j = u
        BY <2>1, <2>2
    <2> QED BY <2>3 DEF Before
<1>1. ASSUME NEW i \in 0..n
      PROVE  next'[T[i]] = T[i + 1] /\ prev'[T[i + 1]] = T[i]
    <2>1. CASE i < lo
        <3>1. T[i] = P[i] /\ T[i + 1] = P[i + 1] /\ i \in 0..num
            BY <2>1, <1>T
        <3>2. next'[P[i]] = next[P[i]]
            <4>1. i \in 0..lo /\ i \in 0..num + 1 /\ i # lo
                BY <2>1
            <4>2. P[i] # P[lo] /\ P[i] \notin held /\ P[i] \in Nodes /\ P[i] \notin D
                BY <4>1, <1>P, <1>D
            <4>3. \A m \in 0..k : Q[m] # P[i]
                BY <4>2, <1>Q, <1>0
            <4> QED BY <4>2, <4>3, <1>a
        <3>3. prev'[P[i + 1]] = prev[P[i + 1]]
            <4>1. i + 1 \in 0..lo /\ i + 1 \in 0..num + 1 /\ i + 1 < hi
                BY <2>1
            <4>2. \A j \in 1..k + 1 : Q[j] # P[i + 1]
                BY <4>1, <1>P, <1>Q, <1>0
            <4>3. \A j \in 0..k : Q[j + 1] # P[i + 1]
                BY <4>2
            <4> QED BY <4>1, <4>3, <1>N, <1>D, <1>P DEF Before
        <3>4. next[P[i]] = P[i + 1] /\ prev[P[i + 1]] = P[i]
            BY <3>1 DEF P, LinkedAs, Full
        <3> QED BY <3>1, <3>2, <3>3, <3>4
    <2>2. CASE i \in lo .. lo + k
        <3>1. i - lo \in 0..k
            BY <2>2
        <3>2. T[i] = Q[i - lo] /\ T[i + 1] = Q[i - lo + 1]
            <4>1. T[i] = Q[i - lo]
                <5>1. CASE i = lo
                    BY <5>1, <1>T, <1>Q
                <5>2. CASE i # lo
                    <6>1. i \in lo + 1 .. lo + k /\ i - lo \in 1..k
                        BY <5>2, <2>2
                    <6> QED BY <6>1, <1>T, <1>Q
                <5> QED BY <5>1, <5>2
            <4>2. T[i + 1] = Q[i - lo + 1]
                <5>1. CASE i = lo + k
                    <6>1. i + 1 \in lo + k + 1 .. n + 1 /\ (i + 1) - lo - k + hi - 1 = hi
                        BY <5>1, <1>n
                    <6> QED BY <5>1, <6>1, <1>T, <1>Q
                <5>2. CASE i # lo + k
                    <6>1. i + 1 \in lo + 1 .. lo + k /\ i + 1 - lo = i - lo + 1 /\ i - lo + 1 \in 1..k
                        BY <5>2, <2>2
                    <6> QED BY <6>1, <1>T, <1>Q
                <5> QED BY <5>1, <5>2
            <4> QED BY <4>1, <4>2
        <3>3. \A j \in 0..k + 1 : Q[j] \in Nodes /\ Q[j] \notin D
            BY <1>0, <1>Q, <1>P, <1>D, <1>h DEF Nodes
        <3> DEFINE m == i - lo
        <3>m. m \in 0..k /\ m \in 0..k + 1 /\ m + 1 \in 0..k + 1
            BY <3>1
        <3>M. T[i] = Q[m] /\ T[i + 1] = Q[m + 1]
            BY <3>2
        <3> HIDE DEF m
        <3>6. next'[Q[m]] = Q[m + 1]
            BY <3>m, <3>3, <1>A, <1>N
        <3>7. prev'[Q[m + 1]] = Q[m]
            BY <3>m, <3>3, <1>B, <1>N
        <3> QED BY <3>M, <3>6, <3>7
    <2>3. CASE i > lo + k
        <3> DEFINE j == i - lo - k + hi - 1
        <3>1. /\ i \in lo + k + 1 .. n + 1 /\ i + 1 \in lo + k + 1 .. n + 1
              /\ (i + 1) - lo - k + hi - 1 = j + 1
              /\ j \in hi .. num /\ j + 1 \in hi + 1 .. num + 1
            BY <2>3, <1>n
        <3>2. T[i] = P[j] /\ T[i + 1] = P[j + 1]
            BY <3>1, <1>T
        <3> HIDE DEF j
        <3>3. next'[P[j]] = next[P[j]]
            <4>1. j \in 0..num + 1 /\ j # lo
                BY <3>1
            <4>2. \A m \in 0..k : Q[m] # P[j]
                <5>1. P[j] # P[lo] /\ P[j] \notin held
                    BY <4>1, <1>P
                <5>2. \A m \in 0..k : m = 0 \/ m \in 1..k
                    OBVIOUS
                <5> QED BY <5>1, <5>2, <1>Q
            <4>3. P[j] \in Nodes /\ P[j] \notin D
                BY <3>1, <4>1, <1>D, <1>P
            <4> QED BY <4>2, <4>3, <1>a
        <3>4. prev'[P[j + 1]] = prev[P[j + 1]]
            <4>1. j + 1 \in 0..num + 1 /\ j + 1 # hi /\ j + 1 # lo /\ j + 1 \in hi .. num + 1
                BY <3>1
            <4>2. \A m \in 0..k + 1 : Q[m] # P[j + 1]
                BY <4>1, <1>P, <1>Q, <1>0
            <4> QED BY <4>1, <4>2, <1>b, <1>D, <1>P
        <3>5. next[P[j]] = P[j + 1] /\ prev[P[j + 1]] = P[j]
            <4>1. j \in 0..num
                BY <3>1
            <4> QED BY <4>1 DEF P, LinkedAs, Full
        <3> QED BY <3>2, <3>3, <3>4, <3>5
    <2> QED BY <2>1, <2>2, <2>3, <1>n
<1>2. ASSUME NEW i \in 1..n, NEW j \in 1..n, t[i] = t[j]
      PROVE  i = j
    <2> DEFINE f(m) == IF m <= lo THEN m ELSE m - lo - k + hi - 1
    <2>1. ASSUME NEW m \in 1..n
          PROVE  t[m] = T[m]
        BY <1>n, <1>t DEF T, Path
    <2>2. ASSUME NEW m \in 1..n
          PROVE  \/ /\ m \in lo + 1 .. lo + k
                    /\ m - lo \in 1..k /\ T[m] = b[m - lo] /\ T[m] \in held
                 \/ /\ m \notin lo + 1 .. lo + k
                    /\ f(m) \in 1..num /\ T[m] = P[f(m)] /\ T[m] \notin held
        <3>1. CASE m <= lo
            BY <3>1, <1>T, <1>P
        <3>2. CASE m \in lo + 1 .. lo + k
            BY <3>2, <1>T, <1>k
        <3>3. CASE m > lo + k
            <4>1. m \in lo + k + 1 .. n + 1 /\ m - lo - k + hi - 1 \in 1..num
                BY <3>3, <1>n
            <4>2. T[m] = P[m - lo - k + hi - 1]
                BY <4>1, <1>T
            <4> QED BY <3>3, <4>1, <4>2, <1>P
        <3> QED BY <3>1, <3>2, <3>3, <1>n
    <2>3. CASE t[i] \in held
        <3>1. i \in lo + 1 .. lo + k /\ j \in lo + 1 .. lo + k /\ b[i - lo] = b[j - lo]
            BY <2>1, <2>2, <2>3, <1>2
        <3>2. i - lo = j - lo
            <4>1. i - lo \in 1..k /\ j - lo \in 1..k
                BY <3>1
            <4> QED BY <3>1, <4>1, <1>k
        <3> QED BY <3>2
    <2>4. CASE t[i] \notin held
        <3>1. /\ f(i) \in 1..num /\ f(j) \in 1..num /\ P[f(i)] = P[f(j)]
              /\ i \notin lo + 1 .. lo + k /\ j \notin lo + 1 .. lo + k
            BY <2>1, <2>2, <2>4, <1>2
        <3>2. f(i) = f(j)
            BY <3>1, <1>P
        <3> QED BY <3>1, <3>2, <1>n
    <2> QED BY <2>3, <2>4
<1>3. held' = {x \in BlockIds : \A i \in 1..n : t[i] # x}
    <2>H. /\ held = {x \in BlockIds : \A i \in 1..num : s[i] # x}
          /\ held' = (held \cup D) \ {b[i] : i \in 1..k}
        BY DEF LinkedAs, SpliceStep, D
    <2>I. \A i \in 1..n : t[i] = T[i]
        BY <1>n, <1>t DEF T, Path
    <2>1. ASSUME NEW x \in held', NEW i \in 1..n PROVE t[i] # x
        <3>1. x \in held \/ x \in D
            BY <2>H
        <3>2. CASE i \in lo + 1 .. lo + k
            <4>1. i - lo \in 1..k /\ t[i] = b[i - lo]
                BY <3>2, <2>I, <1>T
            <4> QED BY <4>1, <2>H
        <3>3. CASE i <= lo
            <4>1. t[i] = P[i] /\ i \in 0..lo /\ i \in 0..num + 1
                BY <3>3, <2>I, <1>T
            <4> QED BY <3>1, <4>1, <1>P, <1>D
        <3>4. CASE i > lo + k
            <4>1. i \in lo + k + 1 .. n + 1 /\ i - lo - k + hi - 1 \in hi .. num + 1
                BY <3>4, <1>n
            <4>2. t[i] = P[i - lo - k + hi - 1]
                BY <4>1, <2>I, <1>T
            <4> QED BY <3>1, <4>1, <4>2, <1>P, <1>D
        <3> QED BY <3>2, <3>3, <3>4, <1>n
    <2>2. ASSUME NEW x \in BlockIds, x \notin held' PROVE \E i \in 1..n : t[i] = x
        <3>1. CASE \E j \in 1..k : b[j] = x
            <4>1. PICK j \in 1..k : b[j] = x
                BY <3>1
            <4>2. lo + j \in lo + 1 .. lo + k /\ lo + j \in 1..n /\ lo + j - lo = j
                BY <1>n
            <4> QED BY <4>1, <4>2, <2>I, <1>T
        <3>2. CASE ~ \E j \in 1..k : b[j] = x
            <4>1. x \notin held /\ x \notin D
                BY <3>2, <2>2, <2>H
            <4>2. PICK j \in 1..num : s[j] = x
                BY <4>1, <2>H
            <4>3. P[j] = x
                BY <4>2, <1>P
            <4>4. j \notin lo + 1 .. hi - 1
                BY <4>1, <4>3, <1>D
            <4>5. CASE j <= lo
                <5>1. j \in 0..lo /\ j \in 1..n
                    BY <4>5, <1>n
                <5> QED BY <5>1, <4>3, <2>I, <1>T
            <4>6. CASE j >= hi
                <5>1. /\ j + lo + k - hi + 1 \in lo + k + 1 .. n + 1
                      /\ j + lo + k - hi + 1 \in 1..n
                      /\ (j + lo + k - hi + 1) - lo - k + hi - 1 = j
                    BY <4>6, <1>n
                <5> QED BY <5>1, <4>3, <2>I, <1>T
            <4> QED BY <4>4, <4>5, <4>6
        <3> QED BY <3>1, <3>2
    <2>3. held' \subseteq BlockIds
        BY <2>H, <1>h, <1>D
    <2> QED BY <2>1, <2>2, <2>3
<1>4. \A x \in held' : next'[x] = None /\ prev'[x] = None
    <2>1. ASSUME NEW x \in held' PROVE next'[x] = None /\ prev'[x] = None
        <3>1. x \in Nodes /\ (x \in D \/ (x \in held /\ \A j \in 1..k : b[j] # x))
            BY <1>h, <1>D DEF SpliceStep, D, Nodes
        <3>2. CASE x \in D
            BY <3>1, <3>2, <1>N
        <3>3. CASE x \notin D
            <4>1. \A i \in 0..k + 1 : Q[i] # x
                BY <3>1, <3>3, <1>Q, <1>P, <1>0
            <4>2. next[x] = None /\ prev[x] = None
                BY <3>1, <3>3 DEF LinkedAs
            <4> QED BY <3>1, <3>3, <4>1, <4>2, <1>b
        <3> QED BY <3>2, <3>3
    <2> QED BY <2>1
<1>5. next'[Tail] = None /\ prev'[Head] = None
    <2>0. next[Tail] = None /\ prev[Head] = None
        BY DEF LinkedAs
    <2>1. Tail \in Nodes /\ Head \in Nodes /\ Tail \notin D /\ Head \notin D
        BY <1>D, NodesAssumption DEF Nodes
    <2>2. \A i \in 0..k : Q[i] # Tail
        <3>1. lo # num + 1 /\ lo \in 0..num + 1 /\ num + 1 \in 0..num + 1
            OBVIOUS
        <3>2. P[lo] # Tail /\ Tail \notin held
            BY <3>1, <1>P
        <3>3. \A i \in 0..k : i = 0 \/ i \in 1..k
            OBVIOUS
        <3> QED BY <3>2, <3>3, <1>Q
    <2>3. \A i \in 0..k : Q[i + 1] # Head
        <3>1. hi # 0 /\ hi \in 0..num + 1 /\ 0 \in 0..num + 1
            OBVIOUS
        <3>2. P[hi] # Head /\ Head \notin held
            BY <3>1, <1>P
        <3>3. \A i \in 0..k : i + 1 = k + 1 \/ i + 1 \in 1..k
            OBVIOUS
        <3> QED BY <3>2, <3>3, <1>Q
    <2>4. next'[Tail] = next[Tail]
        BY <2>1, <2>2, <1>N DEF After
    <2>5. prev'[Head] = prev[Head]
        BY <2>1, <2>3, <1>N DEF Before
    <2> QED BY <2>0, <2>4, <2>5
<1> QED BY <1>n, <1>t, <1>1, <1>2, <1>3, <1>4, <1>5 DEF LinkedAs, T, n

(***************************************************************************)
(* Each operation is such a replacement                                    *)
(***************************************************************************)

\* A path without blocks between its ends does not depend on them.
LEMMA NoBlocks ==
    ASSUME NEW a, NEW z, NEW b
    PROVE  Path(a, <<>>, 0, z) = Path(a, b, 0, z)
BY DEF Path

Nothing == [i \in 1..0 |-> None]

\* A step that takes blocks lo + 1 .. hi - 1 out and puts nothing in.
LEMMA TakingOut ==
    ASSUME num \in Nat, NEW s, NEW lo \in 0..num, NEW hi \in lo + 1 .. num + 1,
           Relink(Path(Full(s)[lo], <<>>, 0, Full(s)[hi]), 0, Gone(s, lo, hi)),
           num' = num - (hi - lo - 1),
           held' = held \cup Gone(s, lo, hi)
    PROVE  SpliceStep(s, lo, hi, 0, Nothing)
<1>1. Nothing \in [1..0 -> held] /\ \A i, j \in 1..0 : i = j
    BY DEF Nothing
<1>2. {Nothing[i] : i \in 1..0} = {}
    OBVIOUS
<1>3. Path(Full(s)[lo], <<>>, 0, Full(s)[hi]) = Path(Full(s)[lo], Nothing, 0, Full(s)[hi])
    BY NoBlocks
<1>4. num' = num - (hi - lo - 1) + 0
    OBVIOUS
<1>5. Relink(Path(Full(s)[lo], Nothing, 0, Full(s)[hi]), 0, Gone(s, lo, hi))
    BY <1>3
<1> QED BY <1>1, <1>2, <1>4, <1>5 DEF SpliceStep

LEMMA PopleftTakes ==
    ASSUME num \in Nat, NEW s \in [1..num -> BlockIds], LinkedAs(s), popleft
    PROVE  num >= 1 /\ SpliceStep(s, 0, 2, 0, Nothing)
<1>1. next[Head] = Full(s)[1] /\ Full(s)[0] = Head
    <2>1. 0 \in 0..num
        OBVIOUS
    <2> QED BY <2>1, FullFacts DEF LinkedAs, Full
<1>2. num >= 1
    <2>1. CASE num = 0
        <3>1. Full(s)[num + 1] = Tail
            BY FullFacts
        <3>2. num + 1 = 1
            BY <2>1
        <3> QED BY <1>1, <3>1, <3>2 DEF popleft
    <2> QED BY <2>1
<1>3. Full(s)[1] = s[1] /\ next[s[1]] = Full(s)[2]
    <2>1. 1 \in 0..num /\ 1 \in 1..num
        BY <1>2
    <2> QED BY <2>1, FullFacts DEF LinkedAs, Full
<1>4. Gone(s, 0, 2) = {s[1]}
    BY DEF Gone
<1>5. /\ Relink(Path(Full(s)[0], <<>>, 0, Full(s)[2]), 0, Gone(s, 0, 2))
      /\ num' = num - 1
      /\ held' = held \cup Gone(s, 0, 2)
    BY <1>1, <1>3, <1>4 DEF popleft
<1>6. num' = num - (2 - 0 - 1) /\ 0 \in 0..num /\ 2 \in 0 + 1 .. num + 1
    BY <1>2, <1>5
<1> QED BY <1>2, <1>5, <1>6, TakingOut

\* Following the links from the head finds the list in its order.
LEMMA FollowsLinks ==
    ASSUME num \in Nat, NEW s \in [1..num -> BlockIds], LinkedAs(s),
           NEW n \in 1..num, NEW ret, FirstBlocks(n, ret)
    PROVE  \A i \in 1..n : ret[i] = s[i]
<1> DEFINE S == {i \in Nat : i + 1 \in 1..n => ret[i + 1] = s[i + 1]}
<1>1. \A i \in 0..num : next[Full(s)[i]] = Full(s)[i + 1]
    BY DEF LinkedAs, Full
<1>2. 0 \in S
    <2>1. 0 \in 0..num /\ 0 + 1 \in 1..num
        OBVIOUS
    <2>2. next[Head] = s[1]
        BY <1>1, <2>1, FullFacts
    <2> QED BY <2>2 DEF FirstBlocks
<1>3. \A i \in Nat : i \in S => i + 1 \in S
    <2> SUFFICES ASSUME NEW i \in Nat, i \in S, (i + 1) + 1 \in 1..n
                 PROVE  ret[(i + 1) + 1] = s[(i + 1) + 1]
        OBVIOUS
    <2>1. /\ i + 1 \in 1 .. n - 1 /\ i + 1 \in 1..n /\ i + 1 \in 0..num
          /\ i + 1 \in 1..num /\ (i + 1) + 1 \in 1..num
        OBVIOUS
    <2>2. ret[(i + 1) + 1] = next[ret[i + 1]] /\ ret[i + 1] = s[i + 1]
        BY <2>1 DEF FirstBlocks
    <2>3. next[s[i + 1]] = s[(i + 1) + 1]
        BY <1>1, <2>1, FullFacts
    <2> QED BY <2>2, <2>3
<1> HIDE DEF S
<1>4. Nat \subseteq S
    BY <1>2, <1>3, SetInduction
<1>5. ASSUME NEW i \in 1..n PROVE ret[i] = s[i]
    <2>1. i - 1 \in Nat /\ (i - 1) + 1 = i
        OBVIOUS
    <2> QED BY <1>4, <2>1 DEF S
<1> QED BY <1>5

LEMMA PopleftNTakes ==
    ASSUME num \in Nat, NEW s \in [1..num -> BlockIds], LinkedAs(s),
           NEW n \in 1..NumBlocks, popleft_n(n)
    PROVE  n \in 1..num /\ SpliceStep(s, 0, n + 1, 0, Nothing)
<1>1. n \in 1..num
    BY NumAssumption DEF popleft_n
<1>2. PICK ret \in [1..n -> Nodes] :
          /\ FirstBlocks(n, ret)
          /\ Relink(Path(Head, <<>>, 0, next[ret[n]]), 0, {ret[i] : i \in 1..n})
          /\ num' = num - n
          /\ held' = held \cup {ret[i] : i \in 1..n}
    BY DEF popleft_n
<1>3. \A i \in 1..n : ret[i] = s[i]
    BY <1>1, <1>2, FollowsLinks
<1>4. Gone(s, 0, n + 1) = {ret[i] : i \in 1..n}
    <2>1. 0 + 1 = 1 /\ n + 1 - 1 = n
        BY <1>1
    <2>2. Gone(s, 0, n + 1) = {s[i] : i \in 1..n}
        BY <2>1 DEF Gone
    <2> QED BY <1>3, <2>2
<1>5. next[ret[n]] = Full(s)[n + 1] /\ Full(s)[0] = Head
    <2>1. n \in 1..n /\ n \in 0..num
        BY <1>1
    <2>2. ret[n] = Full(s)[n]
        BY <1>1, <1>3, <2>1, FullFacts
    <2> QED BY <2>1, <2>2, FullFacts DEF LinkedAs, Full
<1>6. /\ Relink(Path(Full(s)[0], <<>>, 0, Full(s)[n + 1]), 0, Gone(s, 0, n + 1))
      /\ held' = held \cup Gone(s, 0, n + 1)
    BY <1>2, <1>4, <1>5
<1>7. num' = num - ((n + 1) - 0 - 1) /\ 0 \in 0..num /\ n + 1 \in 0 + 1 .. num + 1
    BY <1>1, <1>2
<1> QED BY <1>1, <1>6, <1>7, TakingOut

LEMMA RemoveTakes ==
    ASSUME num \in Nat, NEW s \in [1..num -> BlockIds], LinkedAs(s),
           NEW block \in BlockIds, remove(block)
    PROVE  \E i \in 1..num : s[i] = block /\ SpliceStep(s, i - 1, i + 1, 0, Nothing)
<1>1. PICK i \in 1..num : s[i] = block
    <2>1. block \notin held
        BY DEF LinkedAs, remove
    <2> QED BY <2>1 DEF LinkedAs
<1>2. prev[block] = Full(s)[i - 1] /\ next[block] = Full(s)[i + 1]
    <2>1. i - 1 \in 0..num /\ i \in 0..num /\ (i - 1) + 1 = i
        OBVIOUS
    <2>2. Full(s)[i] = block
        BY <1>1, FullFacts
    <2> QED BY <2>1, <2>2 DEF LinkedAs, Full
<1>3. Gone(s, i - 1, i + 1) = {block}
    <2>1. (i - 1) + 1 = i /\ (i + 1) - 1 = i
        OBVIOUS
    <2>2. \A j \in i..i : j = i
        OBVIOUS
    <2> QED BY <1>1, <2>1, <2>2 DEF Gone
<1>4. /\ Relink(Path(Full(s)[i - 1], <<>>, 0, Full(s)[i + 1]), 0, Gone(s, i - 1, i + 1))
      /\ held' = held \cup Gone(s, i - 1, i + 1)
      /\ num' = num - 1
    BY <1>2, <1>3 DEF remove
<1>5. /\ num' = num - ((i + 1) - (i - 1) - 1)
      /\ i - 1 \in 0..num /\ i + 1 \in (i - 1) + 1 .. num + 1
    BY <1>4
<1>6. SpliceStep(s, i - 1, i + 1, 0, Nothing)
    BY <1>4, <1>5, TakingOut
<1> QED BY <1>1, <1>6

\* A step that puts a batch between two neighbours of the list.
LEMMA PuttingIn ==
    ASSUME num \in Nat, NEW s, NEW lo \in 0..num, NEW k \in Nat, NEW b \in Batch(k),
           Relink(Path(Full(s)[lo], b, k, Full(s)[lo + 1]), k, {}),
           num' = num + k,
           held' = held \ {b[i] : i \in 1..k}
    PROVE  SpliceStep(s, lo, lo + 1, k, b)
<1>1. Gone(s, lo, lo + 1) = {}
    <2>1. (lo + 1) - 1 = lo /\ \A i \in lo + 1 .. lo : FALSE
        OBVIOUS
    <2> QED BY <2>1 DEF Gone
<1>2. num' = num - ((lo + 1) - lo - 1) + k
    OBVIOUS
<1>3. held' = (held \cup Gone(s, lo, lo + 1)) \ {b[i] : i \in 1..k}
    BY <1>1
<1>4. b \in [1..k -> held] /\ \A i, j \in 1..k : b[i] = b[j] => i = j
    BY DEF Batch
<1> QED BY <1>1, <1>2, <1>3, <1>4 DEF SpliceStep

\* The last element of the list is linked from the fake tail, the first one
\* from the fake head.
LEMMA Ends ==
    ASSUME num \in Nat, NEW s \in [1..num -> BlockIds], LinkedAs(s)
    PROVE  /\ prev[Tail] = Full(s)[num] /\ Full(s)[num + 1] = Tail
           /\ next[Head] = Full(s)[0 + 1] /\ Full(s)[0] = Head
<1>1. num \in 0..num /\ 0 \in 0..num
    OBVIOUS
<1> QED BY <1>1, FullFacts DEF LinkedAs, Full

LEMMA AppendPuts ==
    ASSUME num \in Nat, NEW s \in [1..num -> BlockIds], LinkedAs(s),
           NEW block \in held, append(block)
    PROVE  <<block>> \in Batch(1) /\ SpliceStep(s, num, num + 1, 1, <<block>>)
<1>1. <<block>> \in Batch(1)
    BY DEF Batch
<1>2. {<<block>>[i] : i \in 1..1} = {block}
    OBVIOUS
<1>3. /\ Relink(Path(Full(s)[num], <<block>>, 1, Full(s)[num + 1]), 1, {})
      /\ num' = num + 1
      /\ held' = held \ {<<block>>[i] : i \in 1..1}
    BY <1>2, Ends DEF append
<1> QED BY <1>1, <1>3, PuttingIn

LEMMA PrependNPuts ==
    ASSUME num \in Nat, NEW s \in [1..num -> BlockIds], LinkedAs(s),
           NEW k \in Nat, NEW b \in Batch(k), prepend_n(k, b)
    PROVE  SpliceStep(s, 0, 0 + 1, k, b)
<1>1. /\ Relink(Path(Full(s)[0], b, k, Full(s)[0 + 1]), k, {})
      /\ num' = num + k
      /\ held' = held \ {b[i] : i \in 1..k}
    BY Ends DEF prepend_n
<1> QED BY <1>1, PuttingIn

LEMMA AppendNPuts ==
    ASSUME num \in Nat, NEW s \in [1..num -> BlockIds], LinkedAs(s),
           NEW k \in Nat, NEW b \in Batch(k), append_n(k, b)
    PROVE  SpliceStep(s, num, num + 1, k, b)
<1>1. /\ Relink(Path(Full(s)[num], b, k, Full(s)[num + 1]), k, {})
      /\ num' = num + k
      /\ held' = held \ {b[i] : i \in 1..k}
    BY Ends DEF append_n
<1> QED BY <1>1, PuttingIn

(***************************************************************************)
(* The invariant                                                           *)
(***************************************************************************)

\* The links are those of some list, and are there for the blocks and the
\* fakes only.
Functions ==
    /\ next = [x \in Nodes |-> next[x]]
    /\ prev = [x \in Nodes |-> prev[x]]

\* The type of the links follows from the list they encode.
LEMMA Typed ==
    (num \in Nat /\ WellLinked /\ Functions)
    => /\ next \in [Nodes -> Nodes \cup {None}]
       /\ prev \in [Nodes -> Nodes \cup {None}]
       /\ held \subseteq BlockIds
<1> SUFFICES ASSUME num \in Nat, Functions,
                    NEW s \in [1..num -> BlockIds], LinkedAs(s)
             PROVE  /\ next \in [Nodes -> Nodes \cup {None}]
                    /\ prev \in [Nodes -> Nodes \cup {None}]
                    /\ held \subseteq BlockIds
    BY DEF WellLinked
<1>2. held \subseteq BlockIds
    BY DEF LinkedAs
<1>3. ASSUME NEW x \in Nodes
      PROVE  next[x] \in Nodes \cup {None} /\ prev[x] \in Nodes \cup {None}
    <2>1. \A i \in 0..num : next[Full(s)[i]] = Full(s)[i + 1] /\ prev[Full(s)[i + 1]] = Full(s)[i]
        BY DEF LinkedAs, Full
    <2>2. CASE x \in held
        BY <2>2 DEF LinkedAs
    <2>3. CASE x \notin held
        <3>1. PICK i \in 0..num + 1 : x = Full(s)[i]
            <4>1. CASE x \in BlockIds
                <5>1. PICK j \in 1..num : s[j] = x
                    BY <4>1, <2>3 DEF LinkedAs
                <5>2. j \in 0..num + 1
                    OBVIOUS
                <5> QED BY <5>1, <5>2, FullFacts
            <4>2. CASE x = Head
                <5>1. 0 \in 0..num + 1
                    OBVIOUS
                <5> QED BY <5>1, <4>2, FullFacts
            <4>3. CASE x = Tail
                <5>1. num + 1 \in 0..num + 1
                    OBVIOUS
                <5> QED BY <5>1, <4>3, FullFacts
            <4> QED BY <4>1, <4>2, <4>3 DEF Nodes
        <3>2. next[x] \in Nodes \cup {None}
            <4>1. CASE i = num + 1
                BY <3>1, <4>1, FullFacts DEF LinkedAs
            <4>2. CASE i # num + 1
                <5>1. i \in 0..num /\ i + 1 \in 0..num + 1
                    BY <4>2
                <5> QED BY <3>1, <5>1, <2>1, FullFacts
            <4> QED BY <4>1, <4>2
        <3>3. prev[x] \in Nodes \cup {None}
            <4>1. CASE i = 0
                BY <3>1, <4>1, FullFacts DEF LinkedAs
            <4>2. CASE i # 0
                <5>1. i - 1 \in 0..num /\ i - 1 \in 0..num + 1 /\ (i - 1) + 1 = i
                    BY <4>2
                <5> QED BY <3>1, <5>1, <2>1, FullFacts
            <4> QED BY <4>1, <4>2
        <3> QED BY <3>2, <3>3
    <2> QED BY <2>2, <2>3
<1> QED BY <1>2, <1>3 DEF Functions

\* A link never leads back to the fake head, and from the list only to a free
\* block or to the fake tail.
LEMMA NextIsFree ==
    ASSUME num \in Nat, NEW s \in [1..num -> BlockIds], LinkedAs(s),
           NEW x \in BlockIds \cup {Head}
    PROVE  Yield(next[x]) \in (BlockIds \ held) \cup {None}
<1>1. \A i \in 0..num : next[Full(s)[i]] = Full(s)[i + 1]
    BY DEF LinkedAs, Full
<1>2. CASE x \in held
    BY <1>2 DEF LinkedAs, Yield
<1>3. CASE x \notin held
    <2>1. PICK i \in 0..num : x = Full(s)[i]
        <3>1. CASE x \in BlockIds
            <4>1. PICK j \in 1..num : s[j] = x
                BY <3>1, <1>3 DEF LinkedAs
            <4>2. j \in 0..num
                OBVIOUS
            <4> QED BY <4>1, <4>2, FullFacts
        <3>2. CASE x = Head
            <4>1. 0 \in 0..num
                OBVIOUS
            <4> QED BY <4>1, <3>2, FullFacts
        <3> QED BY <3>1, <3>2
    <2>2. next[x] = Full(s)[i + 1]
        BY <1>1, <2>1
    <2>3. CASE i = num
        BY <2>2, <2>3, FullFacts DEF Yield
    <2>4. CASE i # num
        <3>1. i + 1 \in 1..num
            BY <2>4
        <3>2. next[x] = s[i + 1]
            BY <2>2, <3>1, FullFacts
        <3>3. s[i + 1] \in BlockIds /\ s[i + 1] \notin held
            BY <3>1 DEF LinkedAs
        <3> QED BY <3>2, <3>3 DEF Yield
    <2> QED BY <2>3, <2>4
<1> QED BY <1>2, <1>3

IInv == TypeOK /\ WellLinked

\* The steps that change the list, and how they change it: the first blocks
\* are taken, one is taken from anywhere, a batch comes back at either end.
TakesFirst(s)  == \E n \in 1..num : SpliceStep(s, 0, n + 1, 0, Nothing)
TakesOut(s)    == \E i \in 1..num : SpliceStep(s, i - 1, i + 1, 0, Nothing)
PutsBack(s)    == \E k \in Nat \ {0} : \E b \in Batch(k) : SpliceStep(s, num, num + 1, k, b)
PutsInFront(s) == \E k \in Nat \ {0} : \E b \in Batch(k) : SpliceStep(s, 0, 0 + 1, k, b)

ListStep(s) == TakesFirst(s) \/ TakesOut(s) \/ PutsBack(s) \/ PutsInFront(s)

LEMMA NothingIsBatch == Nothing \in Batch(0)
BY DEF Nothing, Batch

LEMMA ListStepSplices ==
    ASSUME num \in Nat, NEW s, ListStep(s)
    PROVE  \E lo \in 0..num, k \in Nat : \E hi \in lo + 1 .. num + 1, b \in Batch(k) :
               SpliceStep(s, lo, hi, k, b)
<1>1. CASE TakesFirst(s)
    <2>1. PICK n \in 1..num : SpliceStep(s, 0, n + 1, 0, Nothing)
        BY <1>1 DEF TakesFirst
    <2>2. 0 \in 0..num /\ 0 \in Nat /\ n + 1 \in 0 + 1 .. num + 1
        OBVIOUS
    <2> QED BY <2>1, <2>2, NothingIsBatch
<1>2. CASE TakesOut(s)
    <2>1. PICK i \in 1..num : SpliceStep(s, i - 1, i + 1, 0, Nothing)
        BY <1>2 DEF TakesOut
    <2>2. i - 1 \in 0..num /\ 0 \in Nat /\ i + 1 \in (i - 1) + 1 .. num + 1
        OBVIOUS
    <2> QED BY <2>1, <2>2, NothingIsBatch
<1>3. CASE PutsBack(s)
    <2>1. num \in 0..num /\ num + 1 \in num + 1 .. num + 1
        OBVIOUS
    <2> QED BY <1>3, <2>1 DEF PutsBack
<1>4. CASE PutsInFront(s)
    <2>1. 0 \in 0..num /\ 0 + 1 \in 0 + 1 .. num + 1
        OBVIOUS
    <2> QED BY <1>4, <2>1 DEF PutsInFront
<1> QED BY <1>1, <1>2, <1>3, <1>4 DEF ListStep

LEMMA Initially == Init => IInv
<1> SUFFICES ASSUME Init PROVE IInv
    OBVIOUS
<1> DEFINE s == [i \in 1..NumBlocks |-> i - 1]
           P == Path(Head, s, NumBlocks, Tail)
<1>1. num = NumBlocks /\ num \in Nat /\ held = {} /\ curr = None
    BY NumAssumption DEF Init
<1>2. s \in [1..num -> BlockIds]
    BY <1>1 DEF BlockIds
<1>3. /\ P[0] = Head /\ P[num + 1] = Tail
      /\ \A i \in 1..num : P[i] = i - 1
    <2>1. P = Path(Head, s, num, Tail)
        BY <1>1
    <2>2. ASSUME NEW i \in 1..num PROVE P[i] = i - 1
        <3>1. i \in 0..num + 1 /\ i # 0 /\ i # num + 1
            BY <1>1
        <3>2. s[i] = i - 1
            BY <1>1
        <3> HIDE DEF s, P
        <3>3. P[i] = s[i]
            BY <2>1, <3>1 DEF Path
        <3> QED BY <3>2, <3>3
    <2>3. 0 \in 0..num + 1 /\ num + 1 \in 0..num + 1 /\ num + 1 # 0
        BY <1>1
    <2> HIDE DEF s, P
    <2>4. P[0] = Head /\ P[num + 1] = Tail
        BY <2>1, <2>3 DEF Path
    <2> QED BY <2>2, <2>4
<1>4. next = [x \in Nodes |-> After(P, num, Unlinked, x)]
      /\ prev = [x \in Nodes |-> Before(P, num, Unlinked, x)]
    BY <1>1 DEF Init
<1>p. P = Path(Head, s, num, Tail)
    BY <1>1
<1>s. \A i \in 1..num : s[i] = i - 1
    BY <1>1
<1> HIDE DEF s, P
<1>5. \A i \in 0..num + 1 : /\ P[i] \in Nodes
                            /\ i = 0 \/ i = num + 1 \/ (i \in 1..num /\ P[i] = i - 1 /\ P[i] \in BlockIds)
    <2>1. ASSUME NEW i \in 1..num PROVE P[i] = i - 1 /\ P[i] \in BlockIds
        BY <1>1, <1>3 DEF BlockIds
    <2>2. \A i \in 0..num + 1 : i = 0 \/ i = num + 1 \/ i \in 1..num
        BY <1>1
    <2> QED BY <1>3, <2>1, <2>2 DEF Nodes
<1>6. \A i, j \in 0..num + 1 : P[i] = P[j] => i = j
    BY <1>1, <1>3, <1>5, NodesAssumption
<1>7. \A i \in 0..num : next[P[i]] = P[i + 1]
    <2> TAKE i \in 0..num
    <2> DEFINE j == CHOOSE j \in 0..num : P[j] = P[i]
    <2>1. j \in 0..num /\ P[j] = P[i]
        OBVIOUS
    <2>2. i \in 0..num + 1 /\ j \in 0..num + 1
        BY <1>1, <2>1
    <2>3. j = i
        BY <2>1, <2>2, <1>6
    <2> QED BY <1>4, <1>5, <2>2, <2>3 DEF After
<1>8. \A i \in 0..num : prev[P[i + 1]] = P[i]
    <2> TAKE i \in 0..num
    <2> DEFINE j == CHOOSE j \in 0..num : P[j + 1] = P[i + 1]
    <2>1. j \in 0..num /\ P[j + 1] = P[i + 1]
        OBVIOUS
    <2>2. i + 1 \in 0..num + 1 /\ j + 1 \in 0..num + 1
        BY <1>1, <2>1
    <2>3. j + 1 = i + 1
        BY <2>1, <2>2, <1>6
    <2>4. j = i
        BY <1>1, <2>1, <2>3
    <2> QED BY <1>4, <1>5, <2>2, <2>4 DEF Before
<1>9. next[Tail] = None /\ prev[Head] = None
    <2>1. \A i \in 0..num : P[i] # Tail /\ P[i + 1] # Head
        <3> TAKE i \in 0..num
        <3>1. /\ i \in 0..num + 1 /\ i + 1 \in 0..num + 1 /\ i # num + 1 /\ i + 1 # 0
              /\ 0 \in 0..num + 1 /\ num + 1 \in 0..num + 1
            BY <1>1
        <3> QED BY <1>3, <1>6, <3>1
    <2> QED BY <1>4, <2>1 DEF After, Before, Unlinked, Nodes
<1>10. held = {b \in BlockIds : \A i \in 1..num : s[i] # b}
    <2>1. ASSUME NEW b \in BlockIds PROVE \E i \in 1..num : s[i] = b
        <3>1. b + 1 \in 1..num /\ (b + 1) - 1 = b
            BY <1>1 DEF BlockIds
        <3> QED BY <1>s, <3>1
    <2> QED BY <1>1, <2>1
<1>11. \A i, j \in 1..num : s[i] = s[j] => i = j
    BY <1>1, <1>s
<1>12. LinkedAs(s)
    BY <1>1, <1>p, <1>7, <1>8, <1>9, <1>10, <1>11 DEF LinkedAs
<1>13. WellLinked
    BY <1>2, <1>12 DEF WellLinked
<1>14. Functions
    BY <1>4 DEF Functions
<1> QED BY <1>1, <1>13, <1>14, Typed DEF IInv, TypeOK

LEMMA ListStepKeeps ==
    ASSUME IInv, NEW s \in [1..num -> BlockIds], LinkedAs(s), ListStep(s)
    PROVE  WellLinked' /\ (num \in Nat)' /\ Functions'
<1>1. PICK lo \in 0..num, k \in Nat : \E hi \in lo + 1 .. num + 1, b \in Batch(k) :
          SpliceStep(s, lo, hi, k, b)
    BY ListStepSplices DEF IInv, TypeOK
<1>2. PICK hi \in lo + 1 .. num + 1, b \in Batch(k) : SpliceStep(s, lo, hi, k, b)
    BY <1>1
<1>3. PICK t : t = Replaced(s, lo, hi, k, b, num')
    OBVIOUS
<1>4. TypeOK /\ num \in Nat
    BY DEF IInv, TypeOK
<1>5. num' \in Nat /\ t \in [1..num' -> BlockIds] /\ LinkedAs(t)'
    BY <1>2, <1>3, <1>4, Spliced
<1>6. WellLinked'
    BY <1>5 DEF WellLinked
<1>7. Functions'
    BY <1>2 DEF SpliceStep, Relink, Functions
<1> QED BY <1>5, <1>6, <1>7

\* The operations that change the list, with what they leave to the generator.
ListAction ==
    \/ popleft
    \/ \E block \in BlockIds : remove(block)
    \/ \E block \in held : append(block)
    \/ \E k \in 1..NumBlocks :
          \/ popleft_n(k)
          \/ \E blocks \in Batch(k) : prepend_n(k, blocks) \/ append_n(k, blocks)

LEMMA ActionsAreListSteps ==
    ASSUME num \in Nat, NEW s \in [1..num -> BlockIds], LinkedAs(s), ListAction
    PROVE  ListStep(s) /\ UNCHANGED curr
<1> USE DEF ListStep
<1>1. CASE popleft
    <2>1. num >= 1 /\ SpliceStep(s, 0, 1 + 1, 0, Nothing)
        BY <1>1, PopleftTakes
    <2>2. 1 \in 1..num
        BY <2>1
    <2>3. TakesFirst(s)
        BY <2>1, <2>2 DEF TakesFirst
    <2> QED BY <1>1, <2>3 DEF popleft
<1>2. CASE \E block \in BlockIds : remove(block)
    <2>1. PICK block \in BlockIds : remove(block)
        BY <1>2
    <2>2. TakesOut(s)
        BY <2>1, RemoveTakes DEF TakesOut
    <2> QED BY <2>1, <2>2 DEF remove
<1>3. CASE \E block \in held : append(block)
    <2>1. PICK block \in held : append(block)
        BY <1>3
    <2>2. <<block>> \in Batch(1) /\ SpliceStep(s, num, num + 1, 1, <<block>>)
        BY <2>1, AppendPuts
    <2>3. PutsBack(s)
        BY <2>2 DEF PutsBack
    <2> QED BY <2>1, <2>3 DEF append
<1>4. ASSUME NEW k \in 1..NumBlocks, popleft_n(k)
      PROVE  ListStep(s) /\ UNCHANGED curr
    <2>1. TakesFirst(s)
        BY <1>4, PopleftNTakes DEF TakesFirst
    <2> QED BY <1>4, <2>1 DEF popleft_n
<1>5. ASSUME NEW k \in 1..NumBlocks, NEW b \in Batch(k), prepend_n(k, b)
      PROVE  ListStep(s) /\ UNCHANGED curr
    <2>1. k \in Nat \ {0}
        BY NumAssumption
    <2>2. SpliceStep(s, 0, 0 + 1, k, b)
        BY <1>5, <2>1, PrependNPuts
    <2>3. PutsInFront(s)
        BY <2>1, <2>2 DEF PutsInFront
    <2> QED BY <1>5, <2>3 DEF prepend_n
<1>6. ASSUME NEW k \in 1..NumBlocks, NEW b \in Batch(k), append_n(k, b)
      PROVE  ListStep(s) /\ UNCHANGED curr
    <2>1. k \in Nat \ {0}
        BY NumAssumption
    <2>2. SpliceStep(s, num, num + 1, k, b)
        BY <1>6, <2>1, AppendNPuts
    <2>3. PutsBack(s)
        BY <2>1, <2>2 DEF PutsBack
    <2> QED BY <1>6, <2>3 DEF append_n
<1> QED BY <1>1, <1>2, <1>3, <1>4, <1>5, <1>6 DEF ListAction

\* Looking through the list changes nothing but where the generator is, and it
\* goes to a free block or ends.
LEMMA LooksAtFree ==
    ASSUME num \in Nat, NEW s \in [1..num -> BlockIds], LinkedAs(s),
           curr \in BlockIds \cup {None},
           \/ \E cursor \in BlockIds \cup {None} : iter_blocks_after(cursor)
           \/ iter_next
    PROVE  /\ UNCHANGED <<next, prev, num, held>>
           /\ curr' \in (BlockIds \ held) \cup {None}
<1>1. ASSUME NEW cursor \in BlockIds \cup {None}, iter_blocks_after(cursor)
      PROVE  /\ UNCHANGED <<next, prev, num, held>>
             /\ curr' \in (BlockIds \ held) \cup {None}
    <2>1. (IF cursor = None THEN Head ELSE cursor) \in BlockIds \cup {Head}
        OBVIOUS
    <2>2. Yield(next[IF cursor = None THEN Head ELSE cursor]) \in (BlockIds \ held) \cup {None}
        BY <2>1, NextIsFree
    <2> QED BY <1>1, <2>2 DEF iter_blocks_after, links
<1>2. CASE iter_next
    <2>1. curr \in BlockIds \cup {Head}
        BY <1>2 DEF iter_next
    <2>2. Yield(next[curr]) \in (BlockIds \ held) \cup {None}
        BY <2>1, NextIsFree
    <2> QED BY <1>2, <2>2 DEF iter_next, links
<1> QED BY <1>1, <1>2

LEMMA NextCases ==
    Next => \/ ListAction
            \/ \E cursor \in BlockIds \cup {None} : iter_blocks_after(cursor)
            \/ iter_next
BY DEF Next, ListAction

LEMMA SameLinks ==
    ASSUME NEW s \in [1..num -> BlockIds], LinkedAs(s), UNCHANGED <<next, prev, num, held>>
    PROVE  WellLinked'
<1>1. next' = next /\ prev' = prev /\ num' = num /\ held' = held
    OBVIOUS
<1>2. LinkedAs(s)'
    BY <1>1 DEF LinkedAs
<1>3. s \in [1..num' -> BlockIds]
    BY <1>1
<1> QED BY <1>2, <1>3 DEF WellLinked

\* Every step keeps the invariant, and a generator moves to free blocks only.
LEMMA Inductive ==
    ASSUME IInv, [Next]_vars
    PROVE  IInv' /\ ((curr' # curr /\ curr' # None) => curr' \notin held')
<1>1. num \in Nat /\ curr \in BlockIds \cup {None} /\ TypeOK
    BY DEF IInv, TypeOK
<1>2. PICK s \in [1..num -> BlockIds] : LinkedAs(s)
    BY DEF IInv, WellLinked
<1>3. CASE ListAction
    <2>1. ListStep(s) /\ UNCHANGED curr
        BY <1>1, <1>2, <1>3, ActionsAreListSteps
    <2>2. WellLinked' /\ (num \in Nat)' /\ Functions'
        BY <1>2, <2>1, ListStepKeeps
    <2>3. TypeOK'
        <3>1. (/\ next \in [Nodes -> Nodes \cup {None}]
               /\ prev \in [Nodes -> Nodes \cup {None}]
               /\ held \subseteq BlockIds)'
            BY <2>2, Typed, PTL
        <3> QED BY <1>1, <2>1, <2>2, <3>1 DEF TypeOK
    <2> QED BY <2>1, <2>2, <2>3 DEF IInv
<1>4. CASE \/ \E cursor \in BlockIds \cup {None} : iter_blocks_after(cursor)
           \/ iter_next
    <2>1. /\ UNCHANGED <<next, prev, num, held>>
          /\ curr' \in (BlockIds \ held) \cup {None}
        BY <1>1, <1>2, <1>4, LooksAtFree
    <2>2. WellLinked'
        BY <1>2, <2>1, SameLinks
    <2>3. TypeOK'
        BY <1>1, <2>1 DEF TypeOK
    <2> QED BY <2>1, <2>2, <2>3 DEF IInv
<1>5. CASE UNCHANGED vars
    <2>1. UNCHANGED <<next, prev, num, held, curr>>
        BY <1>5 DEF vars, links
    <2>2. WellLinked'
        BY <1>2, <2>1, SameLinks
    <2>3. TypeOK'
        BY <1>1, <2>1 DEF TypeOK
    <2> QED BY <2>1, <2>2, <2>3 DEF IInv
<1> QED BY <1>3, <1>4, <1>5, NextCases

-----------------------------------------------------------------------------
(***************************************************************************)
(* The links implement FreeList: get_all_free_blocks is the one list that  *)
(* they encode, and a splice at the front, in the middle or at an end is   *)
(* the abstract step of that name.                                         *)
(***************************************************************************)

\* The links encode one list only.
LEMMA UniqueList ==
    ASSUME num \in Nat,
           NEW s \in [1..num -> BlockIds], LinkedAs(s),
           NEW t \in [1..num -> BlockIds], LinkedAs(t)
    PROVE  s = t
<1>1. CASE num = 0
    BY <1>1
<1>2. CASE num # 0
    <2>1. num \in 1..num
        BY <1>2
    <2>2. \A i \in 0..num : next[Full(t)[i]] = Full(t)[i + 1]
        BY DEF LinkedAs, Full
    <2>3. t[1] = next[Head]
        <3>1. 0 \in 0..num /\ 0 + 1 \in 1..num
            BY <1>2
        <3> QED BY <2>2, <3>1, FullFacts
    <2>4. ASSUME NEW i \in 1 .. num - 1 PROVE t[i + 1] = next[t[i]]
        <3>1. i \in 0..num /\ i \in 1..num /\ i + 1 \in 1..num
            OBVIOUS
        <3> QED BY <2>2, <3>1, FullFacts
    <2>5. FirstBlocks(num, t)
        BY <2>3, <2>4 DEF FirstBlocks
    <2>6. \A i \in 1..num : t[i] = s[i]
        BY <2>1, <2>5, FollowsLinks
    <2> QED BY <2>6
<1> QED BY <1>1, <1>2

ReadsTheList ==
    \A s \in [1..num -> BlockIds] : LinkedAs(s) => get_all_free_blocks = s

LEMMA TheList == num \in Nat => ReadsTheList
<1> SUFFICES ASSUME num \in Nat, NEW s \in [1..num -> BlockIds], LinkedAs(s)
             PROVE  get_all_free_blocks = s
    BY DEF ReadsTheList
<1> DEFINE t == get_all_free_blocks
<1>1. t \in [1..num -> BlockIds] /\ LinkedAs(t)
    BY DEF get_all_free_blocks
<1> HIDE DEF t
<1> QED BY <1>1, UniqueList DEF t

\* What the abstract specification says of the list, without Len.
LEMMA ListInit ==
    ASSUME NEW n \in Nat, NEW s \in [1..n -> BlockIds], get_all_free_blocks = s,
           \A i, j \in 1..n : s[i] = s[j] => i = j
    PROVE  List!Init
BY DEF List!Init, List!Distinct

LEMMA ListTake ==
    ASSUME NEW m \in Nat, NEW s \in [1..m -> BlockIds], get_all_free_blocks = s,
           NEW n \in 1..m, get_all_free_blocks' = [i \in 1 .. m - n |-> s[i + n]]
    PROVE  List!Next
<1>1. List!Len(s) = m
    OBVIOUS
<1>2. List!Take(n)
    BY <1>1 DEF List!Take
<1> QED BY <1>1, <1>2 DEF List!Next

LEMMA ListTakeOut ==
    ASSUME NEW m \in Nat, NEW s \in [1..m -> BlockIds], get_all_free_blocks = s,
           NEW i \in 1..m,
           get_all_free_blocks' = [j \in 1 .. m - 1 |-> IF j < i THEN s[j] ELSE s[j + 1]]
    PROVE  List!Next
<1>1. List!Len(s) = m
    OBVIOUS
<1>2. List!TakeOut(i)
    BY <1>1 DEF List!TakeOut
<1> QED BY <1>1, <1>2 DEF List!Next

\* List t is s, of m blocks, with k others at one end.
Longer(m, s, k, t) ==
    /\ m \in Nat /\ k \in Nat \ {0}
    /\ s \in [1..m -> BlockIds]
    /\ t \in [1 .. m + k -> BlockIds]
    /\ \A i, j \in 1 .. m + k : t[i] = t[j] => i = j
    /\ (\A i \in 1..m : t[i] = s[i]) \/ (\A i \in 1..m : t[i + k] = s[i])

LEMMA ListPut ==
    ASSUME NEW m, NEW s, NEW k, NEW t, Longer(m, s, k, t),
           get_all_free_blocks = s, get_all_free_blocks' = t
    PROVE  List!Next
<1> USE DEF Longer
<1>1. List!Len(s) = m /\ List!Len(t) = m + k /\ t \in List!Seq(BlockIds)
    OBVIOUS
<1>2. List!Grown
    BY <1>1 DEF List!Grown, List!Distinct
<1> QED BY <1>1, <1>2 DEF List!Next, List!PutBack, List!PutInFront

LEMMA ListStepKeepsOrder ==
    ASSUME IInv, NEW s \in [1..num -> BlockIds], LinkedAs(s), ListStep(s)
    PROVE  List!Next
<1>t. TypeOK /\ num \in Nat
    BY DEF IInv, TypeOK
<1>s. get_all_free_blocks = s
    BY <1>t, TheList DEF ReadsTheList
<1>p. (num \in Nat => ReadsTheList)'
    BY TheList, PTL
<1>l. ASSUME NEW lo \in 0..num, NEW hi \in lo + 1 .. num + 1, NEW k \in Nat, NEW b,
             SpliceStep(s, lo, hi, k, b), NEW t, t = Replaced(s, lo, hi, k, b, num')
      PROVE  /\ t \in [1..num' -> BlockIds]
             /\ \A i, j \in 1..num' : t[i] = t[j] => i = j
             /\ get_all_free_blocks' = t
             /\ num' = num - (hi - lo - 1) + k
    <2>1. num' \in Nat /\ t \in [1..num' -> BlockIds] /\ LinkedAs(t)'
        BY <1>t, <1>l, Spliced
    <2>2. get_all_free_blocks' = t
        BY <1>p, <2>1 DEF ReadsTheList
    <2> QED BY <1>l, <2>1, <2>2 DEF LinkedAs, SpliceStep
<1>1. CASE TakesFirst(s)
    <2>1. PICK n \in 1..num : SpliceStep(s, 0, n + 1, 0, Nothing)
        BY <1>1 DEF TakesFirst
    <2>2. PICK t : t = Replaced(s, 0, n + 1, 0, Nothing, num')
        OBVIOUS
    <2>3. 0 \in 0..num /\ n + 1 \in 0 + 1 .. num + 1 /\ 0 \in Nat
        BY <1>t
    <2>4. get_all_free_blocks' = t /\ num' = num - ((n + 1) - 0 - 1) + 0
        BY <2>1, <2>2, <2>3, <1>l
    <2>5. num' = num - n
        BY <1>t, <2>4
    <2>6. t = [i \in 1 .. num - n |-> s[i + n]]
        <3>1. t = [i \in 1..num' |-> IF i <= 0 THEN s[i]
                    ELSE IF i <= 0 + 0 THEN Nothing[i - 0]
                    ELSE s[i - 0 - 0 + (n + 1) - 1]]
            BY <2>2 DEF Replaced
        <3> QED BY <1>t, <2>5, <3>1
    <2> QED BY <1>t, <1>s, <2>4, <2>6, ListTake
<1>2. CASE TakesOut(s)
    <2>1. PICK i \in 1..num : SpliceStep(s, i - 1, i + 1, 0, Nothing)
        BY <1>2 DEF TakesOut
    <2>2. PICK t : t = Replaced(s, i - 1, i + 1, 0, Nothing, num')
        OBVIOUS
    <2>3. i - 1 \in 0..num /\ i + 1 \in (i - 1) + 1 .. num + 1 /\ 0 \in Nat
        BY <1>t
    <2>4. get_all_free_blocks' = t /\ num' = num - ((i + 1) - (i - 1) - 1) + 0
        BY <2>1, <2>2, <2>3, <1>l
    <2>5. num' = num - 1
        BY <1>t, <2>4
    <2>6. t = [j \in 1 .. num - 1 |-> IF j < i THEN s[j] ELSE s[j + 1]]
        <3>1. t = [j \in 1..num' |-> IF j <= i - 1 THEN s[j]
                    ELSE IF j <= (i - 1) + 0 THEN Nothing[j - (i - 1)]
                    ELSE s[j - (i - 1) - 0 + (i + 1) - 1]]
            BY <2>2 DEF Replaced
        <3> QED BY <1>t, <2>5, <3>1
    <2> QED BY <1>t, <1>s, <2>4, <2>6, ListTakeOut
<1>3. CASE PutsBack(s)
    <2>1. PICK k \in Nat \ {0} : \E b \in Batch(k) : SpliceStep(s, num, num + 1, k, b)
        BY <1>3 DEF PutsBack
    <2>2. PICK b \in Batch(k) : SpliceStep(s, num, num + 1, k, b)
        BY <2>1
    <2>3. PICK t : t = Replaced(s, num, num + 1, k, b, num')
        OBVIOUS
    <2>4. num \in 0..num /\ num + 1 \in num + 1 .. num + 1 /\ k \in Nat
        BY <1>t
    <2>5. /\ t \in [1..num' -> BlockIds]
          /\ \A i, j \in 1..num' : t[i] = t[j] => i = j
          /\ get_all_free_blocks' = t
          /\ num' = num - ((num + 1) - num - 1) + k
        <3>1. PICK lo, hi : lo = num /\ hi = num + 1
            OBVIOUS
        <3>2. /\ lo \in 0..num /\ hi \in lo + 1 .. num + 1
              /\ SpliceStep(s, lo, hi, k, b) /\ t = Replaced(s, lo, hi, k, b, num')
            BY <2>2, <2>3, <2>4, <3>1
        <3> QED BY <2>4, <3>1, <3>2, <1>l
    <2>6. num' = num + k
        BY <1>t, <2>5
    <2>8. /\ t \in [1 .. num + k -> BlockIds]
          /\ \A i, j \in 1 .. num + k : t[i] = t[j] => i = j
        BY <2>5, <2>6
    <2>7. \A i \in 1..num : t[i] = s[i]
        BY <1>t, <2>3, <2>6 DEF Replaced
    <2>9. Longer(num, s, k, t)
        BY <1>t, <2>7, <2>8 DEF Longer
    <2> QED BY <1>s, <2>5, <2>9, ListPut, Zenon
<1>4. CASE PutsInFront(s)
    <2>1. PICK k \in Nat \ {0} : \E b \in Batch(k) : SpliceStep(s, 0, 0 + 1, k, b)
        BY <1>4 DEF PutsInFront
    <2>2. PICK b \in Batch(k) : SpliceStep(s, 0, 0 + 1, k, b)
        BY <2>1
    <2>3. PICK t : t = Replaced(s, 0, 0 + 1, k, b, num')
        OBVIOUS
    <2>4. 0 \in 0..num /\ 0 + 1 \in 0 + 1 .. num + 1 /\ k \in Nat
        BY <1>t
    <2>5. /\ t \in [1..num' -> BlockIds]
          /\ \A i, j \in 1..num' : t[i] = t[j] => i = j
          /\ get_all_free_blocks' = t
          /\ num' = num - ((0 + 1) - 0 - 1) + k
        BY <2>2, <2>3, <2>4, <1>l
    <2>6. num' = num + k
        BY <1>t, <2>5
    <2>8. /\ t \in [1 .. num + k -> BlockIds]
          /\ \A i, j \in 1 .. num + k : t[i] = t[j] => i = j
        BY <2>5, <2>6
    <2>7. ASSUME NEW i \in 1..num PROVE t[i + k] = s[i]
        <3>1. i + k \in 1..num' /\ ~(i + k <= 0) /\ ~(i + k <= 0 + k)
            BY <1>t, <2>6
        <3>2. t[i + k] = s[(i + k) - 0 - k + (0 + 1) - 1]
            BY <2>3, <3>1 DEF Replaced
        <3>3. (i + k) - 0 - k + (0 + 1) - 1 = i
            BY <1>t
        <3> QED BY <3>2, <3>3
    <2>9. Longer(num, s, k, t)
        BY <1>t, <2>7, <2>8 DEF Longer
    <2> QED BY <1>s, <2>5, <2>9, ListPut, Zenon
<1> QED BY <1>1, <1>2, <1>3, <1>4 DEF ListStep

\* Looking through the list leaves it as it is.
LEMMA SameOrder ==
    ASSUME IInv, UNCHANGED <<next, prev, num, held>>
    PROVE  UNCHANGED get_all_free_blocks
<1>1. next' = next /\ prev' = prev /\ num' = num /\ held' = held
    OBVIOUS
<1>2. \A s \in [1..num -> BlockIds] : LinkedAs(s)' = LinkedAs(s)
    BY <1>1 DEF LinkedAs
<1> QED BY <1>1, <1>2 DEF get_all_free_blocks, LinkedAs

LEMMA OrderKept == IInv /\ [Next]_vars => [List!Next]_get_all_free_blocks
<1> SUFFICES ASSUME IInv, [Next]_vars
             PROVE  List!Next \/ UNCHANGED get_all_free_blocks
    OBVIOUS
<1>1. num \in Nat /\ curr \in BlockIds \cup {None}
    BY DEF IInv, TypeOK
<1>2. PICK s \in [1..num -> BlockIds] : LinkedAs(s)
    BY DEF IInv, WellLinked
<1>3. CASE ListAction
    BY <1>1, <1>2, <1>3, ActionsAreListSteps, ListStepKeepsOrder
<1>4. CASE \/ \E cursor \in BlockIds \cup {None} : iter_blocks_after(cursor)
           \/ iter_next
    BY <1>1, <1>2, <1>4, LooksAtFree, SameOrder
<1>5. CASE UNCHANGED vars
    BY <1>5, SameOrder DEF vars, links
<1> QED BY <1>3, <1>4, <1>5, NextCases

-----------------------------------------------------------------------------
(***************************************************************************)
(* The theorems                                                            *)
(***************************************************************************)

LEMMA Invariant == Spec => []IInv
<1>1. Init => IInv
    BY Initially
<1>2. IInv /\ [Next]_vars => IInv'
    BY Inductive
<1> QED BY <1>1, <1>2, PTL DEF Spec

\* For any number of blocks, the links, the count and the generator keep their
\* types.
THEOREM TypeCorrect == Spec => []TypeOK
<1>1. IInv => TypeOK
    BY DEF IInv
<1> QED BY <1>1, Invariant, PTL

\* For any number of blocks and any order of allocating, hitting and freeing
\* them, the links form one chain through exactly the free blocks, and
\* num_free_blocks is its length.
THEOREM WellLinkedAlways == Spec => []WellLinked
<1>1. IInv => WellLinked
    BY DEF IInv
<1> QED BY <1>1, Invariant, PTL

\* A generator left suspended while the list changes never yields a block in
\* use.
THEOREM YieldsFreeAlways == Spec => YieldsFree
<1>1. IInv /\ [Next]_vars => [(curr' # curr /\ curr' # None) => curr' \notin held']_vars
    BY Inductive
<1> QED BY <1>1, Invariant, PTL DEF Spec, YieldsFree

\* For any number of blocks, the links hand out and take back blocks in the
\* order the pool expects of its free list.
THEOREM ImplementsFreeList == Spec => KeepsOrder
<1>1. Init => List!Init
    <2> SUFFICES ASSUME Init PROVE List!Init
        OBVIOUS
    <2>1. IInv
        BY Initially
    <2>2. num \in Nat
        BY <2>1 DEF IInv, TypeOK
    <2>3. PICK s \in [1..num -> BlockIds] : LinkedAs(s)
        BY <2>1 DEF IInv, WellLinked
    <2>4. get_all_free_blocks = s
        BY <2>2, <2>3, TheList DEF ReadsTheList
    <2>5. \A i, j \in 1..num : s[i] = s[j] => i = j
        BY <2>3 DEF LinkedAs
    <2> QED BY <2>2, <2>4, <2>5, ListInit
<1>2. IInv /\ [Next]_vars => [List!Next]_get_all_free_blocks
    BY OrderKept
<1> QED BY <1>1, <1>2, Invariant, PTL DEF Spec, KeepsOrder, List!Spec
=============================================================================
