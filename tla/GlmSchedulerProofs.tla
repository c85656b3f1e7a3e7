------------------------- MODULE GlmSchedulerProofs -------------------------
(* Theorems about GlmScheduler, for any requests, prompts, settings and      *)
(* limits.                                                                   *)
EXTENDS GlmScheduler, SequenceTheorems, FiniteSetTheorems, WellFoundedInduction, TLAPS

(***************************************************************************)
(* Numbers                                                                 *)
(***************************************************************************)

\* The least element of a set of naturals.
LEMMA LeastNatural ==
    ASSUME NEW T \in SUBSET Nat, T # {}
    PROVE  \E m \in T : \A k \in T : m <= k
<1>1. PICK m \in T : \A k \in T : <<k, m>> \notin OpToRel(<, Nat)
    BY WFMin, NatLessThanWellFounded, Zenon
<1>2. ASSUME NEW k \in T PROVE m <= k
    <2>1. ~ (k < m)
        BY <1>1, Zenon DEF OpToRel
    <2> QED BY <2>1
<1> QED BY <1>2

\* A set with 0 in it that is closed under successor contains every natural.
LEMMA SetInduction ==
    ASSUME NEW S, 0 \in S, \A n \in Nat : n \in S => n + 1 \in S
    PROVE  Nat \subseteq S
<1> DEFINE T == {n \in Nat : n \notin S}
<1> SUFFICES ASSUME T # {} PROVE FALSE
    OBVIOUS
<1>1. PICK m \in T : \A k \in T : m <= k
    BY LeastNatural
<1> QED BY <1>1

\* The same up to a bound.
LEMMA UpToInduction ==
    ASSUME NEW n \in Nat, NEW S, 0 \in S, \A i \in 1..n : i - 1 \in S => i \in S
    PROVE  0..n \subseteq S
<1> DEFINE T == {i \in Nat : i > n \/ i \in S}
<1>1. 0 \in T
    OBVIOUS
<1>2. ASSUME NEW i \in Nat, i \in T PROVE i + 1 \in T
    <2>1. CASE i + 1 > n
        BY <2>1
    <2>2. CASE i + 1 <= n
        <3>1. i + 1 \in 1..n /\ (i + 1) - 1 = i /\ i \in S
            BY <1>2, <2>2
        <3>2. i + 1 \in S
            BY <3>1
        <3> QED BY <3>2
    <2> QED BY <2>1, <2>2
<1>3. Nat \subseteq T
    <2> HIDE DEF T
    <2> QED BY <1>1, <1>2, SetInduction
<1> QED BY <1>3

\* Min() and Max() of a few integers.
LEMMA MinOfTwo ==
    ASSUME NEW a \in Int, NEW b \in Int
    PROVE  Min({a, b}) \in {a, b} /\ Min({a, b}) <= a /\ Min({a, b}) <= b
BY DEF Min

LEMMA MinOfThree ==
    ASSUME NEW a \in Int, NEW b \in Int, NEW c \in Int
    PROVE  /\ Min({a, b, c}) \in {a, b, c}
           /\ Min({a, b, c}) <= a /\ Min({a, b, c}) <= b /\ Min({a, b, c}) <= c
BY DEF Min

LEMMA MinOfFour ==
    ASSUME NEW a \in Int, NEW b \in Int, NEW c \in Int, NEW d \in Int
    PROVE  /\ Min({a, b, c, d}) \in {a, b, c, d}
           /\ Min({a, b, c, d}) <= a /\ Min({a, b, c, d}) <= b
           /\ Min({a, b, c, d}) <= c /\ Min({a, b, c, d}) <= d
BY DEF Min

LEMMA MaxOfTwo ==
    ASSUME NEW a \in Int, NEW b \in Int
    PROVE  Max({a, b}) \in {a, b} /\ Max({a, b}) >= a /\ Max({a, b}) >= b
BY DEF Max

\* Division with a remainder.
LEMMA DivMod ==
    ASSUME NEW B \in Nat \ {0}, NEW n \in Nat
    PROVE  n = B * (n \div B) + (n % B) /\ n \div B \in Nat /\ n % B \in 0..(B - 1)
OBVIOUS

\* Multiples of a size are ordered as their factors.
LEMMA Multiples ==
    ASSUME NEW B \in Nat \ {0}, NEW m \in Int, NEW k \in Int
    PROVE  /\ B * m \in Int
           /\ B * (m + 1) = B * m + B
           /\ m < k => B * m + B <= B * k
           /\ m <= k => B * m <= B * k
           /\ B * m < B * k => m < k
<1>1. \A i, d \in Int : B * (i + d) = B * i + B * d
    OBVIOUS
<1>2. \A i \in Nat : B * i \in Nat
    OBVIOUS
<1>3. \A i \in Int : B * i \in Int
    OBVIOUS
<1>4. \A i \in Int : B * (i + 1) = B * i + B
    <2>1. B * 1 = B
        OBVIOUS
    <2> QED BY <1>1, <2>1
<1>5. ASSUME NEW i \in Int, NEW l \in Int, i <= l PROVE B * i <= B * l
    <2> DEFINE x == B * i
               y == B * (l - i)
               z == B * l
    <2>1. l - i \in Nat /\ i + (l - i) = l
        BY <1>5
    <2>2. z = x + y /\ x \in Int /\ y \in Nat
        BY <2>1, <1>1, <1>2, <1>3
    <2> HIDE DEF x, y, z
    <2>3. x <= z
        BY <2>2
    <2> QED BY <2>3 DEF x, z
<1>6. m < k => B * m + B <= B * k
    <2> SUFFICES ASSUME m < k PROVE B * m + B <= B * k
        OBVIOUS
    <2>1. m + 1 <= k /\ m + 1 \in Int
        OBVIOUS
    <2>2. B * (m + 1) <= B * k
        BY <1>5, <2>1
    <2> QED BY <1>4, <2>2
<1>7. B * m < B * k => m < k
    <2>1. k <= m => B * k <= B * m
        BY <1>5
    <2>2. B * k \in Int /\ B * m \in Int
        BY <1>3
    <2> DEFINE x == B * m
               y == B * k
    <2>3. k <= m => y <= x
        BY <2>1
    <2>4. x \in Int /\ y \in Int
        BY <2>2
    <2> HIDE DEF x, y
    <2>5. x < y => m < k
        BY <2>3, <2>4
    <2> QED BY <2>5 DEF x, y
<1> QED BY <1>3, <1>4, <1>5, <1>6, <1>7

\* A number lies in the multiple that its quotient names.
LEMMA Quotient ==
    ASSUME NEW B \in Nat \ {0}, NEW n \in Nat, NEW k \in Int
    PROVE  /\ n < B * k <=> n \div B < k
           /\ B * k <= n <=> k <= n \div B
<1> DEFINE q == n \div B
           o == n % B
           x == B * q
           y == B * k
<1>1. n = x + o /\ q \in Nat /\ o \in Int /\ 0 <= o /\ o < B
    BY DivMod
<1>2. x \in Int /\ y \in Int /\ (q < k => x + B <= y) /\ (k <= q => y <= x)
    BY <1>1, Multiples
<1> HIDE DEF q, o, x, y
<1>3. (n < y <=> q < k) /\ (y <= n <=> k <= q)
    BY <1>1, <1>2
<1> QED BY <1>3 DEF q, y

\* Cdiv() rounds up.
LEMMA CdivFacts ==
    ASSUME NEW B \in Nat \ {0}, NEW n \in Nat
    PROVE  /\ Cdiv(n, B) \in Nat
           /\ n <= B * Cdiv(n, B)
           /\ \A k \in Int : n <= B * k => Cdiv(n, B) <= k
<1> DEFINE c == Cdiv(n, B)
           u == n + B - 1
<1>1. u \in Nat /\ c = u \div B /\ c \in Nat
    BY DivMod DEF Cdiv
<1> HIDE DEF c
<1>2. \A k \in Int : (u < B * k <=> c < k) /\ (B * k <= u <=> k <= c)
    BY <1>1, Quotient
<1>3. n <= B * c
    <2>1. u < B * (c + 1) /\ B * (c + 1) = B * c + B
        <3>1. c + 1 \in Int /\ c < c + 1
            BY <1>1
        <3> QED BY <1>1, <1>2, <3>1, Multiples
    <2> DEFINE x == B * c
    <2>2. u < x + B /\ x \in Int
        BY <2>1, <1>1, Multiples
    <2> HIDE DEF x
    <2>3. n <= x
        BY <2>2
    <2> QED BY <2>3 DEF x
<1>4. ASSUME NEW k \in Int, n <= B * k PROVE c <= k
    <2>1. B * (k + 1) = B * k + B /\ k + 1 \in Int /\ B * k \in Int
        BY Multiples
    <2> DEFINE x == B * k
    <2>2. u < x + B
        <3> HIDE DEF x
        <3>1. n <= x /\ x \in Int
            BY <1>4, <2>1 DEF x
        <3> QED BY <3>1
    <2>3. u < B * (k + 1)
        BY <2>1, <2>2
    <2>4. c < k + 1
        BY <1>2, <2>1, <2>3
    <2> QED BY <1>1, <2>4
<1> QED BY <1>1, <1>3, <1>4 DEF c

\* The more, the more.
LEMMA CdivMonotone ==
    ASSUME NEW B \in Nat \ {0}, NEW m \in Nat, NEW n \in Nat, m <= n
    PROVE  Cdiv(m, B) <= Cdiv(n, B)
<1> DEFINE x == B * Cdiv(n, B)
<1>1. n <= x /\ Cdiv(n, B) \in Int /\ x \in Int
    BY CdivFacts, Multiples
<1>2. m <= x
    <2> HIDE DEF x
    <2> QED BY <1>1
<1> QED BY <1>1, <1>2, CdivFacts

(***************************************************************************)
(* The recursions of the module: that there is such a function             *)
(***************************************************************************)

\* The requests of a queue that are in a set.
IsKept(q, set, f) ==
    f = [i \in 0..Len(q) |-> IF i = 0 THEN <<>>
                             ELSE (IF q[i] \in set THEN Append(f[i - 1], q[i]) ELSE f[i - 1])]

LEMMA KeptExists ==
    ASSUME NEW q, NEW set, Len(q) \in Nat
    PROVE  \E f : IsKept(q, set, f)
<1> DEFINE n == Len(q)
           Upto(i, f) == f = [j \in 0..i |-> IF j = 0 THEN <<>>
                                             ELSE (IF q[j] \in set THEN Append(f[j - 1], q[j]) ELSE f[j - 1])]
           S == {i \in Nat : \E f : Upto(i, f)}
<1>1. 0 \in S
    <2> DEFINE f == [j \in 0..0 |-> <<>>]
    <2>1. f = [j \in 0..0 |-> IF j = 0 THEN <<>>
                              ELSE (IF q[j] \in set THEN Append(f[j - 1], q[j]) ELSE f[j - 1])]
        <3>1. \A j \in 0..0 : j = 0
            OBVIOUS
        <3> QED BY <3>1
    <2> HIDE DEF f
    <2> QED BY <2>1
<1>2. ASSUME NEW i \in Nat, i \in S PROVE i + 1 \in S
    <2>1. PICK f : f = [j \in 0..i |-> IF j = 0 THEN <<>>
                                       ELSE (IF q[j] \in set THEN Append(f[j - 1], q[j]) ELSE f[j - 1])]
        BY <1>2
    <2> DEFINE l == i + 1
               g == [j \in 0..l |-> IF j = l THEN (IF q[l] \in set THEN Append(f[l - 1], q[l])
                                    ELSE f[l - 1]) ELSE f[j]]
    <2>2. l \in Nat /\ l # 0 /\ l - 1 \in 0..i
        OBVIOUS
    <2>3. ASSUME NEW j \in 0..l PROVE g[j] = IF j = 0 THEN <<>> ELSE (IF q[j] \in set THEN Append(g[j - 1], q[j]) ELSE g[j - 1])
        <3>1. CASE j = l
            <4>1. j # 0 /\ j - 1 = l - 1 /\ j - 1 # l /\ j - 1 \in 0..l
                BY <2>2, <3>1
            <4>2. g[j - 1] = f[l - 1]
                BY <4>1
            <4>3. g[j] = (IF q[l] \in set THEN Append(f[l - 1], q[l]) ELSE f[l - 1])
                BY <3>1
            <4> HIDE DEF g, l
            <4> QED BY <3>1, <4>1, <4>2, <4>3
        <3>2. CASE j # l
            <4>1. j \in 0..i
                BY <2>2, <3>2
            <4>2. g[j] = f[j] /\ f[j] = IF j = 0 THEN <<>> ELSE (IF q[j] \in set THEN Append(f[j - 1], q[j]) ELSE f[j - 1])
                BY <2>1, <3>2, <4>1
            <4>3. j # 0 => j - 1 \in 0..l /\ j - 1 # l
                BY <2>2, <4>1
            <4>4. j # 0 => g[j - 1] = f[j - 1]
                BY <4>3
            <4> HIDE DEF g, l
            <4> QED BY <4>2, <4>4
        <3> QED BY <3>1, <3>2
    <2>4. g = [j \in 0..l |-> g[j]]
        OBVIOUS
    <2> HIDE DEF g
    <2>5. Upto(l, g)
        BY <2>3, <2>4
    <2> QED BY <2>2, <2>5
<1>3. n \in S
    <2> HIDE DEF S
    <2>1. n \in Nat
        OBVIOUS
    <2> QED BY <1>1, <1>2, <2>1, SetInduction
<1> QED BY <1>3 DEF IsKept

\* The sum of some of a sequence.
IsSum(lens, from, n, f) ==
    f = [i \in 0..n |-> IF i = 0 THEN 0 ELSE f[i - 1] + lens[from + i - 1]]

LEMMA SumExists ==
    ASSUME NEW lens, NEW from, NEW n \in Nat
    PROVE  \E f : IsSum(lens, from, n, f)
<1> DEFINE Upto(i, f) == f = [j \in 0..i |-> IF j = 0 THEN 0 ELSE f[j - 1] + lens[from + j - 1]]
           S == {i \in Nat : \E f : Upto(i, f)}
<1>1. 0 \in S
    <2> DEFINE f == [j \in 0..0 |-> 0]
    <2>1. f = [j \in 0..0 |-> IF j = 0 THEN 0 ELSE f[j - 1] + lens[from + j - 1]]
        <3>1. \A j \in 0..0 : j = 0
            OBVIOUS
        <3> QED BY <3>1
    <2> HIDE DEF f
    <2> QED BY <2>1
<1>2. ASSUME NEW i \in Nat, i \in S PROVE i + 1 \in S
    <2>1. PICK f : f = [j \in 0..i |-> IF j = 0 THEN 0 ELSE f[j - 1] + lens[from + j - 1]]
        BY <1>2
    <2> DEFINE l == i + 1
               g == [j \in 0..l |-> IF j = l THEN f[l - 1] + lens[from + l - 1] ELSE f[j]]
    <2>2. l \in Nat /\ l # 0 /\ l - 1 \in 0..i
        OBVIOUS
    <2>3. ASSUME NEW j \in 0..l PROVE g[j] = IF j = 0 THEN 0 ELSE g[j - 1] + lens[from + j - 1]
        <3>1. CASE j = l
            <4>1. j # 0 /\ j - 1 = l - 1 /\ j - 1 # l /\ j - 1 \in 0..l
                BY <2>2, <3>1
            <4>2. g[j - 1] = f[l - 1]
                BY <4>1
            <4>3. g[j] = f[l - 1] + lens[from + l - 1]
                BY <3>1
            <4> HIDE DEF g, l
            <4> QED BY <3>1, <4>1, <4>2, <4>3
        <3>2. CASE j # l
            <4>1. j \in 0..i
                BY <2>2, <3>2
            <4>2. g[j] = f[j] /\ f[j] = IF j = 0 THEN 0 ELSE f[j - 1] + lens[from + j - 1]
                BY <2>1, <3>2, <4>1
            <4>3. j # 0 => j - 1 \in 0..l /\ j - 1 # l
                BY <2>2, <4>1
            <4>4. j # 0 => g[j - 1] = f[j - 1]
                BY <4>3
            <4> HIDE DEF g, l
            <4> QED BY <4>2, <4>4
        <3> QED BY <3>1, <3>2
    <2>4. g = [j \in 0..l |-> g[j]]
        OBVIOUS
    <2> HIDE DEF g
    <2>5. Upto(l, g)
        BY <2>3, <2>4
    <2> QED BY <2>2, <2>5
<1>3. n \in S
    <2> HIDE DEF S
    <2>1. n \in Nat
        OBVIOUS
    <2> QED BY <1>1, <1>2, <2>1, SetInduction
<1> QED BY <1>3 DEF IsSum

\* The chunks of a step.
IsCut(lens, queries, ends, f) ==
    f = [i \in 0..Len(lens) |-> IF i = 0 THEN [at |-> 1, chunks |-> <<>>]
                                ELSE NextChunk(lens, queries, ends, f[i - 1])]

LEMMA CutExists ==
    ASSUME NEW lens, NEW queries, NEW ends, Len(lens) \in Nat
    PROVE  \E f : IsCut(lens, queries, ends, f)
<1> DEFINE n == Len(lens)
           Upto(i, f) == f = [j \in 0..i |-> IF j = 0 THEN [at |-> 1, chunks |-> <<>>]
                                             ELSE NextChunk(lens, queries, ends, f[j - 1])]
           S == {i \in Nat : \E f : Upto(i, f)}
<1>1. 0 \in S
    <2> DEFINE f == [j \in 0..0 |-> [at |-> 1, chunks |-> <<>>]]
    <2>1. f = [j \in 0..0 |-> IF j = 0 THEN [at |-> 1, chunks |-> <<>>]
                              ELSE NextChunk(lens, queries, ends, f[j - 1])]
        <3>1. \A j \in 0..0 : j = 0
            OBVIOUS
        <3> QED BY <3>1
    <2> HIDE DEF f
    <2> QED BY <2>1
<1>2. ASSUME NEW i \in Nat, i \in S PROVE i + 1 \in S
    <2>1. PICK f : f = [j \in 0..i |-> IF j = 0 THEN [at |-> 1, chunks |-> <<>>]
                                       ELSE NextChunk(lens, queries, ends, f[j - 1])]
        BY <1>2
    <2> DEFINE l == i + 1
               g == [j \in 0..l |-> IF j = l THEN NextChunk(lens, queries, ends, f[l - 1]) ELSE f[j]]
    <2>2. l \in Nat /\ l # 0 /\ l - 1 \in 0..i
        OBVIOUS
    <2>3. ASSUME NEW j \in 0..l PROVE g[j] = IF j = 0 THEN [at |-> 1, chunks |-> <<>>]
            ELSE NextChunk(lens, queries, ends, g[j - 1])
        <3>1. CASE j = l
            <4>1. j # 0 /\ j - 1 = l - 1 /\ j - 1 # l /\ j - 1 \in 0..l
                BY <2>2, <3>1
            <4>2. g[j - 1] = f[l - 1]
                BY <4>1
            <4>3. g[j] = NextChunk(lens, queries, ends, f[l - 1])
                BY <3>1
            <4> HIDE DEF g, l
            <4> QED BY <3>1, <4>1, <4>2, <4>3
        <3>2. CASE j # l
            <4>1. j \in 0..i
                BY <2>2, <3>2
            <4>2. g[j] = f[j] /\ f[j] = IF j = 0 THEN [at |-> 1, chunks |-> <<>>]
                                                              ELSE NextChunk(lens, queries, ends, f[j - 1])
                BY <2>1, <3>2, <4>1
            <4>3. j # 0 => j - 1 \in 0..l /\ j - 1 # l
                BY <2>2, <4>1
            <4>4. j # 0 => g[j - 1] = f[j - 1]
                BY <4>3
            <4> HIDE DEF g, l
            <4> QED BY <4>2, <4>4
        <3> QED BY <3>1, <3>2
    <2>4. g = [j \in 0..l |-> g[j]]
        OBVIOUS
    <2> HIDE DEF g
    <2>5. Upto(l, g)
        BY <2>3, <2>4
    <2> QED BY <2>2, <2>5
<1>3. n \in S
    <2> HIDE DEF S
    <2>1. n \in Nat
        OBVIOUS
    <2> QED BY <1>1, <1>2, <2>1, SetInduction
<1> QED BY <1>3 DEF IsCut

\* The loop over the requests that run.
IsContinued(s, f) ==
    f = [i \in 0..Len(s.running) |-> IF i = 0 THEN {s} ELSE Continued(f[i - 1], s.running[i])]

LEMMA ContinuedExists ==
    ASSUME NEW s, Len(s.running) \in Nat
    PROVE  \E f : IsContinued(s, f)
<1> DEFINE n == Len(s.running)
           Upto(i, f) == f = [j \in 0..i |-> IF j = 0 THEN {s} ELSE Continued(f[j - 1], s.running[j])]
           S == {i \in Nat : \E f : Upto(i, f)}
<1>1. 0 \in S
    <2> DEFINE f == [j \in 0..0 |-> {s}]
    <2>1. f = [j \in 0..0 |-> IF j = 0 THEN {s} ELSE Continued(f[j - 1], s.running[j])]
        <3>1. \A j \in 0..0 : j = 0
            OBVIOUS
        <3> QED BY <3>1
    <2> HIDE DEF f
    <2> QED BY <2>1
<1>2. ASSUME NEW i \in Nat, i \in S PROVE i + 1 \in S
    <2>1. PICK f : f = [j \in 0..i |-> IF j = 0 THEN {s} ELSE Continued(f[j - 1], s.running[j])]
        BY <1>2
    <2> DEFINE l == i + 1
               g == [j \in 0..l |-> IF j = l THEN Continued(f[l - 1], s.running[l]) ELSE f[j]]
    <2>2. l \in Nat /\ l # 0 /\ l - 1 \in 0..i
        OBVIOUS
    <2>3. ASSUME NEW j \in 0..l PROVE g[j] = IF j = 0 THEN {s} ELSE Continued(g[j - 1], s.running[j])
        <3>1. CASE j = l
            <4>1. j # 0 /\ j - 1 = l - 1 /\ j - 1 # l /\ j - 1 \in 0..l
                BY <2>2, <3>1
            <4>2. g[j - 1] = f[l - 1]
                BY <4>1
            <4>3. g[j] = Continued(f[l - 1], s.running[l])
                BY <3>1
            <4> HIDE DEF g, l
            <4> QED BY <3>1, <4>1, <4>2, <4>3
        <3>2. CASE j # l
            <4>1. j \in 0..i
                BY <2>2, <3>2
            <4>2. g[j] = f[j] /\ f[j] = IF j = 0 THEN {s} ELSE Continued(f[j - 1], s.running[j])
                BY <2>1, <3>2, <4>1
            <4>3. j # 0 => j - 1 \in 0..l /\ j - 1 # l
                BY <2>2, <4>1
            <4>4. j # 0 => g[j - 1] = f[j - 1]
                BY <4>3
            <4> HIDE DEF g, l
            <4> QED BY <4>2, <4>4
        <3> QED BY <3>1, <3>2
    <2>4. g = [j \in 0..l |-> g[j]]
        OBVIOUS
    <2> HIDE DEF g
    <2>5. Upto(l, g)
        BY <2>3, <2>4
    <2> QED BY <2>2, <2>5
<1>3. n \in S
    <2> HIDE DEF S
    <2>1. n \in Nat
        OBVIOUS
    <2> QED BY <1>1, <1>2, <2>1, SetInduction
<1> QED BY <1>3 DEF IsContinued

\* The loop over the requests that wait.
IsAdmitted(s, f) ==
    f = [i \in 0..Len(s.waiting) |-> IF i = 0 THEN {s} ELSE Admitted(f[i - 1], s.waiting[i])]

LEMMA AdmittedExists ==
    ASSUME NEW s, Len(s.waiting) \in Nat
    PROVE  \E f : IsAdmitted(s, f)
<1> DEFINE n == Len(s.waiting)
           Upto(i, f) == f = [j \in 0..i |-> IF j = 0 THEN {s} ELSE Admitted(f[j - 1], s.waiting[j])]
           S == {i \in Nat : \E f : Upto(i, f)}
<1>1. 0 \in S
    <2> DEFINE f == [j \in 0..0 |-> {s}]
    <2>1. f = [j \in 0..0 |-> IF j = 0 THEN {s} ELSE Admitted(f[j - 1], s.waiting[j])]
        <3>1. \A j \in 0..0 : j = 0
            OBVIOUS
        <3> QED BY <3>1
    <2> HIDE DEF f
    <2> QED BY <2>1
<1>2. ASSUME NEW i \in Nat, i \in S PROVE i + 1 \in S
    <2>1. PICK f : f = [j \in 0..i |-> IF j = 0 THEN {s} ELSE Admitted(f[j - 1], s.waiting[j])]
        BY <1>2
    <2> DEFINE l == i + 1
               g == [j \in 0..l |-> IF j = l THEN Admitted(f[l - 1], s.waiting[l]) ELSE f[j]]
    <2>2. l \in Nat /\ l # 0 /\ l - 1 \in 0..i
        OBVIOUS
    <2>3. ASSUME NEW j \in 0..l PROVE g[j] = IF j = 0 THEN {s} ELSE Admitted(g[j - 1], s.waiting[j])
        <3>1. CASE j = l
            <4>1. j # 0 /\ j - 1 = l - 1 /\ j - 1 # l /\ j - 1 \in 0..l
                BY <2>2, <3>1
            <4>2. g[j - 1] = f[l - 1]
                BY <4>1
            <4>3. g[j] = Admitted(f[l - 1], s.waiting[l])
                BY <3>1
            <4> HIDE DEF g, l
            <4> QED BY <3>1, <4>1, <4>2, <4>3
        <3>2. CASE j # l
            <4>1. j \in 0..i
                BY <2>2, <3>2
            <4>2. g[j] = f[j] /\ f[j] = IF j = 0 THEN {s} ELSE Admitted(f[j - 1], s.waiting[j])
                BY <2>1, <3>2, <4>1
            <4>3. j # 0 => j - 1 \in 0..l /\ j - 1 # l
                BY <2>2, <4>1
            <4>4. j # 0 => g[j - 1] = f[j - 1]
                BY <4>3
            <4> HIDE DEF g, l
            <4> QED BY <4>2, <4>4
        <3> QED BY <3>1, <3>2
    <2>4. g = [j \in 0..l |-> g[j]]
        OBVIOUS
    <2> HIDE DEF g
    <2>5. Upto(l, g)
        BY <2>3, <2>4
    <2> QED BY <2>2, <2>5
<1>3. n \in S
    <2> HIDE DEF S
    <2>1. n \in Nat
        OBVIOUS
    <2> QED BY <1>1, <1>2, <2>1, SetInduction
<1> QED BY <1>3 DEF IsAdmitted

\* What the definitions take of those functions.
LEMMA KeptIs ==
    ASSUME NEW q, NEW set, Len(q) \in Nat
    PROVE  \E f : IsKept(q, set, f) /\ Kept(q, set) = f[Len(q)]
<1> DEFINE f == CHOOSE g : IsKept(q, set, g)
<1>1. IsKept(q, set, f)
    BY KeptExists
<1>2. Kept(q, set) = f[Len(q)]
    BY DEF Kept, IsKept
<1> HIDE DEF f
<1> QED BY <1>1, <1>2

LEMMA TotalIs ==
    ASSUME NEW lens, NEW from \in Int, NEW to \in Int, from - 1 <= to
    PROVE  \E f : IsSum(lens, from, to - from + 1, f) /\ Total(lens, from, to) = f[to - from + 1]
<1> DEFINE n == to - from + 1
           f == CHOOSE g : IsSum(lens, from, n, g)
<1>1. n \in Nat
    OBVIOUS
<1>2. Total(lens, from, to) = f[n]
    BY Zenon DEF Total, IsSum
<1> HIDE DEF n
<1>3. IsSum(lens, from, n, f)
    BY <1>1, SumExists
<1> HIDE DEF f
<1> QED BY <1>2, <1>3 DEF n

LEMMA ChunksIs ==
    ASSUME NEW lens, NEW queries, NEW ends, Len(lens) \in Nat
    PROVE  \E f : IsCut(lens, queries, ends, f) /\ Chunks(lens, queries, ends) = f[Len(lens)].chunks
<1> DEFINE f == CHOOSE g : IsCut(lens, queries, ends, g)
<1>1. IsCut(lens, queries, ends, f)
    BY CutExists
<1>2. Chunks(lens, queries, ends) = f[Len(lens)].chunks
    BY Zenon DEF Chunks, IsCut
<1> HIDE DEF f
<1> QED BY <1>1, <1>2

LEMMA AllContinuedIs ==
    ASSUME NEW s, Len(s.running) \in Nat
    PROVE  \E f : IsContinued(s, f) /\ AllContinued(s) = f[Len(s.running)]
<1> DEFINE f == CHOOSE g : IsContinued(s, g)
<1>1. IsContinued(s, f)
    BY ContinuedExists
<1>2. AllContinued(s) = f[Len(s.running)]
    BY Zenon DEF AllContinued, IsContinued
<1> HIDE DEF f
<1> QED BY <1>1, <1>2

LEMMA AllAdmittedIs ==
    ASSUME NEW s, Len(s.waiting) \in Nat
    PROVE  \E f : IsAdmitted(s, f) /\ AllAdmitted(s) = f[Len(s.waiting)]
<1> DEFINE f == CHOOSE g : IsAdmitted(s, g)
<1>1. IsAdmitted(s, f)
    BY AdmittedExists
<1>2. AllAdmitted(s) = f[Len(s.waiting)]
    BY Zenon DEF AllAdmitted, IsAdmitted
<1> HIDE DEF f
<1> QED BY <1>1, <1>2

(***************************************************************************)
(* Queues                                                                  *)
(***************************************************************************)

\* The elements of a sequence.
LEMMA RangeOf ==
    ASSUME NEW T, NEW q \in Seq(T)
    PROVE  /\ Range(q) = {q[i] : i \in 1..Len(q)}
           /\ Range(q) \subseteq T
           /\ IsInjective(q) <=> \A i, j \in 1..Len(q) : q[i] = q[j] => i = j
<1>1. DOMAIN q = 1..Len(q) /\ \A i \in 1..Len(q) : q[i] \in T
    BY LenProperties, ElementOfSeq
<1> QED BY <1>1 DEF Range, IsInjective

\* A sequence with one element more.
LEMMA AppendRange ==
    ASSUME NEW T, NEW q \in Seq(T), NEW e \in T
    PROVE  /\ Append(q, e) \in Seq(T)
           /\ Len(Append(q, e)) = Len(q) + 1
           /\ Range(Append(q, e)) = Range(q) \cup {e}
           /\ IsInjective(q) /\ e \notin Range(q) => IsInjective(Append(q, e))
<1> DEFINE a == Append(q, e)
           n == Len(q)
<1>1. /\ a \in Seq(T) /\ Len(a) = n + 1 /\ n \in Nat
      /\ \A i \in 1..n : a[i] = q[i]
      /\ a[n + 1] = e
    BY AppendProperties, LenProperties
<1>2. /\ Range(a) = {a[i] : i \in 1..(n + 1)} /\ Range(q) = {q[i] : i \in 1..n}
      /\ IsInjective(a) <=> \A i, j \in 1..(n + 1) : a[i] = a[j] => i = j
      /\ IsInjective(q) <=> \A i, j \in 1..n : q[i] = q[j] => i = j
    BY <1>1, RangeOf
<1> HIDE DEF a, n
<1>3. \A i \in 1..(n + 1) : i \in 1..n \/ i = n + 1
    BY <1>1
<1>4. \A i \in 1..n : i \in 1..(n + 1)
    BY <1>1
<1>5. n + 1 \in 1..(n + 1)
    BY <1>1
<1>6. Range(a) = Range(q) \cup {e}
    BY <1>1, <1>2, <1>3, <1>4, <1>5
<1>7. ASSUME IsInjective(q), e \notin Range(q), NEW i \in 1..(n + 1), NEW j \in 1..(n + 1), a[i] = a[j]
      PROVE  i = j
    <2>1. CASE i \in 1..n /\ j \in 1..n
        BY <1>1, <1>2, <1>7, <2>1
    <2>2. CASE i \in 1..n /\ j = n + 1
        BY <1>1, <1>2, <1>7, <2>2
    <2>3. CASE i = n + 1 /\ j \in 1..n
        BY <1>1, <1>2, <1>7, <2>3
    <2> QED BY <1>3, <2>1, <2>2, <2>3
<1> QED BY <1>1, <1>2, <1>6, <1>7 DEF a, n

\* Kept() has the elements that are in the set, once each if the queue has.
LEMMA KeptFacts ==
    ASSUME NEW T, NEW q \in Seq(T), NEW set
    PROVE  /\ Kept(q, set) \in Seq(T)
           /\ Len(Kept(q, set)) <= Len(q)
           /\ Range(Kept(q, set)) = Range(q) \cap set
           /\ IsInjective(q) => IsInjective(Kept(q, set))
<1> DEFINE n == Len(q)
<1>1. n \in Nat /\ \A i \in 1..n : q[i] \in T
    BY LenProperties, ElementOfSeq
<1>2. PICK f : IsKept(q, set, f) /\ Kept(q, set) = f[n]
    BY <1>1, KeptIs
<1>3. /\ f[0] = <<>>
      /\ \A i \in 1..n : f[i] = IF q[i] \in set THEN Append(f[i - 1], q[i]) ELSE f[i - 1]
    <2>1. \A i \in 0..n : f[i] = IF i = 0 THEN <<>>
                                 ELSE (IF q[i] \in set THEN Append(f[i - 1], q[i]) ELSE f[i - 1])
        BY <1>2, Zenon DEF IsKept
    <2>2. 0 \in 0..n /\ \A i \in 1..n : i \in 0..n /\ i # 0
        BY <1>1
    <2> QED BY <2>1, <2>2
<1> HIDE DEF n
<1> DEFINE Good(i) == /\ f[i] \in Seq(T) /\ Len(f[i]) <= i
                      /\ Range(f[i]) = {q[j] : j \in 1..i} \cap set
                      /\ IsInjective(q) => IsInjective(f[i])
           S == {i \in 0..n : Good(i)}
<1>4. 0 \in S
    <2>1. <<>> \in Seq(T) /\ Len(<<>>) = 0
        BY EmptySeq
    <2>2. Range(<<>>) = {} /\ IsInjective(<<>>)
        <3>1. 1..Len(<<>>) = {}
            BY <2>1
        <3>2. /\ Range(<<>>) = {<<>>[i] : i \in 1..Len(<<>>)}
              /\ IsInjective(<<>>) <=> \A i, j \in 1..Len(<<>>) : <<>>[i] = <<>>[j] => i = j
            BY <2>1, RangeOf, Zenon
        <3> QED BY <3>1, <3>2, Zenon
    <2>3. {q[j] : j \in 1..0} = {}
        OBVIOUS
    <2>4. f[0] = <<>> /\ 0 \in 0..n /\ Len(<<>>) <= 0
        BY <1>1, <1>3, <2>1
    <2> QED BY <2>1, <2>2, <2>3, <2>4, Zenon
<1>5. ASSUME NEW i \in 1..n, i - 1 \in S PROVE i \in S
    <2> DEFINE g == f[i - 1]
    <2>1. Good(i - 1)
        BY <1>5
    <2>2. i - 1 \in Nat /\ i \in Nat /\ i \in 0..n
        BY <1>1
    <2>3. {q[j] : j \in 1..i} = {q[j] : j \in 1..(i - 1)} \cup {q[i]}
        <3>1. \A j \in 1..i : j \in 1..(i - 1) \/ j = i
            BY <2>2
        <3>2. i \in 1..i /\ \A j \in 1..(i - 1) : j \in 1..i
            BY <2>2
        <3> QED BY <3>1, <3>2
    <2>4. CASE q[i] \notin set
        <3>1. f[i] = f[i - 1] /\ i - 1 <= i
            BY <1>3, <2>2, <2>4
        <3>2. Len(f[i]) <= i
            BY <2>1, <2>2, <3>1, LenProperties
        <3> QED BY <2>1, <2>2, <2>3, <2>4, <3>1, <3>2
    <2>5. CASE q[i] \in set
        <3>1. f[i] = Append(f[i - 1], q[i]) /\ q[i] \in T /\ f[i - 1] \in Seq(T)
            BY <1>1, <1>3, <2>1, <2>5
        <3>2. /\ f[i] \in Seq(T) /\ Len(f[i]) = Len(f[i - 1]) + 1
              /\ Range(f[i]) = Range(f[i - 1]) \cup {q[i]}
              /\ IsInjective(f[i - 1]) /\ q[i] \notin Range(f[i - 1]) => IsInjective(f[i])
            BY <3>1, AppendRange
        <3>3. Len(f[i]) <= i
            BY <2>1, <2>2, <3>2, LenProperties
        <3>4. Range(f[i]) = {q[j] : j \in 1..i} \cap set
            BY <2>1, <2>3, <2>5, <3>2
        <3>5. ASSUME IsInjective(q) PROVE q[i] \notin Range(f[i - 1])
            <4>1. \A j \in 1..(i - 1) : j \in 1..n /\ j # i
                BY <1>1, <2>2
            <4>2. \A j \in 1..(i - 1) : q[j] # q[i]
                BY <4>1, <3>5, RangeOf DEF n
            <4> QED BY <2>1, <4>2
        <3> QED BY <2>1, <2>2, <3>2, <3>3, <3>4, <3>5
    <2> QED BY <2>4, <2>5
<1>6. n \in S
    <2>1. \A i \in 1..n : i - 1 \in S => i \in S
        BY <1>5
    <2> HIDE DEF S
    <2>2. 0..n \subseteq S
        BY <1>1, <1>4, <2>1, UpToInduction, Zenon
    <2>3. n \in 0..n
        BY <1>1
    <2> QED BY <2>2, <2>3
<1>7. Good(n)
    BY <1>6
<1>8. Range(q) = {q[j] : j \in 1..n}
    BY RangeOf DEF n
<1> HIDE DEF Good
<1>9. Good(n) /\ Kept(q, set) = f[n]
    BY <1>2, <1>7
<1> QED BY <1>8, <1>9, Zenon DEF Good, n

\* A sequence that has each of its elements once has as many as it is long.
LEMMA RangeSize ==
    ASSUME NEW T, NEW q \in Seq(T), IsInjective(q)
    PROVE  IsFiniteSet(Range(q)) /\ Cardinality(Range(q)) = Len(q)
<1> DEFINE n == Len(q)
           R == Range(q)
<1>1. n \in Nat /\ q \in [1..n -> T] /\ R = {q[i] : i \in 1..n}
    BY LenProperties, RangeOf
<1> HIDE DEF n, R
<1>2. q \in [1..n -> R] /\ \A t \in R : \E i \in 1..n : q[i] = t
    BY <1>1
<1>3. q \in Surjection(1..n, R) /\ q \in Injection(1..n, R)
    BY <1>2, Zenon DEF Surjection, Injection
<1>4. IsFiniteSet(1..n) /\ Cardinality(1..n) = n
    BY <1>1, FS_Interval
<1>5. IsFiniteSet(R) /\ Cardinality(R) = Cardinality(1..n)
    BY <1>3, <1>4, FS_Surjection
<1> QED BY <1>4, <1>5 DEF n, R

(***************************************************************************)
(* The workspace                                                           *)
(***************************************************************************)

\* A sum of so many numbers is no more than so many times their bound.
LEMMA TotalBound ==
    ASSUME NEW C \in Nat, NEW lens, NEW from \in Int, NEW to \in Int, from - 1 <= to,
           \A j \in from..to : lens[j] \in 0..C
    PROVE  /\ Total(lens, from, to) \in Nat
           /\ Total(lens, from, to) <= C * (to - from + 1)
<1> DEFINE n == to - from + 1
<1>1. n \in Nat
    OBVIOUS
<1>2. PICK f : IsSum(lens, from, n, f) /\ Total(lens, from, to) = f[n]
    BY TotalIs
<1>3. \A i \in 0..n : f[i] = IF i = 0 THEN 0 ELSE f[i - 1] + lens[from + i - 1]
    BY <1>2, Zenon DEF IsSum
<1>4. ASSUME NEW i \in 1..n PROVE lens[from + i - 1] \in 0..C
    <2>1. from + i - 1 \in from..to
        BY <1>1
    <2> QED BY <2>1
<1> HIDE DEF n
<1> DEFINE S == {i \in 0..n : f[i] \in Nat /\ f[i] <= C * i}
<1>5. 0 \in S
    <2>1. 0 \in 0..n /\ C * 0 = 0
        BY <1>1
    <2> QED BY <1>3, <2>1
<1>6. ASSUME NEW i \in 1..n, i - 1 \in S PROVE i \in S
    <2>1. i \in 0..n /\ i # 0 /\ i - 1 \in Nat
        BY <1>1
    <2>2. f[i] = f[i - 1] + lens[from + i - 1]
        BY <1>3, <2>1
    <2> DEFINE x == C * (i - 1)
               y == C * i
               l == lens[from + i - 1]
    <2>3. y = x + C /\ x \in Nat
        <3>1. C * ((i - 1) + 1) = C * (i - 1) + C * 1 /\ (i - 1) + 1 = i /\ C * 1 = C
            BY <2>1
        <3>2. C * (i - 1) \in Nat
            BY <2>1
        <3> QED BY <3>1, <3>2
    <2>4. l \in 0..C /\ f[i - 1] \in Nat /\ f[i - 1] <= x
        BY <1>4, <1>6
    <2> HIDE DEF x, y, l
    <2>5. f[i] \in Nat /\ f[i] <= y
        BY <2>2, <2>3, <2>4 DEF l
    <2> QED BY <2>1, <2>5 DEF y
<1>7. 0..n \subseteq S
    <2>1. \A i \in 1..n : i - 1 \in S => i \in S
        BY <1>6
    <2> HIDE DEF S
    <2> QED BY <1>1, <1>5, <2>1, UpToInduction, Zenon
<1>8. f[n] \in Nat /\ f[n] <= C * n
    <2>1. n \in 0..n
        BY <1>1
    <2> QED BY <1>7, <2>1
<1> QED BY <1>2, <1>8 DEF n

\* The end of a chunk, as a maximum.
LEMMA MaxOfRows ==
    ASSUME NEW from \in Nat, NEW n \in Nat, NEW T \in SUBSET (from..n)
    PROVE  /\ Max({from} \cup T) \in {from} \cup T
           /\ \A t \in {from} \cup T : t <= Max({from} \cup T)
<1> DEFINE U == {from} \cup T
           D == {d \in Nat : \E t \in U : d + t = from + n}
<1>1. D # {}
    <2>1. from \in U /\ n \in Nat /\ n + from = from + n
        OBVIOUS
    <2> QED BY <2>1
<1>2. PICK d \in D : \A e \in D : d <= e
    <2>1. D \in SUBSET Nat
        OBVIOUS
    <2> HIDE DEF D
    <2> QED BY <1>1, <2>1, LeastNatural
<1>3. PICK t \in U : d + t = from + n
    BY <1>2
<1>4. \A u \in U : u \in Nat /\ u <= from + n
    OBVIOUS
<1>5. ASSUME NEW u \in U PROVE u <= t
    <2>1. u \in Nat /\ t \in Nat /\ u <= from + n
        BY <1>4
    <2>2. (from + n) - u \in Nat /\ ((from + n) - u) + u = from + n
        BY <2>1
    <2>3. (from + n) - u \in D
        BY <2>2
    <2>4. d <= (from + n) - u
        BY <1>2, <2>3
    <2> QED BY <1>2, <1>3, <2>1, <2>4
<1>6. \E x \in U : \A y \in U : x >= y
    BY <1>5, <1>4
<1>7. Max(U) \in U /\ \A u \in U : Max(U) >= u
    BY <1>6, Zenon DEF Max
<1> QED BY <1>7, <1>4

\* Whether rows can be gathered together.
Together(lens, queries, workspace, from, to) ==
    /\ Total(lens, from, to) <= workspace
    /\ Total(queries, from, to) * Total(lens, from, to) <= MaxLogits

LEMMA EndsIs ==
    ASSUME NEW lens, NEW queries, NEW w
    PROVE  Ends(lens, queries, w) =
              [from \in 1..Len(lens) |->
                  Max({from} \cup {to \in from..Len(lens) :
                                      \A k \in from..to : Together(lens, queries, w, from, k)})]
BY Zenon DEF Ends, Together

\* Workspaces that hold all that there is cut it alike.
LEMMA SameEnds ==
    ASSUME NEW lens, NEW queries, NEW v \in Int, NEW w \in Int,
           \A from, to \in 1..Len(lens) :
              from <= to => /\ Total(lens, from, to) \in Int
                            /\ Total(lens, from, to) <= v
                            /\ Total(lens, from, to) <= w,
           Len(lens) \in Nat
    PROVE  Ends(lens, queries, v) = Ends(lens, queries, w)
<1> DEFINE n == Len(lens)
           T(x, from) == {to \in from..n : \A k \in from..to : Together(lens, queries, x, from, k)}
<1>1. ASSUME NEW from \in 1..n, NEW to \in from..n, NEW k \in from..to
      PROVE  Together(lens, queries, v, from, k) = Together(lens, queries, w, from, k)
    <2>1. k \in 1..n /\ from <= k
        OBVIOUS
    <2>2. (Total(lens, from, k) <= v) = (Total(lens, from, k) <= w)
        BY <2>1
    <2> QED BY <2>2, Zenon DEF Together
<1>2. ASSUME NEW from \in 1..n PROVE T(v, from) = T(w, from)
    <2>1. ASSUME NEW to \in from..n
          PROVE  (\A k \in from..to : Together(lens, queries, v, from, k))
                   <=> (\A k \in from..to : Together(lens, queries, w, from, k))
        BY <1>1, Zenon
    <2> QED BY <2>1, Zenon
<1>3. /\ Ends(lens, queries, v) = [from \in 1..n |-> Max({from} \cup T(v, from))]
      /\ Ends(lens, queries, w) = [from \in 1..n |-> Max({from} \cup T(w, from))]
    BY EndsIs, Zenon
<1> HIDE DEF T
<1> QED BY <1>2, <1>3, Zenon

\* A chunk ends at its first row or at one up to which the rows go together.
LEMMA EndsFacts ==
    ASSUME NEW lens, NEW queries, NEW w, Len(lens) \in Nat, NEW from \in 1..Len(lens)
    PROVE  /\ Ends(lens, queries, w)[from] \in from..Len(lens)
           /\ \/ Ends(lens, queries, w)[from] = from
              \/ Total(lens, from, Ends(lens, queries, w)[from]) <= w
<1> DEFINE n == Len(lens)
           T == {to \in from..n : \A k \in from..to : Together(lens, queries, w, from, k)}
           e == Max({from} \cup T)
<1>1. Ends(lens, queries, w)[from] = e
    BY EndsIs
<1>2. e \in {from} \cup T
    <2>1. T \in SUBSET (from..n) /\ from \in Nat /\ n \in Nat
        OBVIOUS
    <2> HIDE DEF T, n
    <2> QED BY <2>1, MaxOfRows
<1> HIDE DEF e
<1>3. e \in from..n /\ (e = from \/ e \in T)
    BY <1>2
<1>4. e \in T => Total(lens, from, e) <= w
    <2>1. e \in from..e
        BY <1>3
    <2>2. e \in T => Together(lens, queries, w, from, e)
        BY <2>1
    <2> QED BY <2>2 DEF Together
<1> QED BY <1>1, <1>3, <1>4

\* What the chunks of a batch of n rows are.
ChunksOf(n, entries) == [rows : (1..n) \X (1..n), entries : entries, queries : Int \X Int]

\* A piece of a chunk has the entries of all of its rows.
LEMMA CutFacts ==
    ASSUME NEW lens, NEW queries, NEW n \in Nat, NEW from \in 1..n, NEW to \in 1..n, NEW E,
           Total(lens, from, to) \in Nat, Total(lens, from, to) \in E,
           Total(queries, from, to) \in Nat
    PROVE  Cut(lens, queries, from, to) \in Seq(ChunksOf(n, E))
<1> DEFINE m    == Total(queries, from, to)
           t    == Total(lens, from, to)
           most == Max({1, IF t > 0 THEN MaxLogits \div t ELSE m})
           part(k) == [rows |-> <<from, to>>, entries |-> t,
                       queries |-> <<(k - 1) * most, Min({k * most, m})>>]
<1>1. Cut(lens, queries, from, to) = [k \in 1..Cdiv(m, most) |-> part(k)]
    BY Zenon DEF Cut
<1>2. most \in Nat \ {0}
    <2>1. MaxLogits \in Nat
        BY BlocksAssumption
    <2> DEFINE x == IF t > 0 THEN MaxLogits \div t ELSE m
    <2>2. x \in Int /\ most = Max({1, x})
        BY <2>1
    <2> HIDE DEF x, most
    <2>3. Max({1, x}) \in {1, x} /\ Max({1, x}) >= 1
        BY <2>2, MaxOfTwo
    <2> QED BY <2>2, <2>3
<1> HIDE DEF most
<1>3. Cdiv(m, most) \in Nat
    BY <1>2, CdivFacts
<1>4. ASSUME NEW k \in 1..Cdiv(m, most) PROVE part(k) \in ChunksOf(n, E)
    <2>1. k \in Int /\ k - 1 \in Int
        BY <1>3
    <2>2. most * k \in Int /\ most * (k - 1) \in Int
        BY <1>2, <2>1, Multiples
    <2>3. k * most \in Int /\ (k - 1) * most \in Int
        BY <1>2, <2>1, <2>2
    <2>4. Min({k * most, m}) \in Int
        <3> DEFINE y == k * most
        <3>1. y \in Int /\ m \in Int
            BY <2>3
        <3> HIDE DEF y, m
        <3>2. Min({y, m}) \in {y, m}
            BY <3>1, MinOfTwo
        <3> QED BY <3>1, <3>2 DEF y
    <2>5. <<from, to>> \in (1..n) \X (1..n) /\ <<(k - 1) * most, Min({k * most, m})>> \in Int \X Int
        BY <2>3, <2>4, Zenon
    <2> QED BY <2>5 DEF ChunksOf
<1> HIDE DEF part
<1> DEFINE N == Cdiv(m, most)
<1> HIDE DEF N
<1>5. [k \in 1..N |-> part(k)] \in Seq(ChunksOf(n, E))
    BY <1>3, <1>4 DEF N
<1> QED BY <1>1, <1>5 DEF N

\* The chunk that starts with a row ends with that row or a later one.
EndsSound(lens, queries, ends) ==
    /\ \A a \in 1..Len(lens) : ends[a] \in a..Len(lens)
    /\ \A a \in 1..Len(lens) : \A b \in a..Len(lens) :
          Total(lens, a, b) \in Nat /\ Total(queries, a, b) \in Nat

\* A chunk is of the rows from one to where the chunk that starts with it ends.
EntriesTotal(lens, queries, ends) ==
    \A c \in Range(Chunks(lens, queries, ends)) :
        \E a \in 1..Len(lens) : c.entries = Total(lens, a, ends[a])

\* The chunks have the entries of their rows.
LEMMA ChunksFacts ==
    ASSUME NEW lens, NEW queries, NEW ends, Len(lens) \in Nat, EndsSound(lens, queries, ends)
    PROVE  EntriesTotal(lens, queries, ends)
<1> DEFINE n == Len(lens)
<1> HIDE DEF n
<1>1. /\ n \in Nat
      /\ \A a \in 1..n : ends[a] \in a..n
      /\ \A a \in 1..n : \A b \in a..n : Total(lens, a, b) \in Nat /\ Total(queries, a, b) \in Nat
    BY Zenon DEF EndsSound, n
<1> DEFINE E == {Total(lens, a, ends[a]) : a \in 1..n}
           C == ChunksOf(n, E)
<1>2. PICK f : IsCut(lens, queries, ends, f) /\ Chunks(lens, queries, ends) = f[n].chunks
    BY ChunksIs DEF n
<1>3. \A i \in 0..n : f[i] = IF i = 0 THEN [at |-> 1, chunks |-> <<>>]
                             ELSE NextChunk(lens, queries, ends, f[i - 1])
    BY <1>2, Zenon DEF IsCut, n
<1> HIDE DEF C
<1> DEFINE S == {i \in 0..n : f[i].at \in 1..(n + 1) /\ f[i].chunks \in Seq(C)}
<1>4. 0 \in S
    <2>1. 0 \in 0..n /\ 1 \in 1..(n + 1)
        BY <1>1
    <2>2. f[0] = [at |-> 1, chunks |-> <<>>]
        BY <1>3, <2>1
    <2>3. f[0].at = 1 /\ f[0].chunks = <<>>
        BY <2>2
    <2> QED BY <2>1, <2>3, EmptySeq
<1>5. ASSUME NEW i \in 1..n, i - 1 \in S PROVE i \in S
    <2> DEFINE c == f[i - 1]
               a == c.at
    <2>1. i \in 0..n /\ i # 0
        BY <1>1
    <2>2. f[i] = NextChunk(lens, queries, ends, c)
        BY <1>3, <2>1
    <2>3. a \in 1..(n + 1) /\ c.chunks \in Seq(C)
        BY <1>5
    <2>4. CASE a > n
        <3>1. f[i] = c
            BY <2>2, <2>4 DEF NextChunk, n
        <3> QED BY <2>1, <2>3, <3>1
    <2>5. CASE ~ a > n
        <3>1. a \in 1..n
            BY <1>1, <2>3, <2>5
        <3>2. f[i] = [at |-> ends[a] + 1, chunks |-> c.chunks \o Cut(lens, queries, a, ends[a])]
            BY <2>2, <2>5 DEF NextChunk, n
        <3>3. ends[a] \in a..n /\ ends[a] \in 1..n
            <4> HIDE DEF E, a
            <4>1. ends[a] \in a..n
                BY <1>1, <3>1, Zenon
            <4> QED BY <1>1, <3>1, <4>1
        <3>4. Total(lens, a, ends[a]) \in Nat /\ Total(queries, a, ends[a]) \in Nat
            BY <1>1, <3>1, <3>3
        <3>5. Total(lens, a, ends[a]) \in E
            BY <3>1
        <3> HIDE DEF E, a
        <3>6. Cut(lens, queries, a, ends[a]) \in Seq(C)
            BY <1>1, <3>1, <3>3, <3>4, <3>5, CutFacts DEF C
        <3>7. c.chunks \o Cut(lens, queries, a, ends[a]) \in Seq(C)
            BY <2>3, <3>6, ConcatProperties
        <3>8. ends[a] + 1 \in 1..(n + 1)
            BY <1>1, <3>3
        <3>9. f[i].at = ends[a] + 1 /\ f[i].chunks = c.chunks \o Cut(lens, queries, a, ends[a])
            <4> DEFINE x == ends[a] + 1
                       y == c.chunks \o Cut(lens, queries, a, ends[a])
            <4>1. f[i] = [at |-> x, chunks |-> y]
                BY <3>2
            <4> HIDE DEF x, y
            <4>2. f[i].at = x /\ f[i].chunks = y
                BY <4>1
            <4> QED BY <4>2 DEF x, y
        <3> QED BY <2>1, <3>7, <3>8, <3>9
    <2> QED BY <2>4, <2>5
<1>6. 0..n \subseteq S
    <2>1. \A i \in 1..n : i - 1 \in S => i \in S
        BY <1>5
    <2> HIDE DEF S
    <2> QED BY <1>1, <1>4, <2>1, UpToInduction, Zenon
<1>7. f[n].chunks \in Seq(C)
    <2>1. n \in 0..n
        BY <1>1
    <2> QED BY <1>6, <2>1
<1>8. Range(f[n].chunks) \subseteq C
    BY <1>7, RangeOf, Zenon
<1>9. \A c \in C : c.entries \in E
    BY DEF C, ChunksOf
<1>10. \A e \in E : \E a \in 1..n : e = Total(lens, a, ends[a])
    OBVIOUS
<1>11. \A c \in Range(Chunks(lens, queries, ends)) : \E a \in 1..n : c.entries = Total(lens, a, ends[a])
    <2> HIDE DEF E
    <2> QED BY <1>2, <1>8, <1>9, <1>10, Zenon
<1> QED BY <1>11, Zenon DEF EntriesTotal, n

(***************************************************************************)
(* Blocks                                                                  *)
(***************************************************************************)

\* Requests hold different blocks, each block once.
Apart(held) ==
    /\ held \in [Requests -> Seq(1..NumBlocks)]
    /\ \A r \in Requests : IsInjective(held[r])
    /\ \A q, r \in Requests : q # r => Range(held[q]) \cap Range(held[r]) = {}

\* There is a k-th lowest of the blocks that are free.
LEMMA NthFacts ==
    ASSUME NEW free \in SUBSET (1..NumBlocks), NEW k \in 1..Cardinality(free)
    PROVE  /\ Nth(free, k) \in free
           /\ Cardinality(free \cap (1..Nth(free, k))) = k
<1> DEFINE below(b) == free \cap (1..b)
           size(b) == Cardinality(below(b))
           T == {b \in Nat : size(b) >= k}
<1>1. NumBlocks \in Nat
    BY BlocksAssumption
<1>2. IsFiniteSet(free)
    <2>1. IsFiniteSet(1..NumBlocks)
        BY <1>1, FS_Interval
    <2> QED BY <2>1, FS_Subset
<1>3. ASSUME NEW b \in Nat PROVE IsFiniteSet(below(b)) /\ size(b) \in Nat
    <2>1. below(b) \subseteq free
        OBVIOUS
    <2> QED BY <1>2, <2>1, FS_Subset, FS_CardinalityType
<1>4. k \in Nat \ {0}
    BY <1>2, FS_CardinalityType
<1>5. NumBlocks \in T
    <2>1. below(NumBlocks) = free
        OBVIOUS
    <2>2. size(NumBlocks) = Cardinality(free) /\ Cardinality(free) \in Nat
        BY <1>2, <2>1, FS_CardinalityType
    <2>3. Cardinality(free) >= k
        BY <2>2
    <2> QED BY <1>1, <2>2, <2>3
<1>6. PICK b \in T : \A a \in T : b <= a
    <2>1. T \in SUBSET Nat /\ T # {}
        BY <1>5
    <2> HIDE DEF T
    <2> QED BY <2>1, LeastNatural
<1>7. b \in Nat /\ size(b) >= k
    BY <1>6
<1>8. b # 0
    <2>1. ASSUME b = 0 PROVE FALSE
        <3>1. below(b) = {}
            BY <2>1
        <3>2. size(b) = 0
            BY <3>1, FS_EmptySet
        <3> HIDE DEF size
        <3> QED BY <1>4, <1>7, <3>2
    <2> QED BY <2>1
<1>9. b - 1 \in Nat /\ ~ size(b - 1) >= k
    <2>1. b - 1 \in Nat /\ ~ b <= b - 1
        BY <1>7, <1>8
    <2> HIDE DEF size
    <2> QED BY <1>6, <2>1
<1>10. b \in free
    <2>1. ASSUME b \notin free PROVE FALSE
        <3>1. below(b) = below(b - 1)
            BY <1>7, <2>1
        <3>2. size(b) = size(b - 1)
            BY <3>1
        <3> HIDE DEF size
        <3> QED BY <1>7, <1>9, <3>2
    <2> QED BY <2>1
<1>11. size(b) = size(b - 1) + 1
    <2>1. below(b) = below(b - 1) \cup {b} /\ b \notin below(b - 1)
        BY <1>7, <1>8, <1>10
    <2>2. IsFiniteSet(below(b - 1))
        BY <1>3, <1>9
    <2> HIDE DEF below
    <2>3. Cardinality(below(b - 1) \cup {b}) = Cardinality(below(b - 1)) + 1
        BY <2>1, <2>2, FS_AddElement
    <2> QED BY <2>1, <2>3
<1>12. size(b) = k
    <2>1. size(b - 1) \in Nat /\ size(b) \in Nat
        BY <1>3, <1>7, <1>9
    <2> HIDE DEF size
    <2> QED BY <1>4, <1>7, <1>9, <1>11, <2>1
<1>13. \E a \in free : Cardinality(free \cap (1..a)) = k
    BY <1>10, <1>12
<1> QED BY <1>13, Zenon DEF Nth

\* What is needed is more for more tokens.
LEMMA NeedsFacts ==
    ASSUME NEW len \in Nat
    PROVE  /\ Needs(len) \in Nat \ {0}
           /\ \A n \in Nat : len <= n => Needs(len) <= Needs(n)
           /\ len <= BlockSize * (Needs(len) - 1)
<1>1. BlockSize \in Nat \ {0}
    BY BlocksAssumption
<1>2. Cdiv(len, BlockSize) \in Nat /\ len <= BlockSize * Cdiv(len, BlockSize)
    BY <1>1, CdivFacts
<1>3. ASSUME NEW n \in Nat, len <= n PROVE Needs(len) <= Needs(n)
    <2>1. Cdiv(n, BlockSize) \in Nat /\ Cdiv(len, BlockSize) <= Cdiv(n, BlockSize)
        BY <1>1, <1>3, CdivFacts, CdivMonotone
    <2> QED BY <1>2, <2>1 DEF Needs
<1>4. Needs(len) = 1 + Cdiv(len, BlockSize) /\ Needs(len) - 1 = Cdiv(len, BlockSize)
    BY <1>2 DEF Needs
<1> QED BY <1>2, <1>3, <1>4

\* A sequence and another that has nothing of it.
LEMMA ConcatRange ==
    ASSUME NEW T, NEW p \in Seq(T), NEW q \in Seq(T)
    PROVE  /\ p \o q \in Seq(T)
           /\ Len(p \o q) = Len(p) + Len(q)
           /\ Range(p \o q) = Range(p) \cup Range(q)
           /\ IsInjective(p \o q) <=> /\ IsInjective(p) /\ IsInjective(q)
                                      /\ Range(p) \cap Range(q) = {}
<1> DEFINE m == Len(p)
           n == Len(q)
           c == p \o q
<1>1. m \in Nat /\ n \in Nat
    BY LenProperties
<1>2. /\ c \in Seq(T) /\ Len(c) = m + n
      /\ \A i \in 1..(m + n) : c[i] = IF i <= m THEN p[i] ELSE q[i - m]
    BY ConcatProperties
<1>3. /\ Range(c) = {c[i] : i \in 1..(m + n)} /\ Range(p) = {p[i] : i \in 1..m}
      /\ Range(q) = {q[i] : i \in 1..n}
      /\ IsInjective(c) <=> \A i, j \in 1..(m + n) : c[i] = c[j] => i = j
      /\ IsInjective(p) <=> \A i, j \in 1..m : p[i] = p[j] => i = j
      /\ IsInjective(q) <=> \A i, j \in 1..n : q[i] = q[j] => i = j
    BY <1>2, RangeOf
<1> HIDE DEF m, n, c
<1>4. \A i \in 1..m : i \in 1..(m + n) /\ c[i] = p[i]
    BY <1>1, <1>2
<1>5. \A i \in 1..n : m + i \in 1..(m + n) /\ c[m + i] = q[i]
    BY <1>1, <1>2
<1>6. \A i \in 1..(m + n) : i \in 1..m \/ (i - m \in 1..n /\ i = m + (i - m))
    BY <1>1
<1>7. Range(c) = Range(p) \cup Range(q)
    <2>1. \A x \in Range(c) : x \in Range(p) \cup Range(q)
        BY <1>3, <1>4, <1>5, <1>6
    <2>2. \A x \in Range(p) \cup Range(q) : x \in Range(c)
        BY <1>3, <1>4, <1>5
    <2> QED BY <2>1, <2>2
<1>8. ASSUME IsInjective(c)
      PROVE  IsInjective(p) /\ IsInjective(q) /\ Range(p) \cap Range(q) = {}
    <2>1. IsInjective(p)
        BY <1>3, <1>4, <1>8
    <2>2. IsInjective(q)
        <3>1. ASSUME NEW i \in 1..n, NEW j \in 1..n, q[i] = q[j] PROVE i = j
            <4>1. m + i = m + j
                BY <1>3, <1>5, <1>8, <3>1
            <4> QED BY <1>1, <4>1
        <3> QED BY <1>3, <3>1
    <2>3. ASSUME NEW i \in 1..m, NEW j \in 1..n, p[i] = q[j] PROVE FALSE
        <3>1. i = m + j
            BY <1>3, <1>4, <1>5, <1>8, <2>3
        <3> QED BY <1>1, <3>1
    <2> QED BY <1>3, <2>1, <2>2, <2>3
<1>9. ASSUME IsInjective(p), IsInjective(q), Range(p) \cap Range(q) = {}
      PROVE  IsInjective(c)
    <2>1. ASSUME NEW i \in 1..(m + n), NEW j \in 1..(m + n), c[i] = c[j] PROVE i = j
        <3>1. CASE i \in 1..m /\ j \in 1..m
            BY <1>3, <1>4, <1>9, <2>1, <3>1
        <3>2. CASE i \in 1..m /\ j \notin 1..m
            <4>1. c[j] = q[j - m] /\ j - m \in 1..n /\ c[i] = p[i]
                BY <1>4, <1>5, <1>6, <3>2
            <4>2. p[i] \in Range(p) /\ q[j - m] \in Range(q)
                BY <1>3, <3>2, <4>1
            <4> QED BY <1>9, <2>1, <4>1, <4>2
        <3>3. CASE i \notin 1..m /\ j \in 1..m
            <4>1. c[i] = q[i - m] /\ i - m \in 1..n /\ c[j] = p[j]
                BY <1>4, <1>5, <1>6, <3>3
            <4>2. p[j] \in Range(p) /\ q[i - m] \in Range(q)
                BY <1>3, <3>3, <4>1
            <4> QED BY <1>9, <2>1, <4>1, <4>2
        <3>4. CASE i \notin 1..m /\ j \notin 1..m
            <4>1. /\ c[i] = q[i - m] /\ i - m \in 1..n /\ i = m + (i - m)
                  /\ c[j] = q[j - m] /\ j - m \in 1..n /\ j = m + (j - m)
                BY <1>5, <1>6, <3>4
            <4>2. i - m = j - m
                BY <1>3, <1>9, <2>1, <4>1
            <4> QED BY <4>1, <4>2
        <3> QED BY <3>1, <3>2, <3>3, <3>4
    <2> QED BY <1>3, <2>1
<1> QED BY <1>2, <1>7, <1>8, <1>9 DEF c, m, n

\* What a request is given are blocks that no request had.
LEMMA GrownFacts ==
    ASSUME NEW held, Apart(held), NEW r \in Requests, NEW len \in Nat, Fits(held, r, len)
    PROVE  /\ Apart(Grown(held, r, len))
           /\ \A q \in Requests \ {r} : Grown(held, r, len)[q] = held[q]
           /\ Len(Grown(held, r, len)[r]) \in {Len(held[r]), Needs(len)}
           /\ Len(Grown(held, r, len)[r]) >= Needs(len)
           /\ Len(Grown(held, r, len)[r]) >= Len(held[r])
<1> DEFINE free == Free(held)
           more == Needs(len) - Len(held[r])
           new  == [k \in 1..more |-> Nth(free, k)]
           g    == Grown(held, r, len)
<1>1. held \in [Requests -> Seq(1..NumBlocks)] /\ held[r] \in Seq(1..NumBlocks)
    BY DEF Apart
<1>2. g = [held EXCEPT ![r] = held[r] \o new]
    BY Zenon DEF Grown
<1>3. free \in SUBSET (1..NumBlocks) /\ more <= Cardinality(free) /\ more \in Int
    <2>1. free \subseteq 1..NumBlocks
        BY Zenon DEF Free
    <2>2. more <= Cardinality(free)
        BY Zenon DEF Fits
    <2>3. Needs(len) \in Int /\ Len(held[r]) \in Int
        BY <1>1, NeedsFacts, LenProperties
    <2> QED BY <2>1, <2>2, <2>3
<1>4. free \cap Range(held[r]) = {} /\ \A q \in Requests : free \cap Range(held[q]) = {}
    BY DEF Free
<1> HIDE DEF free
<1>5. IsFiniteSet(free) /\ Cardinality(free) \in Nat
    <2>1. NumBlocks \in Int
        BY BlocksAssumption
    <2>2. IsFiniteSet(1..NumBlocks)
        BY <2>1, FS_Interval
    <2>3. IsFiniteSet(free)
        BY <1>3, <2>2, FS_Subset
    <2> QED BY <2>3, FS_CardinalityType
<1> HIDE DEF more
<1>6. ASSUME NEW k \in 1..more
      PROVE  /\ Nth(free, k) \in free
             /\ Cardinality(free \cap (1..Nth(free, k))) = k
    <2>1. k \in 1..Cardinality(free)
        BY <1>3, <1>5
    <2> QED BY <1>3, <2>1, NthFacts
<1>7. new \in Seq(free) /\ \A k \in 1..more : new[k] = Nth(free, k)
    <2> DEFINE N == IF more > 0 THEN more ELSE 0
    <2>1. N \in Nat /\ 1..more = 1..N
        BY <1>3
    <2> HIDE DEF N
    <2>2. new = [k \in 1..N |-> Nth(free, k)]
        BY <2>1, Zenon
    <2>3. \A k \in 1..N : Nth(free, k) \in free
        BY <1>6, <2>1
    <2>4. [k \in 1..N |-> Nth(free, k)] \in Seq(free)
        BY <2>1, <2>3
    <2>5. \A k \in 1..more : new[k] = Nth(free, k)
        OBVIOUS
    <2> QED BY <2>2, <2>4, <2>5, Zenon
<1>8. Len(new) = IF more > 0 THEN more ELSE 0
    <2>1. DOMAIN new = 1..Len(new) /\ Len(new) \in Nat
        BY <1>7, LenProperties
    <2>2. DOMAIN new = 1..more
        OBVIOUS
    <2> HIDE DEF new
    <2>3. \A a \in Nat, b \in Int : 1..a = 1..b => a = IF b > 0 THEN b ELSE 0
        <3>1. ASSUME NEW a \in Nat, NEW b \in Int, 1..a = 1..b PROVE a = IF b > 0 THEN b ELSE 0
            <4>1. a \in 1..a \/ a = 0
                OBVIOUS
            <4>2. b > 0 => b \in 1..b
                OBVIOUS
            <4>3. (a \in 1..b \/ a = 0) /\ (b > 0 => b \in 1..a)
                BY <3>1, <4>1, <4>2
            <4> QED BY <4>3
        <3> QED BY <3>1
    <2> QED BY <1>3, <2>1, <2>2, <2>3
<1> HIDE DEF new
<1>9. Range(new) \subseteq free /\ new \in Seq(1..NumBlocks)
    <2>1. new \in Seq(1..NumBlocks)
        BY <1>3, <1>7, SeqMonotonic
    <2> QED BY <1>7, <2>1, RangeOf
<1>10. IsInjective(new)
    <2>1. ASSUME NEW i \in 1..Len(new), NEW j \in 1..Len(new), new[i] = new[j] PROVE i = j
        <3>1. i \in 1..more /\ j \in 1..more
            BY <1>3, <1>8
        <3>2. Nth(free, i) = Nth(free, j)
            BY <1>7, <2>1, <3>1
        <3> QED BY <1>6, <3>1, <3>2
    <2> QED BY <1>9, <2>1, RangeOf
<1>11. Range(held[r]) \cap Range(new) = {} /\ IsInjective(held[r])
    BY <1>4, <1>9 DEF Apart
<1>12. /\ held[r] \o new \in Seq(1..NumBlocks)
       /\ Len(held[r] \o new) = Len(held[r]) + Len(new)
       /\ Range(held[r] \o new) = Range(held[r]) \cup Range(new)
       /\ IsInjective(held[r] \o new)
    BY <1>1, <1>9, <1>10, <1>11, ConcatRange
<1>13. g[r] = held[r] \o new /\ \A q \in Requests \ {r} : g[q] = held[q]
    BY <1>1, <1>2
<1>14. g \in [Requests -> Seq(1..NumBlocks)]
    BY <1>1, <1>2, <1>12
<1> HIDE DEF g
<1>15. Apart(g)
    <2>1. ASSUME NEW q \in Requests PROVE IsInjective(g[q])
        BY <1>12, <1>13 DEF Apart
    <2>2. ASSUME NEW p \in Requests, NEW q \in Requests, p # q
          PROVE  Range(g[p]) \cap Range(g[q]) = {}
        <3>1. CASE p # r /\ q # r
            BY <1>13, <2>2, <3>1 DEF Apart
        <3>2. CASE p = r
            <4>1. g[q] = held[q] /\ Range(g[p]) = Range(held[r]) \cup Range(new)
                BY <1>12, <1>13, <2>2, <3>2
            <4>2. Range(held[r]) \cap Range(held[q]) = {} /\ Range(new) \cap Range(held[q]) = {}
                BY <1>4, <1>9, <2>2, <3>2 DEF Apart
            <4> QED BY <4>1, <4>2
        <3>3. CASE q = r
            <4>1. g[p] = held[p] /\ Range(g[q]) = Range(held[r]) \cup Range(new)
                BY <1>12, <1>13, <2>2, <3>3
            <4>2. Range(held[r]) \cap Range(held[p]) = {} /\ Range(new) \cap Range(held[p]) = {}
                BY <1>4, <1>9, <2>2, <3>3 DEF Apart
            <4> QED BY <4>1, <4>2
        <3> QED BY <3>1, <3>2, <3>3
    <2> QED BY <1>14, <2>1, <2>2 DEF Apart
<1>16. /\ Len(g[r]) \in {Len(held[r]), Needs(len)}
       /\ Len(g[r]) >= Needs(len) /\ Len(g[r]) >= Len(held[r])
    <2>1. Needs(len) \in Nat /\ Len(held[r]) \in Nat
        BY <1>1, NeedsFacts, LenProperties
    <2>2. Len(g[r]) = Len(held[r]) + Len(new)
        BY <1>12, <1>13
    <2> QED BY <1>8, <2>1, <2>2 DEF more
<1> QED BY <1>13, <1>15, <1>16 DEF g

(***************************************************************************)
(* The state while a step is planned                                       *)
(***************************************************************************)

Fields == {"running", "waiting", "blocks", "computed", "budget", "plan", "preempting", "stopped"}

Here == {r \in Requests : status[r] = "here"}

\* Each request that is here is in one queue, once, and no more run than may.
QueuesOK(run, wait) ==
    /\ run \in Seq(Requests) /\ wait \in Seq(Requests)
    /\ IsInjective(run \o wait)
    /\ Range(run \o wait) = Here
    /\ Len(run) <= MaxSeqs

\* There is always a token to compute for a request that is here.
DoneOK(done) ==
    /\ done \in [Requests -> 0..MaxModelLen]
    /\ \A r \in Requests : IF r \in Here THEN done[r] < length[r] ELSE done[r] = 0

HeldOK(held) == Apart(held) /\ \A r \in Requests : Len(held[r]) <= Needs(MaxModelLen)

\* What is planned fits into the model and into the blocks that are held.
PlanOK(run, done, held, p) ==
    /\ DOMAIN p \subseteq Range(run)
    /\ \A r \in DOMAIN p : /\ p[r] \in 1..Budget
                           /\ done[r] + p[r] < MaxModelLen
                           /\ Needs(done[r] + p[r]) <= Len(held[r])

Sound(s) ==
    /\ DOMAIN s = Fields
    /\ QueuesOK(s.running, s.waiting)
    /\ DoneOK(s.computed)
    /\ HeldOK(s.blocks)
    /\ PlanOK(s.running, s.computed, s.blocks, s.plan)
    /\ s.budget \in Nat
    /\ Cardinality(DOMAIN s.plan) + s.budget <= Budget

\* Of the requests that are here, and of all others.
LengthsOK ==
    /\ status \in [Requests -> {"out", "here", "done"}]
    /\ prompt \in [Requests -> {0} \cup PromptLens]
    /\ length \in [Requests -> 0..MaxModelLen]
    /\ drafts \in [Requests -> 0..NumSpec]
    /\ \A r \in Here : length[r] < MaxModelLen

\* What scheduling changes.
ScheduledTo(s, r, n, t) ==
    /\ DOMAIN t = Fields
    /\ t.running = s.running
    /\ t.waiting = s.waiting
    /\ t.computed = s.computed
    /\ t.preempting = s.preempting
    /\ t.stopped = s.stopped
    /\ t.budget = s.budget - n
    /\ t.blocks = Grown(s.blocks, r, s.computed[r] + n)
    /\ t.plan = [q \in DOMAIN s.plan \cup {r} |-> IF q = r THEN n ELSE s.plan[q]]

LEMMA ScheduledFields ==
    ASSUME NEW s, DOMAIN s = Fields, NEW r, NEW n
    PROVE  ScheduledTo(s, r, n, Scheduled(s, r, n))
<1> DEFINE p == [q \in DOMAIN s.plan \cup {r} |-> IF q = r THEN n ELSE s.plan[q]]
           b == s.budget - n
           g == Grown(s.blocks, r, s.computed[r] + n)
<1>1. Scheduled(s, r, n) = [s EXCEPT !.plan = p, !.budget = b, !.blocks = g]
    BY Zenon DEF Scheduled
<1> HIDE DEF p, b, g
<1>2. /\ DOMAIN Scheduled(s, r, n) = Fields
      /\ Scheduled(s, r, n).running = s.running
      /\ Scheduled(s, r, n).waiting = s.waiting
      /\ Scheduled(s, r, n).computed = s.computed
      /\ Scheduled(s, r, n).preempting = s.preempting
      /\ Scheduled(s, r, n).stopped = s.stopped
      /\ Scheduled(s, r, n).budget = b
      /\ Scheduled(s, r, n).blocks = g
      /\ Scheduled(s, r, n).plan = p
    BY <1>1 DEF Fields
<1> QED BY <1>2, Zenon DEF ScheduledTo, p, b, g

\* Who stays and who goes, of those that run, if the last n go.
Stay(s, n) == SubSeq(s.running, 1, Len(s.running) - n)
Gone(s, n) == SubSeq(s.running, Len(Stay(s, n)) + 1, Len(s.running))
Waits(s, n) == Gone(s, n) \o s.waiting

\* What preempting changes.
PreemptedTo(s, n, t) ==
    /\ DOMAIN t = Fields
    /\ t.running = Stay(s, n)
    /\ t.waiting = Waits(s, n)
    /\ t.computed = [r \in Requests |-> IF r \in Range(Gone(s, n)) THEN 0 ELSE s.computed[r]]
    /\ t.blocks = [r \in Requests |-> IF r \in Range(Gone(s, n)) THEN <<>> ELSE s.blocks[r]]
    /\ t.stopped = s.stopped
    /\ t.budget = s.budget
    /\ t.plan = s.plan
    /\ t.preempting = (s.preempting \/ n > 0)

LEMMA PreemptedFields ==
    ASSUME NEW s, DOMAIN s = Fields, NEW n
    PROVE  PreemptedTo(s, n, Preempted(s, n))
<1> DEFINE stay == Stay(s, n)
           gone == Gone(s, n)
           w == Waits(s, n)
           b == [r \in Requests |-> IF r \in Range(gone) THEN <<>> ELSE s.blocks[r]]
           c == [r \in Requests |-> IF r \in Range(gone) THEN 0 ELSE s.computed[r]]
           e == s.preempting \/ n > 0
<1>1. Preempted(s, n) = [s EXCEPT !.running = stay, !.waiting = w, !.blocks = b, !.computed = c,
                                  !.preempting = e]
    BY Zenon DEF Preempted, Stay, Gone, Waits
<1> HIDE DEF w, b, c, e, stay
<1>2. /\ DOMAIN Preempted(s, n) = Fields
      /\ Preempted(s, n).running = stay
      /\ Preempted(s, n).waiting = w
      /\ Preempted(s, n).computed = c
      /\ Preempted(s, n).blocks = b
      /\ Preempted(s, n).stopped = s.stopped
      /\ Preempted(s, n).budget = s.budget
      /\ Preempted(s, n).plan = s.plan
      /\ Preempted(s, n).preempting = e
    BY <1>1 DEF Fields
<1> QED BY <1>2, Zenon DEF PreemptedTo, w, b, c, e, stay

\* Who still waits, and what is computed, when r has joined those that run.
Left(s, r) == Kept(s.waiting, Requests \ {r})
Hit(s, r, hit) == [s.computed EXCEPT ![r] = hit]

\* What joining those that run changes.
JoinedTo(s, r, hit, t) ==
    /\ DOMAIN t = Fields
    /\ t.running = Append(s.running, r)
    /\ t.waiting = Left(s, r)
    /\ t.computed = Hit(s, r, hit)
    /\ t.blocks = s.blocks
    /\ t.stopped = s.stopped
    /\ t.preempting = s.preempting
    /\ t.budget = s.budget
    /\ t.plan = s.plan

LEMMA JoinedFields ==
    ASSUME NEW s, DOMAIN s = Fields, NEW r, NEW hit
    PROVE  JoinedTo(s, r, hit, Joined(s, r, hit))
<1> DEFINE a == Append(s.running, r)
           w == Left(s, r)
           c == Hit(s, r, hit)
<1>1. Joined(s, r, hit) = [s EXCEPT !.running = a, !.waiting = w, !.computed = c]
    BY Zenon DEF Joined, Left, Hit
<1> HIDE DEF a, w, c
<1>2. /\ DOMAIN Joined(s, r, hit) = Fields
      /\ Joined(s, r, hit).running = a
      /\ Joined(s, r, hit).waiting = w
      /\ Joined(s, r, hit).computed = c
      /\ Joined(s, r, hit).blocks = s.blocks
      /\ Joined(s, r, hit).stopped = s.stopped
      /\ Joined(s, r, hit).preempting = s.preempting
      /\ Joined(s, r, hit).budget = s.budget
      /\ Joined(s, r, hit).plan = s.plan
    BY <1>1 DEF Fields
<1> QED BY <1>2, Zenon DEF JoinedTo, a, w, c

\* A loop ends for good.
LEMMA StoppedFields ==
    ASSUME NEW s, DOMAIN s = Fields
    PROVE  /\ DOMAIN [s EXCEPT !.stopped = TRUE] = Fields
           /\ [s EXCEPT !.stopped = TRUE].running = s.running
           /\ [s EXCEPT !.stopped = TRUE].waiting = s.waiting
           /\ [s EXCEPT !.stopped = TRUE].computed = s.computed
           /\ [s EXCEPT !.stopped = TRUE].blocks = s.blocks
           /\ [s EXCEPT !.stopped = TRUE].preempting = s.preempting
           /\ [s EXCEPT !.stopped = TRUE].budget = s.budget
           /\ [s EXCEPT !.stopped = TRUE].plan = s.plan
BY DEF Fields

\* What the queues' parts are.
LEMMA QueueParts ==
    ASSUME NEW run, NEW wait, QueuesOK(run, wait)
    PROVE  /\ IsInjective(run) /\ IsInjective(wait)
           /\ Range(run) \cap Range(wait) = {}
           /\ Range(run) \cup Range(wait) = Here
           /\ Len(run) \in Nat /\ Len(wait) \in Nat
           /\ Range(run) \subseteq Requests /\ Range(wait) \subseteq Requests
           /\ IsFiniteSet(Range(run))
<1>1. run \in Seq(Requests) /\ wait \in Seq(Requests) /\ IsInjective(run \o wait) /\ Range(run \o wait) = Here
    BY DEF QueuesOK
<1>2. IsInjective(run) /\ IsInjective(wait) /\ Range(run) \cap Range(wait) = {}
      /\ Range(run) \cup Range(wait) = Here
    BY <1>1, ConcatRange
<1>3. Len(run) \in Nat /\ Len(wait) \in Nat
    BY <1>1, LenProperties
<1>4. Range(run) \subseteq Requests /\ Range(wait) \subseteq Requests
    BY <1>1, RangeOf
<1>5. IsFiniteSet(Range(run))
    BY <1>1, <1>2, RangeSize
<1> QED BY <1>2, <1>3, <1>4, <1>5

\* Scheduling a request that runs keeps the state sound.
LEMMA ScheduledSound ==
    ASSUME LengthsOK, NEW s, Sound(s), NEW r \in Range(s.running), r \notin DOMAIN s.plan,
           NEW n \in Nat \ {0}, n <= s.budget, s.computed[r] + n < MaxModelLen,
           Fits(s.blocks, r, s.computed[r] + n)
    PROVE  Sound(Scheduled(s, r, n))
<1> DEFINE t == Scheduled(s, r, n)
           len == s.computed[r] + n
           g == Grown(s.blocks, r, len)
           p == [q \in DOMAIN s.plan \cup {r} |-> IF q = r THEN n ELSE s.plan[q]]
<1>1. /\ DOMAIN t = Fields /\ t.running = s.running /\ t.waiting = s.waiting
      /\ t.computed = s.computed /\ t.budget = s.budget - n /\ t.blocks = g /\ t.plan = p
    <2>1. DOMAIN s = Fields
        BY DEF Sound
    <2>2. ScheduledTo(s, r, n, t)
        BY <2>1, ScheduledFields
    <2> HIDE DEF t
    <2> QED BY <2>2, Zenon DEF ScheduledTo
<1>2. /\ QueuesOK(s.running, s.waiting) /\ DoneOK(s.computed) /\ HeldOK(s.blocks)
      /\ PlanOK(s.running, s.computed, s.blocks, s.plan)
      /\ s.budget \in Nat /\ Cardinality(DOMAIN s.plan) + s.budget <= Budget
    BY DEF Sound
<1> HIDE DEF t
<1>3. r \in Requests /\ s.computed \in [Requests -> 0..MaxModelLen]
    BY <1>2, QueueParts DEF DoneOK
<1>4. MaxModelLen \in Nat
    BY BudgetAssumption
<1>5. len \in Nat /\ len <= MaxModelLen
    BY <1>3, <1>4
<1> HIDE DEF len
<1>6. Apart(s.blocks) /\ \A q \in Requests : Len(s.blocks[q]) <= Needs(MaxModelLen)
    BY <1>2 DEF HeldOK
<1>7. /\ Apart(g) /\ \A q \in Requests \ {r} : g[q] = s.blocks[q]
      /\ Len(g[r]) \in {Len(s.blocks[r]), Needs(len)}
      /\ Len(g[r]) >= Needs(len)
    BY <1>3, <1>5, <1>6, GrownFacts DEF len
<1> HIDE DEF g
<1>8. Needs(len) <= Needs(MaxModelLen)
    BY <1>4, <1>5, NeedsFacts
<1>9. HeldOK(t.blocks)
    BY <1>1, <1>3, <1>6, <1>7, <1>8 DEF HeldOK
<1>10. IsFiniteSet(DOMAIN s.plan)
    <2>1. DOMAIN s.plan \subseteq Range(s.running) /\ IsFiniteSet(Range(s.running))
        BY <1>2, QueueParts DEF PlanOK
    <2> QED BY <2>1, FS_Subset
<1>11. Cardinality(DOMAIN t.plan) = Cardinality(DOMAIN s.plan) + 1 /\ Cardinality(DOMAIN s.plan) \in Nat
    <2>1. DOMAIN p = DOMAIN s.plan \cup {r}
        OBVIOUS
    <2> QED BY <1>1, <1>10, <2>1, FS_AddElement, FS_CardinalityType
<1>12. t.budget \in Nat /\ Cardinality(DOMAIN t.plan) + t.budget <= Budget
    <2>1. Budget \in Nat
        BY BudgetAssumption
    <2> QED BY <1>1, <1>2, <1>11, <2>1
<1>13. n \in 1..Budget
    <2>1. Budget \in Nat
        BY BudgetAssumption
    <2> QED BY <1>2, <1>11, <2>1
<1>14. PlanOK(t.running, t.computed, t.blocks, t.plan)
    <2>1. DOMAIN p \subseteq Range(s.running)
        BY <1>2 DEF PlanOK
    <2>2. ASSUME NEW q \in DOMAIN p
          PROVE  /\ p[q] \in 1..Budget
                 /\ s.computed[q] + p[q] < MaxModelLen
                 /\ Needs(s.computed[q] + p[q]) <= Len(g[q])
        <3>1. CASE q = r
            <4>1. p[q] = n /\ s.computed[q] + p[q] = len
                BY <3>1 DEF len
            <4>2. Len(g[r]) \in Int /\ Needs(len) \in Int
                <5>1. g[r] \in Seq(1..NumBlocks)
                    BY <1>3, <1>7 DEF Apart
                <5> QED BY <1>5, <5>1, LenProperties, NeedsFacts
            <4>3. len < MaxModelLen
                BY DEF len
            <4> HIDE DEF p
            <4> QED BY <1>7, <1>13, <3>1, <4>1, <4>2, <4>3
        <3>2. CASE q # r
            <4>1. q \in DOMAIN s.plan /\ p[q] = s.plan[q]
                BY <3>2
            <4>2. q \in Requests \ {r}
                BY <1>2, <3>2, <4>1, QueueParts DEF PlanOK
            <4> HIDE DEF p
            <4> QED BY <1>2, <1>7, <4>1, <4>2 DEF PlanOK
        <3> QED BY <3>1, <3>2
    <2> HIDE DEF p
    <2> QED BY <1>1, <2>1, <2>2 DEF PlanOK
<1> QED BY <1>1, <1>2, <1>9, <1>12, <1>14 DEF Sound, t

\* Preempting the last k of those that run keeps the state sound, if what is
\* planned is of others; no request leaves its place in the two queues.
LEMMA PreemptedSound ==
    ASSUME LengthsOK, NEW s, Sound(s), NEW k \in 0..Len(s.running),
           \A r \in DOMAIN s.plan : \E j \in 1..(Len(s.running) - k) : r = s.running[j]
    PROVE  /\ Sound(Preempted(s, k))
           /\ Preempted(s, k).running \o Preempted(s, k).waiting = s.running \o s.waiting
           /\ Len(Preempted(s, k).running) = Len(s.running) - k
           /\ \A j \in 1..(Len(s.running) - k) : Preempted(s, k).running[j] = s.running[j]
           /\ \A r \in Range(Preempted(s, k).running) :
                 r \in Range(s.running) /\ Preempted(s, k).computed[r] = s.computed[r]
           /\ k = 0 => Preempted(s, k).running = s.running /\ Preempted(s, k).waiting = s.waiting
<1> DEFINE t == Preempted(s, k)
           m == Len(s.running)
           stay == Stay(s, k)
           gone == Gone(s, k)
           b == [r \in Requests |-> IF r \in Range(gone) THEN <<>> ELSE s.blocks[r]]
           c == [r \in Requests |-> IF r \in Range(gone) THEN 0 ELSE s.computed[r]]
<1>1. /\ DOMAIN t = Fields /\ t.running = stay /\ t.waiting = gone \o s.waiting
      /\ t.computed = c /\ t.blocks = b /\ t.budget = s.budget /\ t.plan = s.plan
    <2>1. DOMAIN s = Fields
        BY DEF Sound
    <2>2. PreemptedTo(s, k, t)
        BY <2>1, PreemptedFields
    <2> HIDE DEF t
    <2>3. DOMAIN t = Fields /\ t.running = stay /\ t.waiting = Waits(s, k)
        BY <2>2, Zenon DEF PreemptedTo
    <2>4. t.computed = c /\ t.blocks = b
        BY <2>2, Zenon DEF PreemptedTo
    <2>5. t.budget = s.budget /\ t.plan = s.plan
        BY <2>2, Zenon DEF PreemptedTo
    <2>6. t.waiting = gone \o s.waiting
        BY <2>3, Zenon DEF Waits
    <2> HIDE DEF t, stay, b, c
    <2> QED BY <2>3, <2>4, <2>5, <2>6
<1>2. /\ QueuesOK(s.running, s.waiting) /\ DoneOK(s.computed) /\ HeldOK(s.blocks)
      /\ PlanOK(s.running, s.computed, s.blocks, s.plan)
      /\ s.budget \in Nat /\ Cardinality(DOMAIN s.plan) + s.budget <= Budget
    BY DEF Sound
<1> HIDE DEF t
<1>3. /\ s.running \in Seq(Requests) /\ s.waiting \in Seq(Requests) /\ m \in Nat
      /\ IsInjective(s.running)
    BY <1>2, QueueParts DEF QueuesOK
<1>4. \A i \in 1..m : s.running[i] \in Requests
    BY <1>3, ElementOfSeq
<1>5. /\ stay \in Seq(Requests) /\ Len(stay) = m - k
      /\ \A j \in 1..(m - k) : stay[j] = s.running[j]
    <2>1. m - k \in Int /\ \A i \in 1..(m - k) : s.running[i] \in Requests
        BY <1>3, <1>4
    <2> DEFINE u == SubSeq(s.running, 1, m - k)
    <2>2. /\ u \in Seq(Requests)
          /\ Len(u) = IF 1 <= m - k THEN m - k - 1 + 1 ELSE 0
          /\ \A i \in 1..(m - k - 1 + 1) : u[i] = s.running[1 + i - 1]
        BY <2>1, SubSeqProperties
    <2>5. stay = u
        BY Zenon DEF Stay
    <2>7. k \in Nat /\ k <= m
        BY <1>3
    <2> HIDE DEF stay, m, u
    <2>3. Len(u) = m - k
        BY <1>3, <2>2, <2>7
    <2>4. \A j \in 1..(m - k) : j \in 1..(m - k - 1 + 1) /\ 1 + j - 1 = j
        BY <1>3
    <2>6. \A j \in 1..(m - k) : u[j] = s.running[j]
        BY <2>2, <2>4
    <2> QED BY <2>2, <2>3, <2>5, <2>6
<1>6. gone = SubSeq(s.running, (m - k) + 1, m) /\ gone \in Seq(Requests)
    <2>1. gone = SubSeq(s.running, (m - k) + 1, m)
        BY <1>5, Zenon DEF Gone
    <2>2. (m - k) + 1 \in Int /\ m \in Int /\ \A i \in ((m - k) + 1)..m : s.running[i] \in Requests
        BY <1>3, <1>4
    <2> QED BY <2>1, <2>2, SubSeqProperties
<1>7. stay \o gone = s.running
    <2>1. /\ 1 \in 1..(Len(s.running) + 1) /\ m - k \in (1 - 1)..Len(s.running)
          /\ m \in (m - k)..Len(s.running)
        BY <1>3
    <2>2. SubSeq(s.running, 1, m - k) \o SubSeq(s.running, (m - k) + 1, m) = SubSeq(s.running, 1, m)
        BY <1>3, <2>1, ConcatAdjacentSubSeq
    <2>3. SubSeq(s.running, 1, m) = s.running
        BY <1>3, SubSeqFull
    <2>4. stay = SubSeq(s.running, 1, m - k)
        BY Zenon DEF Stay
    <2> QED BY <1>6, <2>2, <2>3, <2>4
<1> HIDE DEF stay, gone
<1>8. t.running \o t.waiting = s.running \o s.waiting /\ t.waiting \in Seq(Requests)
    <2>1. (stay \o gone) \o s.waiting = stay \o (gone \o s.waiting)
        <3>1. stay \in Seq(Requests) /\ gone \in Seq(Requests) /\ s.waiting \in Seq(Requests)
            BY <1>3, <1>5, <1>6
        <3>2. ASSUME NEW x \in Seq(Requests), NEW y \in Seq(Requests), NEW z \in Seq(Requests)
              PROVE  (x \o y) \o z = x \o (y \o z)
            BY ConcatAssociative
        <3> QED BY <3>1, <3>2, Zenon
    <2>2. gone \o s.waiting \in Seq(Requests)
        BY <1>3, <1>6, ConcatProperties
    <2> QED BY <1>1, <1>7, <2>1, <2>2, Zenon
<1>9. /\ IsInjective(stay) /\ IsInjective(gone) /\ Range(stay) \cap Range(gone) = {}
      /\ Range(stay) \cup Range(gone) = Range(s.running)
    <2>1. IsInjective(stay \o gone) /\ Range(stay \o gone) = Range(s.running)
        BY <1>3, <1>7, Zenon
    <2>2. stay \in Seq(Requests) /\ gone \in Seq(Requests)
        BY <1>5, <1>6
    <2> QED BY <2>1, <2>2, ConcatRange, Zenon
<1>10. QueuesOK(t.running, t.waiting)
    <2>1. Len(t.running) <= MaxSeqs
        <3>1. MaxSeqs \in Nat /\ m <= MaxSeqs
            BY <1>2, BudgetAssumption DEF QueuesOK
        <3> QED BY <1>1, <1>3, <1>5, <3>1
    <2> QED BY <1>1, <1>2, <1>5, <1>8, <2>1 DEF QueuesOK
<1>11. Range(gone) \subseteq Here /\ Range(s.running) \subseteq Requests
    BY <1>2, <1>9, QueueParts
<1>12. DoneOK(t.computed)
    <2>1. \A r \in Here : r \in Requests /\ length[r] \in 0..MaxModelLen
        BY DEF LengthsOK, Here
    <2>2. s.computed \in [Requests -> 0..MaxModelLen] /\ MaxModelLen \in Nat
        BY <1>2, BudgetAssumption DEF DoneOK
    <2>3. c \in [Requests -> 0..MaxModelLen]
        BY <2>2
    <2>4. ASSUME NEW r \in Requests
          PROVE  IF r \in Here THEN c[r] < length[r] ELSE c[r] = 0
        <3>1. IF r \in Here THEN s.computed[r] < length[r] ELSE s.computed[r] = 0
            BY <1>2 DEF DoneOK
        <3>2. c[r] = IF r \in Range(gone) THEN 0 ELSE s.computed[r]
            OBVIOUS
        <3> HIDE DEF c
        <3> QED BY <2>1, <2>2, <3>1, <3>2
    <2> HIDE DEF c
    <2> QED BY <1>1, <2>3, <2>4 DEF DoneOK
<1>13. HeldOK(t.blocks)
    <2>1. <<>> \in Seq(1..NumBlocks) /\ Len(<<>>) = 0 /\ IsInjective(<<>>) /\ Range(<<>>) = {}
        <3>1. <<>> \in Seq(1..NumBlocks) /\ Len(<<>>) = 0
            BY EmptySeq
        <3>2. DOMAIN <<>> = {}
            BY <3>1, LenProperties
        <3> QED BY <3>1, <3>2 DEF IsInjective, Range
    <2>2. /\ s.blocks \in [Requests -> Seq(1..NumBlocks)]
          /\ \A r \in Requests : IsInjective(s.blocks[r])
          /\ \A q, r \in Requests : q # r => Range(s.blocks[q]) \cap Range(s.blocks[r]) = {}
          /\ \A r \in Requests : Len(s.blocks[r]) <= Needs(MaxModelLen)
        BY <1>2 DEF HeldOK, Apart
    <2>3. \A r \in Requests : b[r] = <<>> \/ b[r] = s.blocks[r]
        OBVIOUS
    <2>4. b \in [Requests -> Seq(1..NumBlocks)]
        BY <2>1, <2>2
    <2>5. 0 <= Needs(MaxModelLen)
        BY BudgetAssumption, NeedsFacts
    <2> HIDE DEF b
    <2>6. \A r \in Requests : IsInjective(b[r]) /\ Len(b[r]) <= Needs(MaxModelLen)
        BY <2>1, <2>2, <2>3, <2>5
    <2>7. \A q, r \in Requests : q # r => Range(b[q]) \cap Range(b[r]) = {}
        BY <2>1, <2>2, <2>3
    <2> QED BY <1>1, <2>4, <2>6, <2>7 DEF HeldOK, Apart
<1>14. ASSUME NEW r \in Range(stay)
       PROVE  r \in Range(s.running) /\ c[r] = s.computed[r] /\ b[r] = s.blocks[r]
    BY <1>9, <1>11
<1>15. PlanOK(t.running, t.computed, t.blocks, t.plan)
    <2>1. ASSUME NEW r \in DOMAIN s.plan PROVE r \in Range(stay)
        <3>1. PICK j \in 1..(m - k) : r = s.running[j]
            OBVIOUS
        <3>2. Range(stay) = {stay[i] : i \in 1..Len(stay)}
            BY <1>5, RangeOf
        <3> QED BY <1>5, <3>1, <3>2
    <2> HIDE DEF b, c
    <2> QED BY <1>1, <1>2, <1>14, <2>1 DEF PlanOK
<1>16. k = 0 => t.running = s.running /\ t.waiting = s.waiting
    <2>1. ASSUME k = 0 PROVE t.running = s.running /\ t.waiting = s.waiting
        <3>1. m - k = m
            BY <1>3, <2>1
        <3>2. stay = s.running
            <4>1. stay = SubSeq(s.running, 1, m - k)
                BY Zenon DEF Stay, stay
            <4> QED BY <1>3, <3>1, <4>1, SubSeqFull
        <3>3. gone = <<>>
            <4>1. stay \o gone = stay
                BY <1>7, <3>2, Zenon
            <4>2. stay \in Seq(Requests) /\ gone \in Seq(Requests)
                BY <1>5, <1>6
            <4> QED BY <4>1, <4>2, ConcatEqualIffEmpty
        <3> QED BY <1>1, <1>3, <3>2, <3>3, ConcatEmptySeq
    <2> QED BY <2>1
<1>17. Sound(t)
    BY <1>1, <1>2, <1>10, <1>12, <1>13, <1>15 DEF Sound
<1> HIDE DEF b, c, m
<1>18. /\ Len(t.running) = m - k /\ \A j \in 1..(m - k) : t.running[j] = s.running[j]
       /\ \A r \in Range(t.running) : r \in Range(s.running) /\ t.computed[r] = s.computed[r]
    BY <1>1, <1>5, <1>14
<1> QED BY <1>8, <1>16, <1>17, <1>18 DEF t, m

\* Joining those that run keeps the state sound.
LEMMA JoinedSound ==
    ASSUME LengthsOK, NEW s, Sound(s), NEW r \in Range(s.waiting), NEW hit \in Nat,
           hit < length[r], Len(s.running) # MaxSeqs
    PROVE  /\ Sound(Joined(s, r, hit))
           /\ Range(Joined(s, r, hit).running) = Range(s.running) \cup {r}
           /\ Range(Joined(s, r, hit).waiting) = Range(s.waiting) \ {r}
<1> DEFINE t == Joined(s, r, hit)
           a == Append(s.running, r)
           w == Left(s, r)
           c == Hit(s, r, hit)
<1>1. /\ DOMAIN t = Fields /\ t.running = a /\ t.waiting = w /\ t.computed = c
      /\ t.blocks = s.blocks /\ t.budget = s.budget /\ t.plan = s.plan
    <2>1. DOMAIN s = Fields
        BY DEF Sound
    <2>2. JoinedTo(s, r, hit, t)
        BY <2>1, JoinedFields
    <2> HIDE DEF t
    <2> QED BY <2>2, Zenon DEF JoinedTo
<1>2. /\ QueuesOK(s.running, s.waiting) /\ DoneOK(s.computed) /\ HeldOK(s.blocks)
      /\ PlanOK(s.running, s.computed, s.blocks, s.plan)
      /\ s.budget \in Nat /\ Cardinality(DOMAIN s.plan) + s.budget <= Budget
    BY DEF Sound
<1> HIDE DEF t
<1>3. /\ s.running \in Seq(Requests) /\ s.waiting \in Seq(Requests)
      /\ IsInjective(s.running) /\ IsInjective(s.waiting)
      /\ Range(s.running) \cap Range(s.waiting) = {}
      /\ Range(s.running) \cup Range(s.waiting) = Here
      /\ Range(s.waiting) \subseteq Requests /\ Len(s.running) \in Nat
    BY <1>2, QueueParts DEF QueuesOK
<1>4. r \in Requests /\ r \in Here /\ r \notin Range(s.running)
    BY <1>3
<1>5. /\ a \in Seq(Requests) /\ Len(a) = Len(s.running) + 1
      /\ Range(a) = Range(s.running) \cup {r} /\ IsInjective(a)
    BY <1>3, <1>4, AppendRange
<1>6. /\ w \in Seq(Requests) /\ Range(w) = Range(s.waiting) \ {r} /\ IsInjective(w)
    <2>1. w \in Seq(Requests) /\ Range(w) = Range(s.waiting) \cap (Requests \ {r}) /\ IsInjective(w)
        BY <1>3, KeptFacts DEF Left
    <2> QED BY <1>3, <2>1
<1> HIDE DEF a, w
<1>7. QueuesOK(t.running, t.waiting)
    <2>1. Range(a) \cap Range(w) = {} /\ Range(a) \cup Range(w) = Here
        BY <1>3, <1>4, <1>5, <1>6
    <2>2. IsInjective(a \o w) /\ Range(a \o w) = Here
        BY <1>5, <1>6, <2>1, ConcatRange
    <2>3. Len(a) <= MaxSeqs
        <3>1. Len(s.running) <= MaxSeqs /\ MaxSeqs \in Nat
            BY <1>2, BudgetAssumption DEF QueuesOK
        <3> QED BY <1>3, <1>5, <3>1
    <2> QED BY <1>1, <1>5, <1>6, <2>2, <2>3 DEF QueuesOK
<1>8. c[r] = hit /\ \A q \in Requests \ {r} : c[q] = s.computed[q]
    BY <1>2, <1>4 DEF DoneOK, Hit
<1>9. DoneOK(t.computed)
    <2>1. length[r] \in 0..MaxModelLen /\ MaxModelLen \in Nat
        BY <1>4, BudgetAssumption DEF LengthsOK
    <2>2. c \in [Requests -> 0..MaxModelLen]
        BY <1>2, <1>4, <2>1 DEF DoneOK, Hit
    <2> HIDE DEF c
    <2> QED BY <1>1, <1>2, <1>4, <1>8, <2>2 DEF DoneOK
<1>10. PlanOK(t.running, t.computed, t.blocks, t.plan)
    <2>1. \A q \in DOMAIN s.plan : q \in Range(s.running) /\ q \in Requests \ {r}
        BY <1>2, <1>4, QueueParts DEF PlanOK
    <2> HIDE DEF c
    <2> QED BY <1>1, <1>2, <1>5, <1>8, <2>1 DEF PlanOK
<1>11. Sound(t)
    BY <1>1, <1>2, <1>7, <1>9, <1>10 DEF Sound
<1> QED BY <1>1, <1>5, <1>6, <1>11 DEF t

(***************************************************************************)
(* The loop over the requests that run                                     *)
(***************************************************************************)

Most == Max({Cap, 1 + NumSpec})

\* Where what the floor promises the decodes is promised.
Enough == CaughtUp /\ Len(running) * Most <= Budget

SameDone(s) == \A r \in Range(s.running) : r \in Range(running) => s.computed[r] = computed[r]

\* What has been planned beside a decode is no more of a prompt than the cap.
FloorA(s) ==
    \A r \in Requests : Decoding(r) /\ r \in Range(s.running) =>
        \A q \in DOMAIN s.plan \ {r} : s.computed[q] < prompt[q] => s.plan[q] <= Cap

\* The decodes that have been planned have what they want ...
FloorB(s) == Enough => \A r \in DOMAIN s.plan : Decoding(r) => s.plan[r] = Wants(r)

\* ... and for each of the others the most that one takes is left.
Room(i, s) ==
    Enough => \A j \in (i + 1)..Len(s.running) : Decoding(running[j]) => s.budget >= Budget - Most * i

\* After i turns.
First(i, s) ==
    /\ Sound(s)
    /\ s.running \o s.waiting = running \o waiting
    /\ Len(s.running) <= Len(running)
    /\ \A j \in 1..Len(s.running) : s.running[j] = running[j]
    /\ \A r \in DOMAIN s.plan : \E j \in 1..i : r = running[j]
    /\ s.preempting \/ (s.running = running /\ s.waiting = waiting)
    /\ SameDone(s) /\ FloorA(s) /\ FloorB(s) /\ Room(i, s)

\* Where a step starts.
Before == LengthsOK /\ QueuesOK(running, waiting) /\ DoneOK(computed) /\ HeldOK(blocks)

LEMMA CapFacts ==
    /\ Cap \in Nat /\ NoCap \in Nat
    /\ Most \in Nat /\ Cap <= Most /\ 1 + NumSpec <= Most
<1>1. Budget \in Nat /\ NumSpec \in Nat
    BY BudgetAssumption
<1>2. \A v \in DOMAIN IntOf : IntOf[v] \in Int
    BY IntAssumption
<1>3. Cap \in Nat /\ NoCap \in Nat
    BY <1>1, <1>2 DEF Cap, NoCap
<1>4. Most \in {Cap, 1 + NumSpec} /\ Most >= Cap /\ Most >= 1 + NumSpec
    BY <1>1, <1>3, MaxOfTwo DEF Most
<1> QED BY <1>1, <1>3, <1>4

\* The policy's caps.
LEMMA PolicyFacts ==
    ASSUME NEW peers, NEW done, NEW r
    PROVE  /\ MixedPrefillPolicy(peers, done, r) \in Nat
           /\ \A p \in Range(peers) \ {r} :
                 done[p] >= prompt[p] => MixedPrefillPolicy(peers, done, r) = Cap
BY CapFacts DEF MixedPrefillPolicy

\* What a request may be given of a step.
LEMMA ShareFacts ==
    ASSUME Before, NEW s, Sound(s), SameDone(s), NEW r \in Range(s.running), r \in Range(running),
           ~ Share(s, r) <= 0
    PROVE  /\ Share(s, r) \in Nat \ {0}
           /\ Share(s, r) <= s.budget
           /\ s.computed[r] + Share(s, r) < MaxModelLen
           /\ computed[r] < prompt[r] =>
                 \A q \in Range(s.running) \ {r} : Decoding(q) => Share(s, r) <= Cap
           /\ CaughtUp /\ Decoding(r) => /\ Share(s, r) <= 1 + NumSpec
                                         /\ s.budget >= 1 + NumSpec => Share(s, r) = Wants(r)
<1> DEFINE policy == MixedPrefillPolicy(s.running, s.computed, r)
           mixed == IF s.computed[r] < prompt[r] THEN policy ELSE NoCap
           a == length[r] + drafts[r] - s.computed[r]
           d == MaxModelLen - 1 - s.computed[r]
           b == s.budget
           n == Share(s, r)
<1>1. n = Min({a, b, mixed, d})
    BY Zenon DEF Share
<1>2. r \in Requests /\ r \in Here
    <2>1. QueuesOK(s.running, s.waiting)
        BY DEF Sound
    <2> QED BY <2>1, QueueParts
<1>3. /\ s.computed[r] = computed[r] /\ computed[r] \in Nat /\ computed[r] < length[r]
      /\ length[r] \in Nat /\ length[r] < MaxModelLen /\ drafts[r] \in 0..NumSpec /\ prompt[r] \in Int
      /\ MaxModelLen \in Nat /\ NumSpec \in Nat /\ Budget \in Nat
    <2>1. s.computed[r] = computed[r]
        BY DEF SameDone
    <2>2. MaxModelLen \in Nat /\ NumSpec \in Nat /\ Budget \in Nat
        BY BudgetAssumption, PromptAssumption
    <2>3. computed[r] \in 0..MaxModelLen /\ computed[r] < length[r]
        BY <1>2 DEF Before, DoneOK
    <2>4. length[r] \in 0..MaxModelLen /\ length[r] < MaxModelLen /\ drafts[r] \in 0..NumSpec
          /\ prompt[r] \in {0} \cup PromptLens
        BY <1>2 DEF Before, LengthsOK
    <2>5. prompt[r] \in Int
        <3>1. \A x \in {0} \cup PromptLens : x \in Int
            BY <2>2, PromptAssumption
        <3>2. prompt[r] \in {0} \cup PromptLens
            BY <2>4
        <3> QED BY <3>1, <3>2, Zenon
    <2>6. computed[r] \in Nat /\ length[r] \in Nat
        BY <2>2, <2>3, <2>4
    <2> QED BY <2>1, <2>2, <2>3, <2>4, <2>5, <2>6, Zenon
<1>4. b \in Nat /\ b <= Budget
    <2>1. b \in Nat /\ Cardinality(DOMAIN s.plan) + b <= Budget
        BY DEF Sound
    <2>2. Cardinality(DOMAIN s.plan) \in Nat
        <3>1. DOMAIN s.plan \subseteq Range(s.running) /\ IsFiniteSet(Range(s.running))
            BY QueueParts DEF Sound, PlanOK
        <3> QED BY <3>1, FS_Subset, FS_CardinalityType
    <2> QED BY <1>3, <2>1, <2>2
<1>5. policy \in Nat /\ \A q \in Range(s.running) \ {r} : s.computed[q] >= prompt[q] => policy = Cap
    BY PolicyFacts
<1> HIDE DEF policy
<1>6. mixed \in Nat /\ (computed[r] < prompt[r] => mixed = policy) /\ (Decoding(r) => mixed = NoCap)
    <2>1. Decoding(r) => ~ computed[r] < prompt[r]
        BY <1>3 DEF Decoding
    <2> QED BY <1>3, <1>5, <2>1, CapFacts
<1>7. a \in Int /\ d \in Int
    BY <1>3
<1> HIDE DEF mixed, a, d, b, n
<1>8. n \in {a, b, mixed, d} /\ n <= a /\ n <= b /\ n <= mixed /\ n <= d
    <2>1. b \in Int /\ mixed \in Int
        BY <1>4, <1>6
    <2> QED BY <1>1, <1>7, <2>1, MinOfFour
<1>9. n \in Nat \ {0}
    BY <1>4, <1>6, <1>7, <1>8 DEF n
<1>10. s.computed[r] + n < MaxModelLen
    BY <1>3, <1>8, <1>9 DEF d
<1>11. ASSUME computed[r] < prompt[r], NEW q \in Range(s.running) \ {r}, Decoding(q)
       PROVE  n <= Cap
    <2>1. s.computed[q] = computed[q] /\ computed[q] >= prompt[q]
        BY <1>11 DEF Decoding, SameDone
    <2> QED BY <1>5, <1>6, <1>8, <1>11, <2>1
<1>12. ASSUME CaughtUp, Decoding(r)
       PROVE  n <= 1 + NumSpec /\ (b >= 1 + NumSpec => n = Wants(r))
    <2>1. computed[r] + 1 >= length[r]
        BY <1>2, <1>12 DEF CaughtUp
    <2>2. a <= 1 + NumSpec
        BY <1>3, <2>1 DEF a
    <2> DEFINE x == length[r] + drafts[r]
               y == MaxModelLen - 1
               z == Min({x, y})
    <2>3. x \in Int /\ y \in Int /\ Wants(r) = z - computed[r]
        <3>1. x \in Int /\ y \in Int
            BY <1>3
        <3>2. Wants(r) = z - computed[r]
            BY Zenon DEF Wants
        <3> QED BY <3>1, <3>2
    <2>4. z \in {x, y} /\ z <= x /\ z <= y
        <3> HIDE DEF x, y
        <3> QED BY <2>3, MinOfTwo
    <2>5. a = x - computed[r] /\ d = y - computed[r]
        BY <1>3 DEF a, d
    <2> HIDE DEF x, y, z
    <2>6. n = a \/ n = d \/ n = b \/ n = NoCap
        BY <1>6, <1>8, <1>12
    <2>7. NoCap = Budget
        BY DEF NoCap
    <2> QED BY <1>3, <1>4, <1>8, <1>9, <2>2, <2>3, <2>4, <2>5, <2>6, <2>7
<1> QED BY <1>8, <1>9, <1>10, <1>11, <1>12 DEF n, b

\* Preempting some of those whose turn is to come changes nothing of it.
LEMMA FirstPreempted ==
    ASSUME Before, NEW s, NEW i \in Nat, First(i, s), i <= Len(s.running),
           NEW k \in 0..(Len(s.running) - i)
    PROVE  /\ First(i, Preempted(s, k))
           /\ Range(Preempted(s, k).running) \subseteq Range(s.running)
           /\ Len(Preempted(s, k).running) = Len(s.running) - k
           /\ \A r \in Range(Preempted(s, k).running) : Preempted(s, k).computed[r] = s.computed[r]
           /\ Preempted(s, k).budget = s.budget
<1> DEFINE t == Preempted(s, k)
           m == Len(s.running)
<1>1. Sound(s) /\ LengthsOK /\ DOMAIN s = Fields
    BY DEF First, Before, Sound
<1>2. m \in Nat /\ m <= Len(running) /\ Len(running) \in Nat
    <2>1. QueuesOK(s.running, s.waiting) /\ QueuesOK(running, waiting)
        BY <1>1 DEF Sound, Before
    <2> QED BY <2>1, QueueParts DEF First
<1>3. \A j \in 1..m : s.running[j] = running[j]
    BY DEF First
<1>4. \A r \in DOMAIN s.plan : \E j \in 1..i : r = running[j]
    BY DEF First
<1>5. ASSUME NEW r \in DOMAIN s.plan PROVE \E j \in 1..(m - k) : r = s.running[j]
    <2>1. PICK j \in 1..i : r = running[j]
        BY <1>4
    <2>2. j \in 1..m /\ j \in 1..(m - k)
        BY <1>2
    <2> HIDE DEF m
    <2> QED BY <1>3, <2>1, <2>2
<1>6. k \in 0..m
    BY <1>2
<1>7. /\ Sound(t)
      /\ t.running \o t.waiting = s.running \o s.waiting
      /\ Len(t.running) = m - k
      /\ \A j \in 1..(m - k) : t.running[j] = s.running[j]
      /\ \A r \in Range(t.running) : r \in Range(s.running) /\ t.computed[r] = s.computed[r]
      /\ k = 0 => t.running = s.running /\ t.waiting = s.waiting
    BY <1>1, <1>5, <1>6, PreemptedSound
<1>8. t.plan = s.plan /\ t.budget = s.budget /\ t.preempting = (s.preempting \/ k > 0)
    <2>1. PreemptedTo(s, k, t)
        BY <1>1, PreemptedFields
    <2> HIDE DEF t
    <2> QED BY <2>1, Zenon DEF PreemptedTo
<1> HIDE DEF t, m
<1>9. \A j \in 1..(m - k) : j \in 1..m
    BY <1>2, <1>6
<1>10. \A j \in 1..(m - k) : t.running[j] = running[j]
    BY <1>3, <1>7, <1>9
<1>11. t.preempting \/ (t.running = running /\ t.waiting = waiting)
    <2>1. s.preempting \/ (s.running = running /\ s.waiting = waiting)
        BY Zenon DEF First
    <2>2. CASE s.preempting
        BY <1>8, <2>2, Zenon
    <2>3. CASE k > 0
        BY <1>8, <2>3, Zenon
    <2>4. CASE ~ s.preempting /\ ~ k > 0
        <3>1. k = 0
            BY <1>6, <2>4
        <3> QED BY <1>7, <2>1, <2>4, <3>1, Zenon
    <2> QED BY <2>2, <2>3, <2>4, Zenon
<1>12. SameDone(t)
    BY <1>7 DEF First, SameDone
<1>13. FloorA(t)
    <2>1. FloorA(s)
        BY DEF First
    <2>2. \A q \in DOMAIN t.plan : q \in Range(t.running)
        BY <1>7 DEF Sound, PlanOK
    <2> QED BY <1>7, <1>8, <2>1, <2>2 DEF FloorA
<1>14. FloorB(t)
    BY <1>8, Zenon DEF First, FloorB
<1>15. Room(i, t)
    <2>1. Room(i, s)
        BY DEF First
    <2>2. \A j \in (i + 1)..(m - k) : j \in (i + 1)..m
        BY <1>2, <1>6
    <2> QED BY <1>7, <1>8, <2>1, <2>2 DEF Room, m
<1>16. Len(t.running) <= Len(running)
    BY <1>2, <1>6, <1>7
<1>17. t.running \o t.waiting = running \o waiting
    BY <1>7, Zenon DEF First
<1>18. \A r \in DOMAIN t.plan : \E j \in 1..i : r = running[j]
    BY <1>4, <1>8
<1>19. First(i, t)
    BY <1>7, <1>10, <1>11, <1>12, <1>13, <1>14, <1>15, <1>16, <1>17, <1>18 DEF First
<1>20. Range(t.running) \subseteq Range(s.running)
    BY <1>7
<1> QED BY <1>7, <1>8, <1>19, <1>20 DEF t, m

\* The turn of a request that can be scheduled.
LEMMA FirstScheduled ==
    ASSUME Before, NEW u, NEW i \in Nat \ {0}, First(i - 1, u), i <= Len(u.running),
           NEW n \in Nat \ {0}, n <= u.budget,
           u.computed[running[i]] + n < MaxModelLen,
           Fits(u.blocks, running[i], u.computed[running[i]] + n),
           computed[running[i]] < prompt[running[i]] =>
              \A q \in Range(u.running) \ {running[i]} : Decoding(q) => n <= Cap,
           CaughtUp /\ Decoding(running[i]) =>
              /\ n <= 1 + NumSpec
              /\ u.budget >= 1 + NumSpec => n = Wants(running[i])
    PROVE  First(i, Scheduled(u, running[i], n))
<1> DEFINE r == running[i]
           t == Scheduled(u, r, n)
           m == Len(u.running)
<1>1. Sound(u) /\ LengthsOK /\ DOMAIN u = Fields
    BY DEF First, Before, Sound
<1>2. m \in Nat /\ m <= Len(running) /\ Len(running) \in Nat /\ i \in 1..m /\ i \in 1..Len(running)
    <2>1. QueuesOK(u.running, u.waiting) /\ QueuesOK(running, waiting)
        BY <1>1 DEF Sound, Before
    <2>2. m \in Nat /\ Len(running) \in Nat
        BY <2>1, QueueParts
    <2>3. m <= Len(running)
        BY DEF First
    <2> HIDE DEF m
    <2>4. i <= m
        BY DEF m
    <2> QED BY <2>2, <2>3, <2>4
<1>3. \A j \in 1..m : u.running[j] = running[j]
    BY DEF First
<1>4. /\ u.running \in Seq(Requests) /\ running \in Seq(Requests) /\ IsInjective(running)
    <2>1. QueuesOK(u.running, u.waiting) /\ QueuesOK(running, waiting)
        BY <1>1 DEF Sound, Before
    <2> QED BY <2>1, QueueParts DEF QueuesOK
<1>5. \A j, l \in 1..Len(running) : running[j] = running[l] => j = l
    BY <1>4, RangeOf
<1>6. Range(u.running) = {u.running[j] : j \in 1..m} /\ Range(running) = {running[j] : j \in 1..Len(running)}
    BY <1>4, RangeOf
<1>7. r \in Range(u.running) /\ r \in Range(running)
    BY <1>2, <1>3, <1>6
<1>8. r \notin DOMAIN u.plan
    <2>1. ASSUME r \in DOMAIN u.plan PROVE FALSE
        <3>1. PICK j \in 1..(i - 1) : r = running[j]
            BY <2>1 DEF First
        <3>2. j \in 1..Len(running) /\ j # i
            BY <1>2
        <3> QED BY <1>2, <1>5, <3>1, <3>2
    <2> QED BY <2>1
<1>9. Sound(t)
    BY <1>1, <1>7, <1>8, ScheduledSound
<1>10. /\ t.running = u.running /\ t.waiting = u.waiting /\ t.computed = u.computed
       /\ t.budget = u.budget - n
       /\ t.plan = [q \in DOMAIN u.plan \cup {r} |-> IF q = r THEN n ELSE u.plan[q]]
       /\ t.preempting = u.preempting
    <2>1. ScheduledTo(u, r, n, t)
        BY <1>1, ScheduledFields
    <2> HIDE DEF t
    <2> QED BY <2>1, Zenon DEF ScheduledTo
<1> HIDE DEF t
<1>12. /\ DOMAIN t.plan = DOMAIN u.plan \cup {r} /\ t.plan[r] = n
       /\ \A q \in DOMAIN u.plan : t.plan[q] = u.plan[q]
    BY <1>8, <1>10
<1>13. u.computed[r] = computed[r] /\ SameDone(t)
    <2>1. SameDone(u)
        BY DEF First
    <2> QED BY <1>7, <1>10, <2>1 DEF SameDone
<1>14. \A q \in DOMAIN t.plan : \E j \in 1..i : q = running[j]
    <2>1. \A q \in DOMAIN u.plan : \E j \in 1..(i - 1) : q = running[j]
        BY DEF First
    <2>2. \A j \in 1..(i - 1) : j \in 1..i
        OBVIOUS
    <2>3. i \in 1..i
        OBVIOUS
    <2> QED BY <1>12, <2>1, <2>2, <2>3
<1>15. FloorA(t)
    <2>1. FloorA(u)
        BY DEF First
    <2> SUFFICES ASSUME NEW p \in Requests, Decoding(p), p \in Range(u.running),
                        NEW q \in DOMAIN t.plan \ {p}, u.computed[q] < prompt[q]
                 PROVE  t.plan[q] <= Cap
        BY <1>10 DEF FloorA
    <2>2. CASE q = r
        <3>1. p \in Range(u.running) \ {r} /\ computed[r] < prompt[r]
            BY <1>13, <2>2
        <3>2. n <= Cap
            BY <3>1
        <3> QED BY <1>12, <2>2, <3>2
    <2>3. CASE q # r
        <3>1. q \in DOMAIN u.plan \ {p} /\ t.plan[q] = u.plan[q]
            BY <1>12, <2>3
        <3> QED BY <2>1, <3>1 DEF FloorA
    <2> QED BY <2>2, <2>3
<1>16. Cap \in Nat /\ Most \in Nat /\ Cap <= Most /\ 1 + NumSpec <= Most /\ NumSpec \in Nat /\ Budget \in Nat
    BY CapFacts, BudgetAssumption
<1>17. u.budget \in Nat
    BY <1>1 DEF Sound
<1> DEFINE x == Most * (i - 1)
           y == Most * i
           z == Len(running) * Most
<1>18. x \in Int /\ y = x + Most /\ y <= z /\ z \in Int
    <2>1. Most * i = Most * (i - 1) + Most
        <3>1. Most * ((i - 1) + 1) = Most * (i - 1) + Most * 1 /\ (i - 1) + 1 = i /\ Most * 1 = Most
            BY <1>16
        <3> QED BY <3>1
    <2>2. Most * (i - 1) \in Int
        BY <1>16
    <2>3. Most * i <= Most * Len(running)
        <3>1. CASE Most = 0
            BY <1>2, <3>1
        <3>2. CASE Most # 0
            <4>1. Most \in Nat \ {0} /\ i \in Int /\ Len(running) \in Int /\ i <= Len(running)
                BY <1>2, <1>16, <3>2
            <4> QED BY <4>1, Multiples
        <3> QED BY <3>1, <3>2
    <2>4. Len(running) * Most = Most * Len(running) /\ Len(running) * Most \in Int
        BY <1>2, <1>16
    <2> QED BY <2>1, <2>2, <2>3, <2>4
<1>19. Enough => CaughtUp /\ z <= Budget
    BY Zenon DEF Enough
<1>20. Room(i - 1, u)
    BY DEF First
<1>21. \A j \in i..m : Enough /\ Decoding(running[j]) => u.budget >= Budget - x
    <2>1. (i - 1) + 1 = i
        OBVIOUS
    <2> QED BY <1>20, <2>1, Zenon DEF Room
<1> HIDE DEF x, y, z
<1>22. FloorB(t)
    <2>1. FloorB(u)
        BY DEF First
    <2> SUFFICES ASSUME Enough, NEW q \in DOMAIN t.plan, Decoding(q) PROVE t.plan[q] = Wants(q)
        BY Zenon DEF FloorB
    <2>2. CASE q = r
        <3>1. u.budget >= Budget - x
            <4>1. i \in i..m /\ Decoding(running[i])
                BY <1>2, <2>2
            <4> QED BY <1>21, <4>1
        <3>2. u.budget >= 1 + NumSpec
            BY <1>16, <1>17, <1>18, <1>19, <3>1
        <3>3. n = Wants(r)
            BY <1>19, <2>2, <3>2
        <3> QED BY <1>12, <2>2, <3>3
    <2>3. CASE q # r
        <3>1. q \in DOMAIN u.plan /\ t.plan[q] = u.plan[q]
            BY <1>12, <2>3
        <3> QED BY <2>1, <3>1, Zenon DEF FloorB
    <2> QED BY <2>2, <2>3
<1>23. Room(i, t)
    <2> SUFFICES ASSUME Enough, NEW j \in (i + 1)..m, Decoding(running[j])
                 PROVE  t.budget >= Budget - y
        BY <1>10, Zenon DEF Room, y, m
    <2>1. u.budget >= Budget - x
        <3>1. j \in i..m
            BY <1>2
        <3> QED BY <1>21, <3>1
    <2>2. running[j] \in Range(u.running) \ {r}
        <3>1. j \in 1..m /\ j \in 1..Len(running) /\ j # i
            BY <1>2
        <3> QED BY <1>2, <1>3, <1>5, <1>6, <3>1
    <2>3. n <= Most
        <3>1. CASE computed[r] < prompt[r]
            <4>1. n <= Cap
                BY <2>2, <3>1
            <4> QED BY <1>16, <4>1
        <3>2. CASE ~ computed[r] < prompt[r]
            <4>1. Decoding(r)
                <5>1. computed[r] \in Int /\ prompt[r] \in Int
                    <6>1. r \in Requests
                        BY <1>4, <1>7, RangeOf
                    <6>2. computed[r] \in 0..MaxModelLen /\ prompt[r] \in {0} \cup PromptLens
                        BY <6>1 DEF Before, DoneOK, LengthsOK
                    <6>3. \A v \in {0} \cup PromptLens : v \in Int
                        BY PromptAssumption, BudgetAssumption
                    <6>4. MaxModelLen \in Nat
                        BY BudgetAssumption
                    <6>5. prompt[r] \in Int
                        BY <6>2, <6>3, Zenon
                    <6> HIDE DEF r
                    <6>6. computed[r] \in Int
                        BY <6>2, <6>4
                    <6> QED BY <6>5, <6>6
                <5> HIDE DEF r
                <5> QED BY <1>7, <3>2, <5>1 DEF Decoding
            <4>2. n <= 1 + NumSpec
                BY <1>19, <4>1
            <4> QED BY <1>16, <4>2
        <3> QED BY <3>1, <3>2
    <2> QED BY <1>10, <1>16, <1>17, <1>18, <2>1, <2>3
<1>24. /\ t.running \o t.waiting = running \o waiting /\ Len(t.running) <= Len(running)
       /\ \A j \in 1..Len(t.running) : t.running[j] = running[j]
    BY <1>10, Zenon DEF First
<1>25. t.preempting \/ (t.running = running /\ t.waiting = waiting)
    BY <1>10, Zenon DEF First
<1>26. First(i, t)
    BY <1>9, <1>13, <1>14, <1>15, <1>22, <1>23, <1>24, <1>25, Zenon DEF First
<1> QED BY <1>26 DEF t

\* Whether enough go, if k do, for r to have its blocks.
EnoughGo(s, r, n, k) ==
    r \notin Range(Preempted(s, k).running) \/ Fits(Preempted(s, k).blocks, r, s.computed[r] + n)

HowManyGo(s, r, n) ==
    CHOOSE k \in 0..Len(s.running) : EnoughGo(s, r, n, k) /\ \A j \in 0..(k - 1) : ~ EnoughGo(s, r, n, j)

LEMMA ContinueIs ==
    ASSUME NEW s, NEW r, NEW n, NEW t \in Continue(s, r, n)
    PROVE  \/ t = s
           \/ /\ r \in Range(s.running) /\ ~ n <= 0
              /\ t = IF r \in Range(Preempted(s, HowManyGo(s, r, n)).running)
                     THEN Scheduled(Preempted(s, HowManyGo(s, r, n)), r, n)
                     ELSE [Preempted(s, HowManyGo(s, r, n)) EXCEPT !.stopped = TRUE]
BY Zenon DEF Continue, EnoughGo, HowManyGo

\* As many go as must, and none whose turn has been.
LEMMA HowManyGoFacts ==
    ASSUME Before, NEW s, NEW i \in Nat \ {0}, First(i - 1, s), i <= Len(s.running), NEW n
    PROVE  /\ HowManyGo(s, running[i], n) \in 0..(Len(s.running) - (i - 1))
           /\ EnoughGo(s, running[i], n, HowManyGo(s, running[i], n))
<1> DEFINE r == running[i]
           m == Len(s.running)
           E(k) == EnoughGo(s, r, n, k)
           last == m - (i - 1)
           T == {k \in 0..m : E(k)}
<1>1. m \in Nat /\ last \in 0..m
    <2>1. QueuesOK(s.running, s.waiting)
        BY DEF First, Sound
    <2>2. m \in Nat
        BY <2>1, QueueParts
    <2> QED BY <2>2
<1>2. E(last)
    <2> DEFINE t == Preempted(s, last)
    <2>1. First(i - 1, t) /\ Len(t.running) = m - last
        <3>1. i - 1 \in Nat /\ i - 1 <= Len(s.running) /\ last \in 0..(Len(s.running) - (i - 1))
            BY <1>1
        <3> QED BY <3>1, FirstPreempted
    <2> HIDE DEF t
    <2>2. Len(t.running) = i - 1
        BY <1>1, <2>1
    <2>3. /\ t.running \in Seq(Requests) /\ running \in Seq(Requests) /\ IsInjective(running)
          /\ Len(running) \in Nat /\ m <= Len(running)
        <3>1. QueuesOK(t.running, t.waiting) /\ QueuesOK(running, waiting)
            BY <2>1 DEF First, Sound, Before
        <3> QED BY <3>1, QueueParts DEF QueuesOK, First
    <2>4. \A j, l \in 1..Len(running) : running[j] = running[l] => j = l
        BY <2>3, RangeOf
    <2>5. Range(t.running) = {t.running[j] : j \in 1..(i - 1)}
        BY <2>2, <2>3, RangeOf
    <2>6. \A j \in 1..(i - 1) : t.running[j] = running[j]
        BY <2>1, <2>2 DEF First
    <2>7. \A j \in 1..(i - 1) : j \in 1..Len(running) /\ i \in 1..Len(running) /\ j # i
        BY <1>1, <2>3
    <2>8. r \notin Range(t.running)
        BY <2>4, <2>5, <2>6, <2>7
    <2> QED BY <2>8 DEF EnoughGo, t
<1> HIDE DEF E
<1>3. PICK k \in T : \A j \in T : k <= j
    <2>1. last \in T /\ T \in SUBSET Nat
        BY <1>1, <1>2
    <2> HIDE DEF T
    <2> QED BY <2>1, LeastNatural
<1>4. \A j \in 0..(k - 1) : ~ E(j)
    <2>1. ASSUME NEW j \in 0..(k - 1), E(j) PROVE FALSE
        <3>1. j \in T
            BY <1>1, <1>3, <2>1
        <3>2. ~ k <= j
            BY <1>1, <1>3
        <3> QED BY <1>3, <3>1, <3>2
    <2> QED BY <2>1
<1> DEFINE h == HowManyGo(s, r, n)
<1>5. h \in 0..m /\ E(h) /\ \A j \in 0..(h - 1) : ~ E(j)
    <2>1. \E x \in 0..m : E(x) /\ \A j \in 0..(x - 1) : ~ E(j)
        BY <1>3, <1>4
    <2> QED BY <2>1, Zenon DEF HowManyGo, E
<1> HIDE DEF h, last
<1>6. h <= last
    <2>1. last \notin 0..(h - 1)
        BY <1>2, <1>5
    <2> QED BY <1>1, <1>5, <2>1
<1>7. h \in 0..last
    BY <1>1, <1>5, <1>6
<1> QED BY <1>5, <1>7 DEF E, h, last

\* A turn that does nothing.
LEMMA FirstSkipped ==
    ASSUME NEW s, NEW i \in Nat \ {0}, First(i - 1, s)
    PROVE  First(i, s)
<1>1. \A r \in DOMAIN s.plan : \E j \in 1..i : r = running[j]
    <2>1. \A r \in DOMAIN s.plan : \E j \in 1..(i - 1) : r = running[j]
        BY DEF First
    <2>2. \A j \in 1..(i - 1) : j \in 1..i
        OBVIOUS
    <2> QED BY <2>1, <2>2
<1>2. Room(i, s)
    <2> DEFINE x == Most * (i - 1)
               y == Most * i
    <2>1. Room(i - 1, s) /\ (i - 1) + 1 = i /\ s.budget \in Nat
        BY DEF First, Sound
    <2>2. \A j \in (i + 1)..Len(s.running) : j \in i..Len(s.running)
        OBVIOUS
    <2>3. Enough => \A j \in i..Len(s.running) : Decoding(running[j]) => s.budget >= Budget - x
        BY <2>1, Zenon DEF Room
    <2>4. x \in Int /\ y \in Int /\ x <= y /\ Budget \in Nat
        <3>1. Most \in Nat
            BY CapFacts
        <3>2. Most * ((i - 1) + 1) = Most * (i - 1) + Most * 1 /\ (i - 1) + 1 = i /\ Most * 1 = Most
            BY <3>1
        <3>3. Most * (i - 1) \in Int
            BY <3>1
        <3> QED BY <3>1, <3>2, <3>3, BudgetAssumption
    <2> HIDE DEF x, y
    <2>5. Enough => \A j \in (i + 1)..Len(s.running) : Decoding(running[j]) => s.budget >= Budget - y
        BY <2>1, <2>2, <2>3, <2>4
    <2> QED BY <2>5, Zenon DEF Room, y
<1> QED BY <1>1, <1>2, Zenon DEF First

\* Neither does the end of the loop.
LEMMA FirstStopped ==
    ASSUME NEW u, NEW i, DOMAIN u = Fields, First(i, u)
    PROVE  First(i, [u EXCEPT !.stopped = TRUE])
<1> DEFINE t == [u EXCEPT !.stopped = TRUE]
<1>1. /\ DOMAIN t = Fields /\ t.running = u.running /\ t.waiting = u.waiting
      /\ t.computed = u.computed /\ t.blocks = u.blocks /\ t.preempting = u.preempting
      /\ t.budget = u.budget /\ t.plan = u.plan
    BY StoppedFields, Zenon
<1> HIDE DEF t
<1>2. Sound(t)
    BY <1>1, Zenon DEF First, Sound
<1>3. SameDone(t) /\ FloorA(t) /\ FloorB(t) /\ Room(i, t)
    BY <1>1, Zenon DEF First, SameDone, FloorA, FloorB, Room
<1>4. First(i, t)
    BY <1>1, <1>2, <1>3, Zenon DEF First
<1> QED BY <1>4 DEF t

\* A turn of the loop.
LEMMA FirstStep ==
    ASSUME Before, NEW s, NEW i \in 1..Len(running), First(i - 1, s),
           NEW t \in Continue(s, running[i], Share(s, running[i]))
    PROVE  First(i, t)
<1> DEFINE r == running[i]
           n == Share(s, r)
           k == HowManyGo(s, r, n)
           u == Preempted(s, k)
<1>1. i \in Nat \ {0} /\ i - 1 \in Nat
    OBVIOUS
<1>2. Sound(s) /\ QueuesOK(s.running, s.waiting) /\ QueuesOK(running, waiting) /\ SameDone(s)
    BY DEF First, Sound, Before
<1>3. /\ Len(s.running) \in Nat /\ s.running \in Seq(Requests)
      /\ running \in Seq(Requests) /\ IsInjective(running) /\ Len(running) \in Nat
    BY <1>2, QueueParts DEF QueuesOK
<1>4. \A j \in 1..Len(s.running) : j \in 1..Len(running) /\ s.running[j] = running[j]
    <2>1. Len(s.running) <= Len(running) /\ \A j \in 1..Len(s.running) : s.running[j] = running[j]
        BY DEF First
    <2> QED BY <1>3, <2>1
<1>5. CASE t = s
    BY <1>1, <1>5, FirstSkipped
<1>6. CASE /\ r \in Range(s.running) /\ ~ n <= 0
           /\ t = IF r \in Range(u.running) THEN Scheduled(u, r, n) ELSE [u EXCEPT !.stopped = TRUE]
    <2>1. i <= Len(s.running)
        <3>1. PICK j \in 1..Len(s.running) : r = s.running[j]
            BY <1>3, <1>6, RangeOf
        <3>2. j = i
            <4>1. \A x, y \in 1..Len(running) : running[x] = running[y] => x = y
                BY <1>3, RangeOf
            <4> QED BY <1>4, <3>1, <4>1
        <3> QED BY <3>2
    <2>2. r \in Range(running)
        BY <1>3, RangeOf
    <2>3. /\ n \in Nat \ {0} /\ n <= s.budget /\ s.computed[r] + n < MaxModelLen
          /\ computed[r] < prompt[r] => \A q \in Range(s.running) \ {r} : Decoding(q) => n <= Cap
          /\ CaughtUp /\ Decoding(r) => /\ n <= 1 + NumSpec
                                        /\ s.budget >= 1 + NumSpec => n = Wants(r)
        <3> HIDE DEF r
        <3> QED BY <1>2, <1>6, <2>2, ShareFacts
    <2> HIDE DEF n
    <2>4. k \in 0..(Len(s.running) - (i - 1)) /\ EnoughGo(s, r, n, k)
        BY <1>1, <2>1, HowManyGoFacts
    <2> HIDE DEF k
    <2>5. /\ First(i - 1, u)
          /\ Range(u.running) \subseteq Range(s.running)
          /\ \A q \in Range(u.running) : u.computed[q] = s.computed[q]
          /\ u.budget = s.budget
        <3>1. i - 1 <= Len(s.running)
            BY <1>3, <2>1
        <3> QED BY <1>1, <2>4, <3>1, FirstPreempted
    <2>6. CASE r \in Range(u.running)
        <3>1. t = Scheduled(u, r, n)
            BY <1>6, <2>6, Zenon
        <3>2. Fits(u.blocks, r, s.computed[r] + n) /\ u.computed[r] = s.computed[r]
            BY <2>4, <2>5, <2>6 DEF EnoughGo
        <3> HIDE DEF u
        <3>3. i <= Len(u.running)
            <4>1. QueuesOK(u.running, u.waiting) /\ Len(u.running) <= Len(running)
                  /\ \A j \in 1..Len(u.running) : u.running[j] = running[j]
                BY <2>5 DEF First, Sound
            <4>2. u.running \in Seq(Requests) /\ Len(u.running) \in Nat
                BY <4>1, QueueParts DEF QueuesOK
            <4>3. PICK j \in 1..Len(u.running) : r = u.running[j]
                BY <2>6, <4>2, RangeOf
            <4>4. j \in 1..Len(running) /\ running[j] = running[i]
                BY <1>3, <4>1, <4>2, <4>3
            <4>5. j = i
                BY <1>3, <4>4, RangeOf
            <4> QED BY <4>5
        <3>4. n <= u.budget /\ u.computed[r] + n < MaxModelLen /\ Fits(u.blocks, r, u.computed[r] + n)
            BY <2>3, <2>5, <3>2
        <3>5. computed[r] < prompt[r] => \A q \in Range(u.running) \ {r} : Decoding(q) => n <= Cap
            BY <2>3, <2>5
        <3>6. CaughtUp /\ Decoding(r) => /\ n <= 1 + NumSpec
                                         /\ u.budget >= 1 + NumSpec => n = Wants(r)
            BY <2>3, <2>5
        <3>7. First(i, Scheduled(u, r, n))
            BY <1>1, <2>3, <2>5, <3>3, <3>4, <3>5, <3>6, FirstScheduled
        <3> QED BY <3>1, <3>7
    <2>7. CASE r \notin Range(u.running)
        <3>1. t = [u EXCEPT !.stopped = TRUE]
            BY <1>6, <2>7, Zenon
        <3>2. DOMAIN u = Fields /\ First(i, u)
            <4>1. First(i, u)
                BY <1>1, <2>5, FirstSkipped
            <4>2. DOMAIN u = Fields
                BY <2>5, Zenon DEF First, Sound
            <4> QED BY <4>1, <4>2
        <3> HIDE DEF u
        <3> QED BY <3>1, <3>2, FirstStopped
    <2> QED BY <2>6, <2>7
<1> QED BY <1>5, <1>6, ContinueIs

\* What a step starts with.
LEMMA StartFields ==
    /\ DOMAIN Start = Fields
    /\ Start.running = running /\ Start.waiting = waiting /\ Start.blocks = blocks
    /\ Start.computed = computed /\ Start.budget = Budget /\ Start.plan = Idle
    /\ DOMAIN Start.plan = {}
BY DEF Start, Fields, Idle

LEMMA FirstStart ==
    ASSUME Before
    PROVE  First(0, Start)
<1> DEFINE s == Start
<1>1. /\ DOMAIN s = Fields
      /\ s.running = running /\ s.waiting = waiting /\ s.blocks = blocks
      /\ s.computed = computed /\ s.budget = Budget /\ DOMAIN s.plan = {}
    BY StartFields
<1> HIDE DEF s
<1>2. Budget \in Nat /\ MaxSeqs \in Nat
    BY BudgetAssumption
<1>3. Cardinality(DOMAIN s.plan) = 0
    BY <1>1, FS_EmptySet
<1>4. Sound(s)
    <2>1. PlanOK(s.running, s.computed, s.blocks, s.plan)
        BY <1>1 DEF PlanOK
    <2>2. s.budget \in Nat /\ Cardinality(DOMAIN s.plan) + s.budget <= Budget
        BY <1>1, <1>2, <1>3
    <2> QED BY <1>1, <2>1, <2>2, Zenon DEF Before, Sound
<1>5. running \in Seq(Requests) /\ Len(running) \in Nat
    BY QueueParts DEF Before, QueuesOK
<1>6. SameDone(s) /\ FloorA(s) /\ FloorB(s)
    BY <1>1 DEF SameDone, FloorA, FloorB
<1>7. Room(0, s)
    <2>1. Most * 0 = 0 /\ Most \in Nat
        BY CapFacts
    <2>2. s.budget >= Budget - Most * 0
        BY <1>1, <1>2, <2>1
    <2> QED BY <2>2, Zenon DEF Room
<1>8. First(0, s)
    BY <1>1, <1>4, <1>5, <1>6, <1>7 DEF First
<1> QED BY <1>8 DEF s

\* The whole of the loop.
LEMMA LoopOne ==
    ASSUME Before, NEW t \in AllContinued(Start)
    PROVE  First(Len(running), t)
<1> DEFINE n == Len(running)
<1>1. n \in Nat
    BY QueueParts DEF Before
<1>2. Start.running = running
    BY StartFields
<1>3. PICK f : IsContinued(Start, f) /\ AllContinued(Start) = f[n]
    BY <1>1, <1>2, AllContinuedIs
<1>4. \A i \in 0..n : f[i] = IF i = 0 THEN {Start} ELSE Continued(f[i - 1], running[i])
    BY <1>2, <1>3, Zenon DEF IsContinued
<1> DEFINE S == {i \in 0..n : \A s \in f[i] : First(i, s)}
<1>5. 0 \in S
    <2>1. 0 \in 0..n
        BY <1>1
    <2>2. f[0] = {Start}
        BY <1>4, <2>1
    <2> QED BY <2>1, <2>2, FirstStart
<1>6. ASSUME NEW i \in 1..n, i - 1 \in S PROVE i \in S
    <2>1. i \in 0..n /\ i # 0
        BY <1>1
    <2>2. f[i] = Continued(f[i - 1], running[i])
        BY <1>4, <2>1
    <2>3. ASSUME NEW u \in f[i] PROVE First(i, u)
        <3>1. \E s \in f[i - 1] : u \in Continue(s, running[i], Share(s, running[i]))
            BY <2>2, Zenon DEF Continued
        <3>2. PICK s \in f[i - 1] : u \in Continue(s, running[i], Share(s, running[i]))
            BY <3>1
        <3>3. First(i - 1, s)
            BY <1>6
        <3> QED BY <3>2, <3>3, FirstStep
    <2> QED BY <2>1, <2>3
<1>7. 0..n \subseteq S
    <2>1. \A i \in 1..n : i - 1 \in S => i \in S
        BY <1>6
    <2> HIDE DEF S
    <2> QED BY <1>1, <1>5, <2>1, UpToInduction, Zenon
<1>8. n \in S
    <2>1. n \in 0..n
        BY <1>1
    <2> HIDE DEF S
    <2> QED BY <1>7, <2>1
<1> QED BY <1>3, <1>8

(***************************************************************************)
(* The loop over the requests that wait                                    *)
(***************************************************************************)

\* After j turns, if none was preempted.
Second(j, s) ==
    /\ Sound(s)
    /\ Range(s.waiting) \subseteq Range(waiting)
    /\ \A k \in (j + 1)..Len(waiting) : waiting[k] \in Range(s.waiting)
    /\ SameDone(s) /\ FloorA(s) /\ FloorB(s)

LEMMA SecondStart ==
    ASSUME Before, NEW i, NEW s, First(i, s), ~ s.preempting
    PROVE  Second(0, s) /\ s.waiting = waiting
<1>1. s.running = running /\ s.waiting = waiting
    BY Zenon DEF First
<1>2. waiting \in Seq(Requests)
    BY DEF Before, QueuesOK
<1>3. Range(waiting) = {waiting[k] : k \in 1..Len(waiting)} /\ 0 + 1 = 1
    BY <1>2, RangeOf
<1>4. \A k \in (0 + 1)..Len(waiting) : waiting[k] \in Range(waiting)
    BY <1>3
<1>5. Sound(s) /\ SameDone(s) /\ FloorA(s) /\ FloorB(s)
    BY Zenon DEF First
<1> QED BY <1>1, <1>4, <1>5 DEF Second

\* What a request that waits may be given.
LEMMA GrantFacts ==
    ASSUME Before, NEW s, Sound(s), NEW r \in Here, NEW hit \in Hits(r), Grant(s, r, hit) # 0
    PROVE  /\ hit \in Nat /\ hit < length[r]
           /\ Grant(s, r, hit) \in Nat \ {0}
           /\ Grant(s, r, hit) <= s.budget
           /\ hit + Grant(s, r, hit) < MaxModelLen
           /\ hit < prompt[r] =>
                 \A q \in Range(s.running) \ {r} : s.computed[q] >= prompt[q] => Grant(s, r, hit) <= Cap
<1> DEFINE policy == MixedPrefillPolicy(s.running, s.computed, r)
           mixed == IF hit < prompt[r] THEN policy ELSE NoCap
           a == length[r] - hit
           b == s.budget
           n == Grant(s, r, hit)
<1>1. n = Min({a, mixed, b})
    BY Zenon DEF Grant
<1>2. MaxModelLen \in Nat /\ BlockSize \in Nat \ {0}
    BY BudgetAssumption, BlocksAssumption
<1>3. length[r] \in Nat \ {0} /\ length[r] < MaxModelLen
    <2>1. r \in Requests
        BY DEF Here
    <2>2. length[r] \in 0..MaxModelLen /\ length[r] < MaxModelLen
        BY <2>1 DEF Before, LengthsOK
    <2>3. computed[r] \in 0..MaxModelLen /\ computed[r] < length[r]
        BY <2>1 DEF Before, DoneOK
    <2> QED BY <1>2, <2>2, <2>3
<1>4. hit \in Nat /\ hit < length[r]
    <2> DEFINE l == length[r] - 1
               q == l \div BlockSize
    <2>1. l \in Nat
        BY <1>3
    <2>2. hit = 0 \/ hit = q * BlockSize
        BY Zenon DEF Hits
    <2>3. l = BlockSize * q + (l % BlockSize) /\ q \in Nat /\ l % BlockSize \in 0..(BlockSize - 1)
        <3> HIDE DEF l
        <3> QED BY <1>2, <2>1, DivMod
    <2> HIDE DEF q
    <2>4. q * BlockSize = BlockSize * q /\ BlockSize * q \in Nat
        BY <1>2, <2>3
    <2> DEFINE y == BlockSize * q
               o == l % BlockSize
    <2>5. l = y + o /\ o \in Nat /\ y \in Nat /\ (hit = 0 \/ hit = y)
        BY <1>2, <2>2, <2>3, <2>4
    <2> HIDE DEF y, o
    <2> QED BY <1>3, <2>5
<1>5. b \in Nat
    BY DEF Sound
<1>6. policy \in Nat /\ \A q \in Range(s.running) \ {r} : s.computed[q] >= prompt[q] => policy = Cap
    BY PolicyFacts
<1> HIDE DEF policy
<1>7. mixed \in Nat /\ (hit < prompt[r] => mixed = policy)
    BY <1>6, CapFacts
<1>8. a \in Nat \ {0}
    BY <1>3, <1>4
<1> HIDE DEF mixed, a, b, n
<1>9. n \in {a, mixed, b} /\ n <= a /\ n <= mixed /\ n <= b
    <2>1. a \in Int /\ mixed \in Int /\ b \in Int
        BY <1>5, <1>7, <1>8
    <2> QED BY <1>1, <2>1, MinOfThree
<1>10. n \in Nat \ {0}
    BY <1>5, <1>7, <1>8, <1>9 DEF n
<1>11. hit + n < MaxModelLen
    BY <1>3, <1>4, <1>9, <1>10, <1>2 DEF a
<1>12. ASSUME hit < prompt[r], NEW q \in Range(s.running) \ {r}, s.computed[q] >= prompt[q]
       PROVE  n <= Cap
    BY <1>6, <1>7, <1>9, <1>12
<1> QED BY <1>4, <1>9, <1>10, <1>11, <1>12 DEF n, b

\* A turn that does nothing, and one that ends the loop.
LEMMA SecondSkipped ==
    ASSUME NEW s, NEW j \in Nat \ {0}, Second(j - 1, s)
    PROVE  Second(j, s) /\ Second(j, [s EXCEPT !.stopped = TRUE])
<1>1. Second(j, s)
    <2>1. \A k \in (j + 1)..Len(waiting) : k \in ((j - 1) + 1)..Len(waiting)
        OBVIOUS
    <2> QED BY <2>1, Zenon DEF Second
<1> DEFINE t == [s EXCEPT !.stopped = TRUE]
<1>2. DOMAIN s = Fields
    BY <1>1, Zenon DEF Second, Sound
<1>3. /\ DOMAIN t = Fields /\ t.running = s.running /\ t.waiting = s.waiting
      /\ t.computed = s.computed /\ t.blocks = s.blocks /\ t.preempting = s.preempting
      /\ t.budget = s.budget /\ t.plan = s.plan
    BY <1>2, StoppedFields, Zenon
<1> HIDE DEF t
<1>4. Second(j, t)
    <2>1. Sound(t)
        BY <1>1, <1>3, Zenon DEF Second, Sound
    <2>2. SameDone(t) /\ FloorA(t) /\ FloorB(t)
        BY <1>1, <1>3, Zenon DEF Second, SameDone, FloorA, FloorB
    <2> QED BY <1>1, <1>3, <2>1, <2>2, Zenon DEF Second
<1> QED BY <1>1, <1>4 DEF t

\* A turn that admits a request.
LEMMA SecondAdmitted ==
    ASSUME Before, NEW s, NEW j \in 1..Len(waiting), Second(j - 1, s), NEW hit \in Hits(waiting[j]),
           Len(s.running) # MaxSeqs, Grant(s, waiting[j], hit) # 0,
           Fits(s.blocks, waiting[j], hit + Grant(s, waiting[j], hit))
    PROVE  Second(j, Scheduled(Joined(s, waiting[j], hit), waiting[j], Grant(s, waiting[j], hit)))
<1> DEFINE r == waiting[j]
           n == Grant(s, r, hit)
           u == Joined(s, r, hit)
           t == Scheduled(u, r, n)
<1>1. Sound(s) /\ LengthsOK /\ QueuesOK(running, waiting) /\ QueuesOK(s.running, s.waiting) /\ DOMAIN s = Fields
    BY DEF Second, Sound, Before
<1>2. /\ waiting \in Seq(Requests) /\ Len(waiting) \in Nat /\ IsInjective(waiting)
      /\ Range(running) \cap Range(waiting) = {}
    BY <1>1, QueueParts DEF QueuesOK
<1>3. \A k, l \in 1..Len(waiting) : waiting[k] = waiting[l] => k = l
    BY <1>2, RangeOf
<1>4. r \in Range(s.waiting) /\ r \in Range(waiting) /\ r \notin Range(running)
    <2>1. j \in ((j - 1) + 1)..Len(waiting)
        BY <1>2
    <2>2. r \in Range(s.waiting)
        BY <2>1 DEF Second
    <2>3. Range(s.waiting) \subseteq Range(waiting)
        BY DEF Second
    <2> QED BY <1>2, <2>2, <2>3
<1>5. r \in Here /\ r \in Requests /\ r \notin Range(s.running)
    <2>1. Range(s.waiting) \subseteq Here /\ Range(s.running) \cap Range(s.waiting) = {}
        BY <1>1, QueueParts
    <2>2. r \in Here /\ r \notin Range(s.running)
        BY <1>4, <2>1
    <2> QED BY <2>2 DEF Here
<1> HIDE DEF r
<1>6. /\ hit \in Nat /\ hit < length[r] /\ n \in Nat \ {0} /\ n <= s.budget /\ hit + n < MaxModelLen
      /\ hit < prompt[r] =>
            \A q \in Range(s.running) \ {r} : s.computed[q] >= prompt[q] => n <= Cap
    <2>1. hit \in Hits(r) /\ n # 0
        BY DEF r
    <2> QED BY <1>1, <1>5, <2>1, GrantFacts
<1>7. Fits(s.blocks, r, hit + n)
    BY DEF r
<1> HIDE DEF n
<1>8. /\ Sound(u) /\ Range(u.running) = Range(s.running) \cup {r}
      /\ Range(u.waiting) = Range(s.waiting) \ {r}
    BY <1>1, <1>4, <1>6, JoinedSound
<1>9. u.blocks = s.blocks /\ u.budget = s.budget /\ u.plan = s.plan /\ DOMAIN u = Fields
    <2>1. JoinedTo(s, r, hit, u)
        BY <1>1, JoinedFields
    <2> HIDE DEF u
    <2> QED BY <2>1, Zenon DEF JoinedTo
<1>10. u.computed[r] = hit /\ \A q \in Requests \ {r} : u.computed[q] = s.computed[q]
    <2>1. u.computed = Hit(s, r, hit)
        <3>1. JoinedTo(s, r, hit, u)
            BY <1>1, JoinedFields
        <3> HIDE DEF u
        <3> QED BY <3>1, Zenon DEF JoinedTo
    <2>2. s.computed \in [Requests -> 0..MaxModelLen]
        BY <1>1 DEF Sound, DoneOK
    <2> HIDE DEF u
    <2> QED BY <1>5, <2>1, <2>2 DEF Hit
<1> HIDE DEF u
<1>11. r \notin DOMAIN u.plan /\ \A q \in DOMAIN u.plan : q \in Requests \ {r} /\ q \in Range(s.running)
    <2>1. DOMAIN s.plan \subseteq Range(s.running) /\ Range(s.running) \subseteq Requests
        BY <1>1, QueueParts DEF Sound, PlanOK
    <2> QED BY <1>5, <1>9, <2>1
<1>12. Sound(t)
    <2>1. r \in Range(u.running) /\ n <= u.budget /\ u.computed[r] + n < MaxModelLen
          /\ Fits(u.blocks, r, u.computed[r] + n)
        BY <1>6, <1>7, <1>8, <1>9, <1>10
    <2> QED BY <1>1, <1>6, <1>8, <1>11, <2>1, ScheduledSound
<1>13. /\ t.running = u.running /\ t.waiting = u.waiting /\ t.computed = u.computed
       /\ t.plan = [q \in DOMAIN u.plan \cup {r} |-> IF q = r THEN n ELSE u.plan[q]]
    <2>1. ScheduledTo(u, r, n, t)
        BY <1>9, ScheduledFields
    <2> HIDE DEF t
    <2> QED BY <2>1, Zenon DEF ScheduledTo
<1> HIDE DEF t
<1>14. /\ DOMAIN t.plan = DOMAIN s.plan \cup {r} /\ t.plan[r] = n
       /\ \A q \in DOMAIN s.plan : t.plan[q] = s.plan[q]
    BY <1>9, <1>11, <1>13
<1>15. SameDone(s) /\ FloorA(s) /\ FloorB(s)
    BY DEF Second
<1>16. SameDone(t)
    <2> SUFFICES ASSUME NEW q \in Range(t.running), q \in Range(running) PROVE t.computed[q] = computed[q]
        BY DEF SameDone
    <2>1. q \in Range(s.running) /\ q # r
        BY <1>4, <1>8, <1>13
    <2>2. q \in Requests \ {r}
        BY <1>1, <2>1, QueueParts
    <2> QED BY <1>10, <1>13, <1>15, <2>1, <2>2 DEF SameDone
<1>17. FloorA(t)
    <2> SUFFICES ASSUME NEW p \in Requests, Decoding(p), p \in Range(t.running),
                        NEW q \in DOMAIN t.plan \ {p}, t.computed[q] < prompt[q]
                 PROVE  t.plan[q] <= Cap
        BY DEF FloorA
    <2>1. p \in Range(running) /\ computed[p] >= prompt[p]
        BY DEF Decoding
    <2>2. p # r /\ p \in Range(s.running)
        BY <1>4, <1>8, <1>13, <2>1
    <2>3. CASE q = r
        <3>1. hit < prompt[r]
            BY <1>10, <1>13, <2>3
        <3>2. s.computed[p] >= prompt[p]
            BY <1>15, <2>1, <2>2 DEF SameDone
        <3>3. n <= Cap
            BY <1>6, <2>2, <3>1, <3>2
        <3> QED BY <1>14, <2>3, <3>3
    <2>4. CASE q # r
        <3>1. q \in DOMAIN s.plan \ {p} /\ t.plan[q] = s.plan[q]
            BY <1>14, <2>4
        <3>2. q \in Requests \ {r}
            BY <1>9, <1>11, <3>1
        <3>3. s.computed[q] < prompt[q]
            BY <1>10, <1>13, <3>2
        <3> QED BY <1>15, <2>2, <3>1, <3>3 DEF FloorA
    <2> QED BY <2>3, <2>4
<1>18. FloorB(t)
    <2> SUFFICES ASSUME Enough, NEW q \in DOMAIN t.plan, Decoding(q) PROVE t.plan[q] = Wants(q)
        BY Zenon DEF FloorB
    <2>1. q # r
        BY <1>4 DEF Decoding
    <2>2. q \in DOMAIN s.plan /\ t.plan[q] = s.plan[q]
        BY <1>14, <2>1
    <2> QED BY <1>15, <2>2, Zenon DEF FloorB
<1>19. Range(t.waiting) \subseteq Range(waiting)
    BY <1>8, <1>13 DEF Second
<1>20. ASSUME NEW k \in (j + 1)..Len(waiting) PROVE waiting[k] \in Range(t.waiting)
    <2>1. k \in ((j - 1) + 1)..Len(waiting) /\ k \in 1..Len(waiting) /\ k # j
        BY <1>2
    <2>2. waiting[k] \in Range(s.waiting)
        BY <2>1 DEF Second
    <2>3. waiting[k] # r
        BY <1>3, <2>1 DEF r
    <2> QED BY <1>8, <1>13, <2>2, <2>3
<1>21. Second(j, t)
    BY <1>12, <1>16, <1>17, <1>18, <1>19, <1>20 DEF Second
<1> QED BY <1>21 DEF t, u, n, r

\* The whole of the loop.
LEMMA LoopTwo ==
    ASSUME Before, NEW i, NEW s, First(i, s), ~ s.preempting, NEW t \in AllAdmitted(s)
    PROVE  Second(Len(waiting), t)
<1> DEFINE n == Len(waiting)
<1>1. n \in Nat
    BY QueueParts DEF Before
<1>2. s.waiting = waiting /\ Second(0, s)
    BY SecondStart
<1>3. PICK f : IsAdmitted(s, f) /\ AllAdmitted(s) = f[n]
    BY <1>1, <1>2, AllAdmittedIs
<1>4. \A j \in 0..n : f[j] = IF j = 0 THEN {s} ELSE Admitted(f[j - 1], waiting[j])
    BY <1>2, <1>3, Zenon DEF IsAdmitted
<1> DEFINE S == {j \in 0..n : \A u \in f[j] : Second(j, u)}
<1>5. 0 \in S
    <2>1. 0 \in 0..n
        BY <1>1
    <2>2. f[0] = {s}
        BY <1>4, <2>1
    <2> QED BY <1>2, <2>1, <2>2
<1>6. ASSUME NEW j \in 1..n, j - 1 \in S PROVE j \in S
    <2>1. j \in 0..n /\ j # 0 /\ j \in Nat \ {0}
        BY <1>1
    <2>2. f[j] = Admitted(f[j - 1], waiting[j])
        BY <1>4, <2>1
    <2>3. ASSUME NEW v \in f[j] PROVE Second(j, v)
        <3>1. PICK u \in f[j - 1] : \E hit \in Hits(waiting[j]) :
                  v = Admit(u, waiting[j], hit, Grant(u, waiting[j], hit))
            <4>1. PICK u \in f[j - 1] :
                     v \in UNION {{Admit(u, waiting[j], hit, m) : m \in {Grant(u, waiting[j], hit)}} :
                                     hit \in Hits(waiting[j])}
                BY <2>2, Zenon DEF Admitted
            <4>2. PICK hit \in Hits(waiting[j]) :
                     v \in {Admit(u, waiting[j], hit, m) : m \in {Grant(u, waiting[j], hit)}}
                BY <4>1, Zenon
            <4>3. v = Admit(u, waiting[j], hit, Grant(u, waiting[j], hit))
                BY <4>2, Zenon
            <4> QED BY <4>3
        <3>2. PICK hit \in Hits(waiting[j]) : v = Admit(u, waiting[j], hit, Grant(u, waiting[j], hit))
            BY <3>1
        <3> DEFINE g == Grant(u, waiting[j], hit)
                   w == Scheduled(Joined(u, waiting[j], hit), waiting[j], g)
        <3>3. \/ v = u
              \/ v = [u EXCEPT !.stopped = TRUE]
              \/ Len(u.running) # MaxSeqs /\ g # 0 /\ Fits(u.blocks, waiting[j], hit + g) /\ v = w
            BY <3>2, Zenon DEF Admit
        <3>4. Second(j - 1, u)
            BY <1>6
        <3>5. Second(j, u) /\ Second(j, [u EXCEPT !.stopped = TRUE])
            BY <2>1, <3>4, SecondSkipped
        <3>6. ASSUME Len(u.running) # MaxSeqs, g # 0, Fits(u.blocks, waiting[j], hit + g)
              PROVE  Second(j, w)
            BY <3>4, <3>6, SecondAdmitted
        <3> HIDE DEF w, g
        <3> QED BY <3>3, <3>5, <3>6, Zenon
    <2> QED BY <2>1, <2>3
<1>7. 0..n \subseteq S
    <2>1. \A j \in 1..n : j - 1 \in S => j \in S
        BY <1>6
    <2> HIDE DEF S
    <2> QED BY <1>1, <1>5, <2>1, UpToInduction, Zenon
<1>8. n \in S
    <2>1. n \in 0..n
        BY <1>1
    <2> HIDE DEF S
    <2> QED BY <1>7, <2>1
<1> QED BY <1>3, <1>8

\* What a step that is planned is, whatever was left out or preempted for it.
LEMMA PlannedFacts ==
    ASSUME Before, NEW s \in Planned
    PROVE  Sound(s) /\ SameDone(s) /\ FloorA(s) /\ FloorB(s)
<1>1. PICK u \in AllContinued(Start) : s \in (IF u.preempting THEN {u} ELSE AllAdmitted(u))
    BY Zenon DEF Planned
<1>2. First(Len(running), u)
    BY LoopOne
<1>3. CASE u.preempting
    <2>1. s = u
        BY <1>1, <1>3, Zenon
    <2> QED BY <1>2, <2>1, Zenon DEF First
<1>4. CASE ~ u.preempting
    <2>1. s \in AllAdmitted(u)
        BY <1>1, <1>4, Zenon
    <2>2. Second(Len(waiting), s)
        BY <1>2, <1>4, <2>1, LoopTwo
    <2> QED BY <2>2, Zenon DEF Second
<1> QED BY <1>3, <1>4

(***************************************************************************)
(* The steps                                                               *)
(***************************************************************************)

\* What the plan of a step has.
Planning ==
    /\ PlanOK(running, computed, blocks, plan)
    /\ Cardinality(DOMAIN plan) <= Budget

Inv == setting \in Settings /\ Before /\ Planning

\* Without a plan there is nothing to show of it.
LEMMA IdlePlan ==
    ASSUME NEW run, NEW done, NEW held
    PROVE  PlanOK(run, done, held, Idle) /\ Cardinality(DOMAIN Idle) <= Budget
<1>1. DOMAIN Idle = {}
    BY DEF Idle
<1>2. Cardinality(DOMAIN Idle) = 0 /\ Budget \in Nat
    BY <1>1, FS_EmptySet, BudgetAssumption
<1> QED BY <1>1, <1>2 DEF PlanOK

\* Blocks that are given back.
LEMMA HeldLess ==
    ASSUME NEW held, HeldOK(held), NEW b, DOMAIN b = Requests, b = [r \in Requests |-> b[r]],
           \A r \in Requests : b[r] = <<>> \/ b[r] = held[r]
    PROVE  HeldOK(b)
<1>1. <<>> \in Seq(1..NumBlocks) /\ Len(<<>>) = 0 /\ IsInjective(<<>>) /\ Range(<<>>) = {}
    <2>1. <<>> \in Seq(1..NumBlocks) /\ Len(<<>>) = 0
        BY EmptySeq
    <2>2. DOMAIN <<>> = {}
        BY <2>1, LenProperties
    <2> QED BY <2>1, <2>2 DEF IsInjective, Range
<1>2. /\ held \in [Requests -> Seq(1..NumBlocks)]
      /\ \A r \in Requests : IsInjective(held[r])
      /\ \A q, r \in Requests : q # r => Range(held[q]) \cap Range(held[r]) = {}
      /\ \A r \in Requests : Len(held[r]) <= Needs(MaxModelLen)
    BY DEF HeldOK, Apart
<1>3. b \in [Requests -> Seq(1..NumBlocks)]
    <2>1. \A r \in Requests : b[r] \in Seq(1..NumBlocks)
        BY <1>1, <1>2
    <2> QED BY <2>1
<1>4. 0 <= Needs(MaxModelLen)
    BY BudgetAssumption, NeedsFacts
<1>5. \A r \in Requests : IsInjective(b[r]) /\ Len(b[r]) <= Needs(MaxModelLen)
    BY <1>1, <1>2, <1>4
<1>6. \A q, r \in Requests : q # r => Range(b[q]) \cap Range(b[r]) = {}
    BY <1>1, <1>2
<1> QED BY <1>3, <1>5, <1>6 DEF HeldOK, Apart

\* Requests that leave the queues.
LEMMA QueueLess ==
    ASSUME NEW q \in Seq(Requests), IsInjective(q), NEW gone
    PROVE  /\ Kept(q, Requests \ gone) \in Seq(Requests)
           /\ IsInjective(Kept(q, Requests \ gone))
           /\ Range(Kept(q, Requests \ gone)) = Range(q) \ gone
           /\ Len(Kept(q, Requests \ gone)) <= Len(q)
           /\ Len(Kept(q, Requests \ gone)) \in Nat
<1> DEFINE k == Kept(q, Requests \ gone)
<1>1. /\ k \in Seq(Requests) /\ Len(k) <= Len(q) /\ Range(k) = Range(q) \cap (Requests \ gone)
      /\ IsInjective(k)
    BY KeptFacts
<1> HIDE DEF k
<1>2. Range(q) \subseteq Requests /\ Len(k) \in Nat
    BY <1>1, RangeOf, LenProperties
<1>3. Range(k) = Range(q) \ gone
    BY <1>1, <1>2
<1> QED BY <1>1, <1>2, <1>3 DEF k

LEMMA InvInit == Init => Inv
<1> SUFFICES ASSUME Init PROVE Inv
    OBVIOUS
<1>1. Here = {}
    BY DEF Init, Here
<1>2. LengthsOK
    <2>1. MaxModelLen \in Nat /\ NumSpec \in Nat
        BY BudgetAssumption
    <2> QED BY <1>1, <2>1 DEF Init, LengthsOK
<1>3. QueuesOK(running, waiting)
    <2>1. running = <<>> /\ waiting = <<>> /\ <<>> \in Seq(Requests) /\ Len(<<>>) = 0
        BY EmptySeq DEF Init
    <2>2. IsInjective(<<>>) /\ Range(<<>>) = {}
        <3>1. DOMAIN <<>> = {}
            BY <2>1, LenProperties
        <3> QED BY <3>1 DEF IsInjective, Range
    <2>3. <<>> \o <<>> = <<>>
        BY <2>1, ConcatEmptySeq
    <2>4. 0 <= MaxSeqs
        BY BudgetAssumption
    <2> QED BY <1>1, <2>1, <2>2, <2>3, <2>4, Zenon DEF QueuesOK
<1>4. DoneOK(computed)
    <2>1. MaxModelLen \in Nat
        BY BudgetAssumption
    <2> QED BY <1>1, <2>1 DEF Init, DoneOK
<1>5. HeldOK(blocks)
    <2>1. <<>> \in Seq(1..NumBlocks) /\ Len(<<>>) = 0 /\ IsInjective(<<>>) /\ Range(<<>>) = {}
        <3>1. <<>> \in Seq(1..NumBlocks) /\ Len(<<>>) = 0
            BY EmptySeq
        <3>2. DOMAIN <<>> = {}
            BY <3>1, LenProperties
        <3> QED BY <3>1, <3>2 DEF IsInjective, Range
    <2>2. blocks = [r \in Requests |-> <<>>]
        BY DEF Init
    <2>3. 0 <= Needs(MaxModelLen)
        BY BudgetAssumption, NeedsFacts
    <2>4. blocks \in [Requests -> Seq(1..NumBlocks)] /\ \A r \in Requests : blocks[r] = <<>>
        BY <2>1, <2>2
    <2> QED BY <2>1, <2>3, <2>4 DEF HeldOK, Apart
<1>6. Planning
    <2>1. plan = Idle
        BY DEF Init
    <2> QED BY <2>1, IdlePlan, Zenon DEF Planning
<1>7. setting \in Settings
    BY DEF Init
<1> QED BY <1>2, <1>3, <1>4, <1>5, <1>6, <1>7 DEF Inv, Before

\* What is known of a state.
LEMMA InvFacts ==
    ASSUME Inv
    PROVE  /\ running \in Seq(Requests) /\ waiting \in Seq(Requests)
           /\ IsInjective(running) /\ IsInjective(waiting)
           /\ Range(running) \cap Range(waiting) = {}
           /\ Range(running) \cup Range(waiting) = Here
           /\ Len(running) \in Nat /\ Len(running) <= MaxSeqs
           /\ DOMAIN plan \subseteq Range(running)
           /\ Here \subseteq Requests
<1>1. QueuesOK(running, waiting) /\ PlanOK(running, computed, blocks, plan)
    BY DEF Inv, Before, Planning
<1> QED BY <1>1, QueueParts DEF QueuesOK, PlanOK, Here

\* Queues as they must be.
LEMMA QueuesAgain ==
    ASSUME NEW run \in Seq(Requests), NEW wait \in Seq(Requests), IsInjective(run), IsInjective(wait),
           Range(run) \cap Range(wait) = {}
    PROVE  IsInjective(run \o wait) /\ Range(run \o wait) = Range(run) \cup Range(wait)
BY ConcatRange

LEMMA InvArrive ==
    ASSUME Inv, NEW r \in Requests, NEW n \in PromptLens, Arrive(r, n)
    PROVE  Inv'
<1>1. /\ plan = Idle /\ plan' = Idle /\ status[r] = "out"
      /\ status' = [status EXCEPT ![r] = "here"]
      /\ waiting' = Append(waiting, r)
      /\ prompt' = [prompt EXCEPT ![r] = n]
      /\ length' = [length EXCEPT ![r] = n]
      /\ setting' = setting /\ running' = running /\ computed' = computed
      /\ drafts' = drafts /\ blocks' = blocks
    BY DEF Arrive
<1>2. LengthsOK /\ DoneOK(computed) /\ HeldOK(blocks) /\ QueuesOK(running, waiting) /\ setting \in Settings
    BY DEF Inv, Before
<1>3. n \in 1..(MaxModelLen - 1) /\ MaxModelLen \in Nat
    BY PromptAssumption, BudgetAssumption
<1>4. r \notin Here /\ Here' = Here \cup {r}
    BY <1>1, <1>2 DEF LengthsOK, Here
<1>5. LengthsOK'
    <2>1. /\ status' \in [Requests -> {"out", "here", "done"}]
          /\ prompt' \in [Requests -> {0} \cup PromptLens]
          /\ length' \in [Requests -> 0..MaxModelLen]
          /\ drafts' \in [Requests -> 0..NumSpec]
        BY <1>1, <1>2, <1>3 DEF LengthsOK
    <2>2. \A q \in Here' : length'[q] < MaxModelLen
        <3>1. \A q \in Here : q \in Requests /\ q # r /\ length[q] < MaxModelLen
            BY <1>2, <1>4 DEF LengthsOK, Here
        <3>2. \A q \in Requests : length'[q] = IF q = r THEN n ELSE length[q]
            BY <1>1, <1>2 DEF LengthsOK
        <3> QED BY <1>3, <1>4, <3>1, <3>2
    <2> QED BY <2>1, <2>2 DEF LengthsOK
<1>6. QueuesOK(running, waiting)'
    <2>1. /\ waiting' \in Seq(Requests) /\ Range(waiting') = Range(waiting) \cup {r}
          /\ IsInjective(waiting')
        <3>1. r \notin Range(waiting)
            BY <1>4, InvFacts
        <3> QED BY <1>1, <3>1, InvFacts, AppendRange
    <2>2. Range(running') \cap Range(waiting') = {} /\ Range(running') \cup Range(waiting') = Here'
        BY <1>1, <1>4, <2>1, InvFacts
    <2>3. running' \in Seq(Requests) /\ IsInjective(running') /\ Len(running') <= MaxSeqs
        BY <1>1, InvFacts
    <2>4. IsInjective(running' \o waiting') /\ Range(running' \o waiting') = Here'
        BY <2>1, <2>2, <2>3, QueuesAgain
    <2> QED BY <2>1, <2>3, <2>4, Zenon DEF QueuesOK
<1>7. DoneOK(computed)'
    <2>1. computed \in [Requests -> 0..MaxModelLen] /\ computed[r] = 0
        BY <1>2, <1>4 DEF DoneOK
    <2>2. ASSUME NEW q \in Requests
          PROVE  IF q \in Here' THEN computed[q] < length'[q] ELSE computed[q] = 0
        <3>1. IF q \in Here THEN computed[q] < length[q] ELSE computed[q] = 0
            BY <1>2 DEF DoneOK
        <3>2. length'[q] = IF q = r THEN n ELSE length[q]
            BY <1>1, <1>2 DEF LengthsOK
        <3> QED BY <1>3, <1>4, <2>1, <3>1, <3>2
    <2> QED BY <1>1, <2>1, <2>2 DEF DoneOK
<1>8. HeldOK(blocks')
    BY <1>1, <1>2
<1>9. Planning'
    BY <1>1, IdlePlan, Zenon DEF Planning, PlanOK
<1> QED BY <1>1, <1>2, <1>5, <1>6, <1>7, <1>8, <1>9 DEF Inv, Before

LEMMA InvAbort ==
    ASSUME Inv, NEW r \in Requests, Abort(r)
    PROVE  Inv'
<1>1. /\ plan = Idle /\ plan' = Idle /\ status[r] = "here"
      /\ status' = [status EXCEPT ![r] = "done"]
      /\ running' = Kept(running, Requests \ {r})
      /\ waiting' = Kept(waiting, Requests \ {r})
      /\ blocks' = [blocks EXCEPT ![r] = <<>>]
      /\ setting' = setting
    BY DEF Abort
<1>2. /\ drafts' = [q \in Requests |-> IF q \in {r} THEN 0 ELSE drafts[q]]
      /\ prompt' = [q \in Requests |-> IF q \in {r} THEN 0 ELSE prompt[q]]
      /\ length' = [q \in Requests |-> IF q \in {r} THEN 0 ELSE length[q]]
      /\ computed' = [q \in Requests |-> IF q \in {r} THEN 0 ELSE computed[q]]
    BY Zenon DEF Abort, Without
<1>3. LengthsOK /\ DoneOK(computed) /\ HeldOK(blocks) /\ setting \in Settings
    BY DEF Inv, Before
<1>4. MaxModelLen \in Nat /\ NumSpec \in Nat
    BY BudgetAssumption
<1>5. Here' = Here \ {r}
    BY <1>1, <1>3 DEF LengthsOK, Here
<1>6. LengthsOK'
    <2>1. /\ status' \in [Requests -> {"out", "here", "done"}]
          /\ prompt' \in [Requests -> {0} \cup PromptLens]
        BY <1>1, <1>2, <1>3 DEF LengthsOK
    <2>2. /\ length' \in [Requests -> 0..MaxModelLen]
          /\ drafts' \in [Requests -> 0..NumSpec]
        BY <1>2, <1>3, <1>4 DEF LengthsOK
    <2>3. \A q \in Here' : length'[q] < MaxModelLen
        BY <1>2, <1>3, <1>5, InvFacts DEF LengthsOK
    <2> QED BY <2>1, <2>2, <2>3 DEF LengthsOK
<1>7. QueuesOK(running, waiting)'
    <2>1. /\ running' \in Seq(Requests) /\ IsInjective(running') /\ Range(running') = Range(running) \ {r}
          /\ Len(running') <= Len(running) /\ Len(running') \in Nat
          /\ waiting' \in Seq(Requests) /\ IsInjective(waiting') /\ Range(waiting') = Range(waiting) \ {r}
        BY <1>1, InvFacts, QueueLess
    <2>2. Range(running') \cap Range(waiting') = {} /\ Range(running') \cup Range(waiting') = Here'
        BY <1>5, <2>1, InvFacts
    <2>3. Len(running') <= MaxSeqs
        BY <2>1, InvFacts, BudgetAssumption
    <2>4. IsInjective(running' \o waiting') /\ Range(running' \o waiting') = Here'
        BY <2>1, <2>2, QueuesAgain
    <2> QED BY <2>1, <2>3, <2>4, Zenon DEF QueuesOK
<1>8. DoneOK(computed)'
    <2>1. computed' \in [Requests -> 0..MaxModelLen]
        BY <1>2, <1>3, <1>4 DEF DoneOK
    <2>2. ASSUME NEW q \in Requests
          PROVE  IF q \in Here' THEN computed'[q] < length'[q] ELSE computed'[q] = 0
        BY <1>2, <1>3, <1>5 DEF DoneOK
    <2> QED BY <2>1, <2>2 DEF DoneOK
<1>9. HeldOK(blocks')
    <2>1. blocks \in [Requests -> Seq(1..NumBlocks)]
        BY <1>3 DEF HeldOK, Apart
    <2>2. /\ DOMAIN blocks' = Requests /\ blocks' = [q \in Requests |-> blocks'[q]]
          /\ \A q \in Requests : blocks'[q] = <<>> \/ blocks'[q] = blocks[q]
        BY <1>1, <2>1
    <2> QED BY <1>3, <2>2, HeldLess
<1>10. Planning'
    BY <1>1, IdlePlan, Zenon DEF Planning, PlanOK
<1> QED BY <1>1, <1>3, <1>6, <1>7, <1>8, <1>9, <1>10 DEF Inv, Before

LEMMA InvSchedule ==
    ASSUME Inv, Schedule
    PROVE  /\ Inv'
           /\ \A r \in Requests : Decoding(r) /\ r \in DOMAIN plan' =>
                 /\ \A q \in DOMAIN plan' \ {r} : computed'[q] < prompt[q] => plan'[q] <= Cap
                 /\ Enough => plan'[r] = Wants(r)
<1>1. PICK s \in Planned :
          /\ running' = s.running /\ waiting' = s.waiting /\ blocks' = s.blocks
          /\ computed' = s.computed /\ plan' = s.plan
          /\ drafts' = [r \in Requests |-> IF r \in Range(s.running) THEN drafts[r] ELSE 0]
    BY Zenon DEF Schedule
<1>2. setting' = setting /\ status' = status /\ prompt' = prompt /\ length' = length
    BY DEF Schedule
<1>3. Before /\ setting \in Settings
    BY DEF Inv
<1>4. Sound(s) /\ FloorA(s) /\ FloorB(s)
    BY <1>3, PlannedFacts
<1>5. /\ QueuesOK(s.running, s.waiting) /\ DoneOK(s.computed) /\ HeldOK(s.blocks)
      /\ PlanOK(s.running, s.computed, s.blocks, s.plan)
      /\ s.budget \in Nat /\ Cardinality(DOMAIN s.plan) + s.budget <= Budget
    BY <1>4, Zenon DEF Sound
<1>6. Here' = Here
    BY <1>2 DEF Here
<1>7. LengthsOK'
    <2>1. LengthsOK /\ NumSpec \in Nat
        BY <1>3, BudgetAssumption DEF Before
    <2>2. drafts' \in [Requests -> 0..NumSpec]
        BY <1>1, <2>1 DEF LengthsOK
    <2> QED BY <1>2, <1>6, <2>1, <2>2 DEF LengthsOK
<1>8. QueuesOK(running, waiting)'
    BY <1>1, <1>5, <1>6 DEF QueuesOK
<1>9. DoneOK(computed)'
    BY <1>1, <1>2, <1>5, <1>6 DEF DoneOK
<1>10. HeldOK(blocks')
    BY <1>1, <1>5
<1>11. Planning'
    <2>1. PlanOK(running', computed', blocks', plan')
        BY <1>1, <1>5, Zenon
    <2>2. IsFiniteSet(DOMAIN s.plan)
        <3>1. IsFiniteSet(Range(s.running)) /\ DOMAIN s.plan \subseteq Range(s.running)
            BY <1>5, QueueParts DEF PlanOK
        <3> QED BY <3>1, FS_Subset
    <2>3. Cardinality(DOMAIN s.plan) <= Budget
        <3>1. Cardinality(DOMAIN s.plan) \in Nat /\ Budget \in Nat
            BY <2>2, FS_CardinalityType, BudgetAssumption
        <3> QED BY <1>5, <3>1
    <2> QED BY <1>1, <2>1, <2>3, Zenon DEF Planning
<1>12. Inv'
    BY <1>2, <1>3, <1>7, <1>8, <1>9, <1>10, <1>11 DEF Inv, Before
<1>13. ASSUME NEW r \in Requests, Decoding(r), r \in DOMAIN plan'
       PROVE  /\ \A q \in DOMAIN plan' \ {r} : computed'[q] < prompt[q] => plan'[q] <= Cap
              /\ Enough => plan'[r] = Wants(r)
    <2>1. r \in DOMAIN s.plan /\ r \in Range(s.running)
        BY <1>1, <1>5, <1>13 DEF PlanOK
    <2>2. \A q \in DOMAIN s.plan \ {r} : s.computed[q] < prompt[q] => s.plan[q] <= Cap
        BY <1>4, <1>13, <2>1, Zenon DEF FloorA
    <2>3. Enough => s.plan[r] = Wants(r)
        BY <1>4, <1>13, <2>1, Zenon DEF FloorB
    <2> QED BY <1>1, <2>2, <2>3, Zenon
<1> QED BY <1>12, <1>13

\* What becomes of the length of a request that is answered.
LEMMA AnsweredFacts ==
    ASSUME Inv, NEW r \in DOMAIN plan, computed[r] + plan[r] >= length[r],
           NEW a \in 0..NumSpec, a <= computed[r] + plan[r] - length[r],
           NEW l, l = length[r] + a + 1
    PROVE  /\ l \in 0..MaxModelLen /\ l - 1 \in 0..MaxModelLen /\ l - 1 < l
           /\ ~ l >= Min({MaxModelLen, prompt[r] + MaxOutput}) => l < MaxModelLen
<1>1. r \in Requests
    BY InvFacts
<1>2. /\ plan[r] \in 1..Budget /\ computed[r] + plan[r] < MaxModelLen
      /\ computed[r] \in 0..MaxModelLen /\ length[r] \in 0..MaxModelLen
      /\ prompt[r] \in {0} \cup PromptLens
    BY <1>1 DEF Inv, Before, Planning, PlanOK, DoneOK, LengthsOK
<1>3. MaxModelLen \in Nat /\ NumSpec \in Nat /\ Budget \in Nat /\ MaxOutput \in Nat
    BY BudgetAssumption, PromptAssumption
<1>4. \A v \in {0} \cup PromptLens : v \in Int
    BY <1>3, PromptAssumption
<1>5. prompt[r] + MaxOutput \in Int
    <2>1. prompt[r] \in Int
        BY <1>2, <1>4, Zenon
    <2> DEFINE x == prompt[r]
    <2> HIDE DEF x
    <2>2. x \in Int
        BY <2>1 DEF x
    <2>3. x + MaxOutput \in Int
        BY <1>3, <2>2
    <2> QED BY <2>3 DEF x
<1> DEFINE m == Min({MaxModelLen, prompt[r] + MaxOutput})
<1>6. m \in Int /\ m <= MaxModelLen
    <2> DEFINE x == prompt[r] + MaxOutput
    <2> HIDE DEF x
    <2>1. x \in Int /\ MaxModelLen \in Int
        BY <1>3, <1>5 DEF x
    <2>2. Min({MaxModelLen, x}) \in {MaxModelLen, x} /\ Min({MaxModelLen, x}) <= MaxModelLen
        BY <2>1, MinOfTwo
    <2> QED BY <2>1, <2>2 DEF x
<1> HIDE DEF m
<1>7. l \in 0..MaxModelLen /\ l - 1 \in 0..MaxModelLen /\ l - 1 < l
    BY <1>2, <1>3
<1>8. ~ l >= m => l < MaxModelLen
    BY <1>3, <1>6, <1>7
<1> QED BY <1>7, <1>8 DEF m

LEMMA InvForward ==
    ASSUME Inv, Forward
    PROVE  Inv'
<1> DEFINE answered == {r \in DOMAIN plan : computed[r] + plan[r] >= length[r]}
<1>1. PICK accepted \in [answered -> 0..NumSpec], ended \in SUBSET answered :
         LET len(r) == IF r \in answered THEN length[r] + accepted[r] + 1 ELSE length[r]
         IN  /\ \A r \in answered :
                   /\ accepted[r] <= computed[r] + plan[r] - length[r]
                   /\ len(r) >= Min({MaxModelLen, prompt[r] + MaxOutput}) => r \in ended
             /\ prompt' = Without(prompt, ended)
             /\ length' = Without([r \in Requests |-> len(r)], ended)
             /\ computed' = Without([r \in Requests |->
                   IF r \in answered THEN len(r) - 1
                   ELSE IF r \in DOMAIN plan THEN computed[r] + plan[r] ELSE computed[r]], ended)
             /\ \E next \in [answered \ ended -> 0..NumSpec] :
                   drafts' = [r \in Requests |-> IF r \in answered \ ended THEN next[r]
                                                ELSE IF r \in DOMAIN plan THEN 0 ELSE drafts[r]]
             /\ status' = [r \in Requests |-> IF r \in ended THEN "done" ELSE status[r]]
             /\ running' = Kept(running, Requests \ ended)
             /\ blocks' = [r \in Requests |-> IF r \in ended THEN <<>> ELSE blocks[r]]
    BY Zenon DEF Forward
<1>2. plan' = Idle /\ setting' = setting /\ waiting' = waiting
    BY DEF Forward
<1> DEFINE len(r) == IF r \in answered THEN length[r] + accepted[r] + 1 ELSE length[r]
           done(r) == IF r \in answered THEN len(r) - 1
                      ELSE IF r \in DOMAIN plan THEN computed[r] + plan[r] ELSE computed[r]
<1>3. \A r \in answered : /\ accepted[r] <= computed[r] + plan[r] - length[r]
                          /\ len(r) >= Min({MaxModelLen, prompt[r] + MaxOutput}) => r \in ended
    BY <1>1, Zenon
<1>4. /\ prompt' = Without(prompt, ended)
      /\ length' = Without([r \in Requests |-> len(r)], ended)
      /\ computed' = Without([r \in Requests |-> done(r)], ended)
    BY <1>1, Zenon
<1>5. PICK next \in [answered \ ended -> 0..NumSpec] :
         drafts' = [r \in Requests |-> IF r \in answered \ ended THEN next[r]
                                      ELSE IF r \in DOMAIN plan THEN 0 ELSE drafts[r]]
    BY <1>1, Zenon
<1>6. /\ status' = [r \in Requests |-> IF r \in ended THEN "done" ELSE status[r]]
      /\ running' = Kept(running, Requests \ ended)
      /\ blocks' = [r \in Requests |-> IF r \in ended THEN <<>> ELSE blocks[r]]
    BY <1>1, Zenon
<1>7. LengthsOK /\ DoneOK(computed) /\ HeldOK(blocks) /\ setting \in Settings
      /\ PlanOK(running, computed, blocks, plan)
    BY DEF Inv, Before, Planning
<1>8. MaxModelLen \in Nat /\ NumSpec \in Nat /\ Budget \in Nat
    BY BudgetAssumption
<1>9. answered \subseteq DOMAIN plan /\ DOMAIN plan \subseteq Here /\ Here \subseteq Requests /\ ended \subseteq answered
    BY InvFacts
<1>10. ASSUME NEW r \in answered
       PROVE  /\ len(r) \in 0..MaxModelLen /\ done(r) \in 0..MaxModelLen /\ done(r) < len(r)
              /\ r \notin ended => len(r) < MaxModelLen
    <2>1. len(r) = length[r] + accepted[r] + 1
        <3>1. r \in answered
            OBVIOUS
        <3> HIDE DEF answered
        <3> QED BY <3>1, Zenon
    <2>2. done(r) = len(r) - 1
        <3>1. r \in answered
            OBVIOUS
        <3> HIDE DEF answered, len
        <3> QED BY <3>1, Zenon
    <2>3. r \in DOMAIN plan /\ computed[r] + plan[r] >= length[r]
        OBVIOUS
    <2>4. accepted[r] \in 0..NumSpec /\ accepted[r] <= computed[r] + plan[r] - length[r]
        BY <1>3
    <2>5. r \notin ended => ~ len(r) >= Min({MaxModelLen, prompt[r] + MaxOutput})
        BY <1>3, Zenon
    <2> DEFINE a == accepted[r]
               l == len(r)
    <2>6. a \in 0..NumSpec /\ a <= computed[r] + plan[r] - length[r] /\ l = length[r] + a + 1
        BY <2>1, <2>4
    <2> HIDE DEF a, l, len, done, answered
    <2>7. /\ l \in 0..MaxModelLen /\ l - 1 \in 0..MaxModelLen /\ l - 1 < l
          /\ ~ l >= Min({MaxModelLen, prompt[r] + MaxOutput}) => l < MaxModelLen
        BY <2>3, <2>6, AnsweredFacts
    <2> QED BY <2>2, <2>5, <2>7, Zenon DEF l
<1>11. ASSUME NEW r \in Requests, r \notin answered
       PROVE  /\ len(r) = length[r] /\ length[r] \in 0..MaxModelLen /\ done(r) \in 0..MaxModelLen
              /\ r \in Here => done(r) < length[r] /\ length[r] < MaxModelLen
              /\ r \notin Here => done(r) = 0
    <2>1. length[r] \in 0..MaxModelLen /\ (r \in Here => length[r] < MaxModelLen)
        BY <1>7 DEF LengthsOK
    <2>2. computed[r] \in 0..MaxModelLen /\ IF r \in Here THEN computed[r] < length[r] ELSE computed[r] = 0
        BY <1>7 DEF DoneOK
    <2>3. len(r) = length[r]
        BY <1>11, Zenon
    <2>4. CASE r \in DOMAIN plan
        <3>1. done(r) = computed[r] + plan[r] /\ ~ computed[r] + plan[r] >= length[r] /\ r \in Here
            BY <1>9, <1>11, <2>4
        <3>2. plan[r] \in 1..Budget
            BY <1>7, <2>4 DEF PlanOK
        <3> HIDE DEF done
        <3> QED BY <1>8, <2>1, <2>2, <2>3, <3>1, <3>2
    <2>5. CASE r \notin DOMAIN plan
        <3>1. done(r) = computed[r]
            BY <1>11, <2>5, Zenon
        <3> HIDE DEF done
        <3> QED BY <2>1, <2>2, <2>3, <3>1
    <2> QED BY <2>4, <2>5
<1> HIDE DEF len, done
<1>12. Here' = Here \ ended
    <2>1. status \in [Requests -> {"out", "here", "done"}]
        BY <1>7 DEF LengthsOK
    <2>2. \A r \in Requests : status'[r] = IF r \in ended THEN "done" ELSE status[r]
        BY <1>6
    <2> HIDE DEF answered
    <2> QED BY <2>2 DEF Here
<1>13. /\ prompt' = [r \in Requests |-> IF r \in ended THEN 0 ELSE prompt[r]]
       /\ \A r \in Requests : /\ length'[r] = IF r \in ended THEN 0 ELSE len(r)
                              /\ computed'[r] = IF r \in ended THEN 0 ELSE done(r)
       /\ length' = [r \in Requests |-> IF r \in ended THEN 0 ELSE len(r)]
       /\ computed' = [r \in Requests |-> IF r \in ended THEN 0 ELSE done(r)]
    <2> HIDE DEF answered
    <2> QED BY <1>4 DEF Without
<1>14. \A r \in Requests : len(r) \in 0..MaxModelLen /\ done(r) \in 0..MaxModelLen
    <2> HIDE DEF answered
    <2> QED BY <1>10, <1>11
<1>15. LengthsOK'
    <2>1. /\ status' \in [Requests -> {"out", "here", "done"}]
          /\ prompt' \in [Requests -> {0} \cup PromptLens]
        <3> HIDE DEF answered
        <3> QED BY <1>6, <1>7, <1>13 DEF LengthsOK
    <2>2. length' \in [Requests -> 0..MaxModelLen]
        <3> HIDE DEF answered
        <3> QED BY <1>8, <1>13, <1>14
    <2>3. drafts' \in [Requests -> 0..NumSpec]
        <3>1. drafts \in [Requests -> 0..NumSpec]
            BY <1>7 DEF LengthsOK
        <3> HIDE DEF answered
        <3>2. \A r \in answered \ ended : next[r] \in 0..NumSpec
            OBVIOUS
        <3> QED BY <1>5, <1>8, <3>1, <3>2
    <2>4. ASSUME NEW r \in Here' PROVE length'[r] < MaxModelLen
        <3>1. r \in Here /\ r \in Requests /\ r \notin ended
            BY <1>9, <1>12
        <3>2. length'[r] = len(r)
            BY <1>13, <3>1
        <3>3. CASE r \in answered
            <4> HIDE DEF answered
            <4> QED BY <1>10, <3>1, <3>2, <3>3
        <3>4. CASE r \notin answered
            <4> HIDE DEF answered
            <4> QED BY <1>11, <3>1, <3>2, <3>4
        <3> QED BY <3>3, <3>4
    <2> QED BY <2>1, <2>2, <2>3, <2>4 DEF LengthsOK
<1>16. DoneOK(computed)'
    <2>1. computed' \in [Requests -> 0..MaxModelLen]
        <3> HIDE DEF answered
        <3> QED BY <1>8, <1>13, <1>14
    <2>2. ASSUME NEW r \in Requests
          PROVE  IF r \in Here' THEN computed'[r] < length'[r] ELSE computed'[r] = 0
        <3>1. CASE r \in ended
            BY <1>12, <1>13, <3>1
        <3>2. CASE r \notin ended /\ r \in answered
            <4>1. r \in Here'
                BY <1>9, <1>12, <3>2
            <4>2. computed'[r] = done(r) /\ length'[r] = len(r)
                BY <1>13, <3>2
            <4> HIDE DEF answered
            <4> QED BY <1>10, <3>2, <4>1, <4>2
        <3>3. CASE r \notin ended /\ r \notin answered
            <4>1. computed'[r] = done(r) /\ length'[r] = len(r) /\ (r \in Here' <=> r \in Here)
                BY <1>12, <1>13, <3>3
            <4> HIDE DEF answered
            <4> QED BY <1>11, <3>3, <4>1
        <3> QED BY <3>1, <3>2, <3>3
    <2> QED BY <2>1, <2>2 DEF DoneOK
<1>17. QueuesOK(running, waiting)'
    <2>1. /\ running' \in Seq(Requests) /\ IsInjective(running') /\ Range(running') = Range(running) \ ended
          /\ Len(running') <= Len(running) /\ Len(running') \in Nat
        <3> HIDE DEF answered
        <3> QED BY <1>6, InvFacts, QueueLess
    <2>2. waiting' \in Seq(Requests) /\ IsInjective(waiting')
        BY <1>2, InvFacts
    <2>3. ended \subseteq Range(running)
        BY <1>9, InvFacts
    <2>4. Range(running') \cap Range(waiting') = {} /\ Range(running') \cup Range(waiting') = Here'
        <3> HIDE DEF answered
        <3> QED BY <1>2, <1>12, <2>1, <2>3, InvFacts
    <2>5. Len(running') <= MaxSeqs
        BY <2>1, InvFacts, BudgetAssumption
    <2>6. IsInjective(running' \o waiting') /\ Range(running' \o waiting') = Here'
        <3> HIDE DEF answered
        <3> QED BY <2>1, <2>2, <2>4, QueuesAgain
    <2> QED BY <2>1, <2>2, <2>5, <2>6, Zenon DEF QueuesOK
<1>18. HeldOK(blocks')
    <2> HIDE DEF answered
    <2>1. blocks \in [Requests -> Seq(1..NumBlocks)]
        BY <1>7 DEF HeldOK, Apart
    <2>2. /\ DOMAIN blocks' = Requests /\ blocks' = [q \in Requests |-> blocks'[q]]
          /\ \A q \in Requests : blocks'[q] = <<>> \/ blocks'[q] = blocks[q]
        BY <1>6, <2>1
    <2> QED BY <1>7, <2>2, HeldLess
<1>19. Planning'
    BY <1>2, IdlePlan, Zenon DEF Planning, PlanOK
<1> HIDE DEF answered
<1> QED BY <1>2, <1>7, <1>15, <1>16, <1>17, <1>18, <1>19, Zenon DEF Inv, Before

LEMMA InvNext == Inv /\ [Next]_vars => Inv'
<1> SUFFICES ASSUME Inv, [Next]_vars PROVE Inv'
    OBVIOUS
<1>1. ASSUME NEW r \in Requests, Abort(r) PROVE Inv'
    BY <1>1, InvAbort
<1>2. ASSUME NEW r \in Requests, NEW n \in PromptLens, Arrive(r, n) PROVE Inv'
    BY <1>2, InvArrive
<1>3. CASE Schedule
    BY <1>3, InvSchedule
<1>4. CASE Forward
    BY <1>4, InvForward
<1>5. CASE UNCHANGED vars
    <2>1. /\ setting' = setting /\ status' = status /\ waiting' = waiting /\ running' = running
          /\ prompt' = prompt /\ length' = length /\ computed' = computed /\ drafts' = drafts
          /\ blocks' = blocks /\ plan' = plan
        BY <1>5 DEF vars, queues
    <2> QED BY <2>1 DEF Inv, Before, Planning, LengthsOK, QueuesOK, DoneOK, HeldOK, PlanOK, Here, Apart
<1> QED BY <1>1, <1>2, <1>3, <1>4, <1>5 DEF Next

\* What every state of the engine has: who is here is in one queue, has its
\* blocks for itself and something left to compute, and what is planned fits.
THEOREM Invariant == Spec => []Inv
BY InvInit, InvNext, PTL DEF Spec

\* Every variable has its type, no request has more blocks than the longest may
\* need, and what is planned stays below the last position of the model.
THEOREM TypeCorrect == Spec => []TypeOK
<1>1. Inv => TypeOK
    <2> SUFFICES ASSUME Inv PROVE TypeOK
        OBVIOUS
    <2>1. setting \in Settings /\ LengthsOK /\ QueuesOK(running, waiting) /\ DoneOK(computed)
          /\ HeldOK(blocks) /\ PlanOK(running, computed, blocks, plan)
        BY DEF Inv, Before, Planning
    <2>2. ASSUME NEW r \in Requests
          PROVE  Len(blocks[r]) <= Needs(MaxModelLen) /\ Range(blocks[r]) \subseteq 1..NumBlocks
        <3>1. blocks[r] \in Seq(1..NumBlocks) /\ Len(blocks[r]) <= Needs(MaxModelLen)
            BY <2>1 DEF HeldOK, Apart
        <3> QED BY <3>1, RangeOf
    <2>3. /\ status \in [Requests -> {"out", "here", "done"}]
          /\ prompt \in [Requests -> {0} \cup PromptLens]
          /\ length \in [Requests -> 0..MaxModelLen] /\ drafts \in [Requests -> 0..NumSpec]
        BY <2>1, Zenon DEF LengthsOK
    <2>4. computed \in [Requests -> 0..MaxModelLen]
        BY <2>1, Zenon DEF DoneOK
    <2>5. /\ IsInjective(running \o waiting) /\ Len(running) <= MaxSeqs
          /\ Range(running \o waiting) = {r \in Requests : status[r] = "here"}
        BY <2>1, Zenon DEF QueuesOK, Here
    <2>6. /\ DOMAIN plan \subseteq Range(running)
          /\ \A r \in DOMAIN plan : plan[r] \in 1..Budget /\ computed[r] + plan[r] < MaxModelLen
        BY <2>1, Zenon DEF PlanOK
    <2> QED BY <2>1, <2>2, <2>3, <2>4, <2>5, <2>6, Zenon DEF TypeOK
<1> QED BY <1>1, Invariant, PTL

\* What a request that decodes gets of its step, and what others may prefill in it.
THEOREM DecodeFloorAlways == Spec => DecodeFloor
<1>1. Inv => [Schedule =>
         \A r \in Requests : Decoding(r) /\ r \in DOMAIN plan' =>
            /\ \A q \in DOMAIN plan' \ {r} : computed'[q] < prompt[q] => plan'[q] <= Cap
            /\ CaughtUp /\ Len(running) * Max({Cap, 1 + NumSpec}) <= Budget => plan'[r] = Wants(r)]_vars
    BY InvSchedule, Zenon DEF Enough, Most
<1> QED BY <1>1, Invariant, PTL DEF DecodeFloor

\* The rows of a step: each that is planned, once.
LEMMA RowsFacts ==
    ASSUME Inv
    PROVE  /\ Rows \in Seq(Requests) /\ Len(Rows) \in Nat
           /\ \A i \in 1..Len(Rows) : Rows[i] \in DOMAIN plan
           /\ Len(Rows) <= MaxSeqs /\ Len(Rows) <= Budget
<1>1. /\ Rows \in Seq(Requests) /\ Range(Rows) = DOMAIN plan /\ IsInjective(Rows)
      /\ Len(Rows) <= Len(running) /\ Len(running) <= MaxSeqs /\ Len(running) \in Nat
    <2>1. /\ running \in Seq(Requests) /\ IsInjective(running) /\ DOMAIN plan \subseteq Range(running)
          /\ Len(running) <= MaxSeqs /\ Len(running) \in Nat
        BY InvFacts
    <2>2. /\ Kept(running, DOMAIN plan) \in Seq(Requests)
          /\ Len(Kept(running, DOMAIN plan)) <= Len(running)
          /\ Range(Kept(running, DOMAIN plan)) = Range(running) \cap DOMAIN plan
          /\ IsInjective(Kept(running, DOMAIN plan))
        BY <2>1, KeptFacts, Zenon
    <2>3. Range(running) \cap DOMAIN plan = DOMAIN plan
        BY <2>1
    <2> QED BY <2>1, <2>2, <2>3, Zenon DEF Rows
<1>2. Len(Rows) \in Nat
    BY <1>1
<1>3. Cardinality(DOMAIN plan) = Len(Rows)
    BY <1>1, RangeSize, Zenon
<1>4. Cardinality(DOMAIN plan) <= Budget
    BY DEF Inv, Planning
<1>5. Range(Rows) = {Rows[i] : i \in 1..Len(Rows)}
    BY <1>1, RangeOf, Zenon
<1>6. ASSUME NEW i \in 1..Len(Rows) PROVE Rows[i] \in DOMAIN plan
    <2>1. Rows[i] \in Range(Rows)
        BY <1>5
    <2> QED BY <1>1, <2>1, Zenon
<1>7. Len(Rows) <= MaxSeqs /\ Len(Rows) <= Budget
    <2>1. MaxSeqs \in Nat
        BY BudgetAssumption
    <2>2. Len(Rows) <= Budget
        BY <1>3, <1>4, Zenon
    <2>3. Len(Rows) <= Len(running) /\ Len(running) <= MaxSeqs /\ Len(running) \in Nat
        BY <1>1, Zenon
    <2> QED BY <1>2, <2>1, <2>2, <2>3
<1> QED BY <1>1, <1>2, <1>6, <1>7, Zenon

\* A slot is in the block that its row names for it.
LEMMA SlotFacts ==
    ASSUME NEW table, NEW row, NEW width, NEW size \in Nat \ {0}, NEW pos \in Nat,
           table[row][Min({pos \div size, width - 1}) + 1] \in Nat
    PROVE  Slot(table, row, width, size, pos) \div size
              = table[row][Min({pos \div size, width - 1}) + 1]
<1> DEFINE b == table[row][Min({pos \div size, width - 1}) + 1]
           n == size * b + (pos % size)
<1>1. b \in Nat
    OBVIOUS
<1>2. Slot(table, row, width, size, pos) = b * size + (pos % size)
    BY Zenon DEF Slot
<1>3. pos % size \in 0..(size - 1)
    BY DivMod
<1> HIDE DEF b
<1>4. size * b \in Nat /\ b * size = size * b /\ size * (b + 1) = size * b + size
    BY <1>1
<1>5. n \in Nat /\ size * b <= n /\ n < size * (b + 1)
    BY <1>1, <1>3, <1>4
<1>6. n = b * size + (pos % size)
    BY <1>4
<1> HIDE DEF n
<1>7. n \div size < b + 1 /\ b <= n \div size
    <2>1. b \in Int /\ b + 1 \in Int
        BY <1>1
    <2> QED BY <1>5, <2>1, Quotient
<1>8. n \div size \in Nat
    BY <1>5, DivMod
<1>9. n \div size = b
    BY <1>1, <1>7, <1>8
<1> QED BY <1>2, <1>6, <1>9, Zenon DEF b

\* The pool tail of a row is its first block.
LEMMA TailSlot ==
    ASSUME Inv, NEW i \in 1..Len(Rows), NEW pos \in Nat
    PROVE  Slot(Tails(Rows), i, 1, TailBlock, pos) \div TailBlock = blocks[Rows[i]][1]
<1> DEFINE r == Rows[i]
           held == blocks[r]
           tail == SubSeq(held, 1, 1)
<1>1. r \in DOMAIN plan /\ r \in Requests /\ TailBlock \in Nat \ {0}
    BY RowsFacts, InvFacts, BlocksAssumption
<1>2. held \in Seq(1..NumBlocks) /\ 1 <= Len(held)
    <2> HIDE DEF r
    <2>1. held \in Seq(1..NumBlocks) /\ Needs(computed[r] + plan[r]) <= Len(held)
          /\ computed[r] \in 0..MaxModelLen /\ plan[r] \in 1..Budget
        BY <1>1 DEF Inv, Before, Planning, HeldOK, Apart, PlanOK, DoneOK
    <2>2. computed[r] + plan[r] \in Nat
        BY <2>1, BudgetAssumption
    <2> DEFINE n == computed[r] + plan[r]
    <2> HIDE DEF n
    <2>3. Needs(n) \in Nat \ {0}
        BY <2>2, NeedsFacts DEF n
    <2>4. Needs(n) <= Len(held) /\ Len(held) \in Nat
        BY <2>1, LenProperties, Zenon DEF n
    <2> QED BY <2>1, <2>3, <2>4
<1>3. Tails(Rows)[i] = tail
    BY DEF Tails
<1> HIDE DEF r
<1> HIDE DEF held
<1>4. held[1] \in 1..NumBlocks
    <2>1. Len(held) \in Nat
        BY <1>2, LenProperties
    <2>2. 1 \in 1..Len(held)
        BY <1>2, <2>1
    <2> QED BY <1>2, <2>2, ElementOfSeq
<1>5. tail[1] = held[1]
    BY <1>4, SubSeqProperties
<1>6. Min({pos \div TailBlock, 1 - 1}) + 1 = 1
    <2> DEFINE k == pos \div TailBlock
    <2>1. k \in Nat
        BY <1>1, DivMod
    <2> DEFINE z == 1 - 1
    <2>2. z \in Int /\ z = 0 /\ k \in Int
        BY <2>1
    <2> HIDE DEF k, z
    <2>3. Min({k, z}) \in {k, z} /\ Min({k, z}) <= z
        BY <2>2, MinOfTwo
    <2>4. Min({k, z}) = 0
        BY <2>1, <2>2, <2>3
    <2>5. Min({k, z}) + 1 = 1
        BY <2>4
    <2> QED BY <2>5 DEF k, z
<1>7. held[1] = Tails(Rows)[i][Min({pos \div TailBlock, 1 - 1}) + 1]
    <2> HIDE DEF tail
    <2> QED BY <1>3, <1>5, <1>6, Zenon
<1>8. held[1] \in Nat
    BY <1>4
<1>9. Slot(Tails(Rows), i, 1, TailBlock, pos) \div TailBlock = held[1]
    <2>1. Tails(Rows)[i][Min({pos \div TailBlock, 1 - 1}) + 1] \in Nat
        BY <1>7, <1>8, Zenon
    <2> DEFINE one == 1
               t == Tails(Rows)
    <2> HIDE DEF one, t
    <2>2. /\ t[i][Min({pos \div TailBlock, one - 1}) + 1] \in Nat
          /\ TailBlock \in Nat \ {0} /\ pos \in Nat
        BY <1>1, <2>1 DEF one, t
    <2>3. Slot(t, i, one, TailBlock, pos) \div TailBlock
             = t[i][Min({pos \div TailBlock, one - 1}) + 1]
        BY <2>2, SlotFacts
    <2> QED BY <1>7, <2>3, Zenon DEF one, t
<1> QED BY <1>9 DEF held, r

\* The block of a position that is planned is there, after the pool tail.
LEMMA TableSlot ==
    ASSUME Inv, NEW i \in 1..Len(Rows),
           NEW pos \in computed[Rows[i]]..(computed[Rows[i]] + plan[Rows[i]] - 1)
    PROVE  Slot(Table(Rows), i, Cdiv(MaxModelLen, BlockSize), BlockSize, pos) \div BlockSize
              = blocks[Rows[i]][2 + pos \div BlockSize]
<1> DEFINE r == Rows[i]
           held == blocks[r]
           b == Tail(held)
           k == pos \div BlockSize
           width == Cdiv(MaxModelLen, BlockSize)
           n == computed[r] + plan[r]
<1>1. r \in DOMAIN plan /\ r \in Requests /\ BlockSize \in Nat \ {0} /\ MaxModelLen \in Nat \ {0}
    BY RowsFacts, InvFacts, BlocksAssumption, BudgetAssumption
<1>2. /\ held \in Seq(1..NumBlocks) /\ Needs(n) <= Len(held)
      /\ computed[r] \in 0..MaxModelLen /\ plan[r] \in 1..Budget /\ n < MaxModelLen
    <2> HIDE DEF r
    <2> QED BY <1>1 DEF Inv, Before, Planning, HeldOK, Apart, PlanOK, DoneOK
<1>3. pos \in Nat /\ n \in Nat /\ pos < n /\ pos < MaxModelLen
    <2>1. computed[r] \in Nat /\ plan[r] \in Nat /\ pos \in computed[r]..(computed[r] + plan[r] - 1)
        BY <1>1, <1>2, BudgetAssumption
    <2> HIDE DEF r
    <2> QED BY <1>1, <1>2, <2>1
<1>4. /\ Needs(n) \in Nat /\ n <= BlockSize * (Needs(n) - 1)
      /\ width \in Nat /\ MaxModelLen <= BlockSize * width /\ Len(held) \in Nat
    <2> HIDE DEF n, held
    <2> QED BY <1>1, <1>2, <1>3, NeedsFacts, CdivFacts, LenProperties
<1>5. k \in Nat /\ k < Needs(n) - 1 /\ k < width
    <2> DEFINE a == Needs(n) - 1
               x == BlockSize * a
               y == BlockSize * width
    <2> HIDE DEF n, width, a
    <2>1. a \in Int /\ x \in Int /\ y \in Int /\ width \in Int
        BY <1>1, <1>4 DEF a
    <2>2. n <= x /\ MaxModelLen <= y
        BY <1>4 DEF a
    <2>3. pos < x /\ pos < y
        <3> HIDE DEF x, y
        <3> QED BY <1>1, <1>3, <2>1, <2>2
    <2>4. pos \div BlockSize < a
        BY <1>1, <1>3, <2>1, <2>3, Quotient
    <2>5. pos \div BlockSize < width
        BY <1>1, <1>3, <2>1, <2>3, Quotient
    <2>6. pos \div BlockSize \in Nat
        BY <1>1, <1>3, DivMod
    <2> QED BY <2>4, <2>5, <2>6 DEF a
<1> HIDE DEF k
<1>6. k + 1 \in 1..(Len(held) - 1)
    <2> DEFINE m == Needs(n)
               l == Len(held)
    <2> HIDE DEF m, l
    <2>1. m \in Nat /\ l \in Nat /\ m <= l /\ k < m - 1 /\ k \in Nat
        BY <1>2, <1>4, <1>5, Zenon DEF m, l
    <2>2. k + 1 \in 1..(l - 1)
        BY <2>1
    <2> QED BY <2>2 DEF l
<1>7. Table(Rows)[i] = [j \in 1..width |-> IF j <= Len(b) THEN b[j] ELSE 0]
    BY DEF Table
<1> HIDE DEF r, held
<1>8. /\ Len(b) = Len(held) - 1
      /\ \A j \in 1..Len(b) : b[j] = held[j + 1]
    <2>1. held # <<>>
        BY <1>2, <1>4, <1>6, EmptySeq
    <2> QED BY <1>2, <2>1, HeadTailProperties
<1> HIDE DEF b
<1>9. Table(Rows)[i][k + 1] = held[k + 2]
    <2> HIDE DEF width
    <2>1. k + 1 \in 1..width /\ k + 1 \in 1..Len(b) /\ k + 1 <= Len(b)
        BY <1>4, <1>5, <1>6, <1>8
    <2>2. b[k + 1] = held[(k + 1) + 1]
        BY <1>8, <2>1
    <2>3. (k + 1) + 1 = k + 2
        BY <1>5
    <2> DEFINE j == k + 1
    <2> HIDE DEF j
    <2>4. j \in 1..width /\ j <= Len(b) /\ b[j] = held[k + 2]
        BY <2>1, <2>2, <2>3 DEF j
    <2>5. Table(Rows)[i][j] = b[j]
        BY <1>7, <2>4, Zenon
    <2> QED BY <2>4, <2>5 DEF j
<1>10. Min({k, width - 1}) = k
    <2> HIDE DEF width
    <2>1. k \in Int /\ width - 1 \in Int
        BY <1>4, <1>5
    <2> DEFINE w == width - 1
    <2>2. k <= w
        BY <1>4, <1>5
    <2> HIDE DEF w
    <2>3. Min({k, w}) \in {k, w} /\ Min({k, w}) <= k
        BY <2>1, MinOfTwo DEF w
    <2>4. w \in Int
        BY <2>1 DEF w
    <2>5. Min({k, w}) = k
        BY <2>1, <2>2, <2>3, <2>4
    <2> QED BY <2>5 DEF w
<1>11. held[k + 2] \in Nat
    <2> DEFINE l == Len(held)
    <2>1. l \in Nat /\ k + 1 \in 1..(l - 1) /\ k \in Nat
        BY <1>4, <1>5, <1>6, Zenon
    <2> HIDE DEF l
    <2>2. k + 2 \in 1..l
        BY <2>1
    <2>3. k + 2 \in 1..Len(held)
        BY <2>2, Zenon DEF l
    <2>4. held[k + 2] \in 1..NumBlocks
        BY <1>2, <2>3, ElementOfSeq
    <2> QED BY <2>4
<1>12. held[k + 2] = Table(Rows)[i][Min({pos \div BlockSize, width - 1}) + 1]
    BY <1>9, <1>10, Zenon DEF k
<1>13. Slot(Table(Rows), i, width, BlockSize, pos) \div BlockSize = held[k + 2]
    <2> HIDE DEF width
    <2>1. Table(Rows)[i][Min({pos \div BlockSize, width - 1}) + 1] \in Nat
        BY <1>11, <1>12, Zenon
    <2>2. Slot(Table(Rows), i, width, BlockSize, pos) \div BlockSize
             = Table(Rows)[i][Min({pos \div BlockSize, width - 1}) + 1]
        BY <1>1, <1>3, <2>1, SlotFacts
    <2> QED BY <1>12, <2>2, Zenon
<1>14. k + 2 = 2 + pos \div BlockSize
    BY <1>5 DEF k
<1> QED BY <1>13, <1>14, Zenon DEF held, r

\* No token of a step is written where another one's state is.
THEOREM SlotsOwnAlways == Spec => []SlotsOwn
<1>1. Inv => SlotsOwn
    <2> SUFFICES ASSUME Inv, NEW i \in 1..Len(Rows)
        PROVE  /\ IsInjective(blocks[Rows[i]])
               /\ \A q \in Requests \ {Rows[i]} : Range(blocks[q]) \cap Range(blocks[Rows[i]]) = {}
               /\ \A pos \in computed[Rows[i]]..(computed[Rows[i]] + plan[Rows[i]] - 1) :
                     /\ Slot(Tails(Rows), i, 1, TailBlock, pos) \div TailBlock = blocks[Rows[i]][1]
                     /\ Slot(Table(Rows), i, Cdiv(MaxModelLen, BlockSize), BlockSize, pos) \div BlockSize
                           = blocks[Rows[i]][2 + pos \div BlockSize]
        BY Zenon DEF SlotsOwn
    <2>1. Rows[i] \in Requests /\ Rows[i] \in DOMAIN plan
        BY RowsFacts, InvFacts
    <2>2. /\ IsInjective(blocks[Rows[i]])
          /\ \A q \in Requests \ {Rows[i]} : Range(blocks[q]) \cap Range(blocks[Rows[i]]) = {}
        BY <2>1 DEF Inv, Before, HeldOK, Apart
    <2>3. ASSUME NEW pos \in computed[Rows[i]]..(computed[Rows[i]] + plan[Rows[i]] - 1)
          PROVE  pos \in Nat
        <3>1. computed[Rows[i]] \in 0..MaxModelLen /\ plan[Rows[i]] \in 1..Budget
            BY <2>1 DEF Inv, Before, Planning, PlanOK, DoneOK
        <3> QED BY <3>1, BudgetAssumption
    <2> QED BY <2>2, <2>3, TailSlot, TableSlot
<1> QED BY <1>1, Invariant, PTL

\* How many entries of the indexer the longest row has.
Longest == Cdiv(MaxModelLen + NumSpec, Kpool)

LEMMA LongestFacts ==
    /\ Longest \in Nat \ {0}
    /\ Longest <= StockEntries
    /\ StockEntries \in Int
    /\ \A n \in Nat : n < MaxModelLen + NumSpec => n \div Kpool \in 0..Longest
<1> DEFINE m == MaxModelLen + NumSpec
<1>1. /\ Kpool \in Nat \ {0} /\ MaxModelLen \in Nat \ {0} /\ NumSpec \in Nat
      /\ NumSpec < MaxModelLen
    BY BlocksAssumption, BudgetAssumption
<1>2. m \in Nat /\ m > 0 /\ m <= MaxModelLen * 40 /\ MaxModelLen * 40 \in Nat
    BY <1>1
<1>3. StockEntries = MaxModelLen * 40
    BY DEF StockEntries
<1> HIDE DEF m
<1>4. /\ Cdiv(m, Kpool) \in Nat /\ m <= Kpool * Cdiv(m, Kpool)
      /\ \A k \in Int : m <= Kpool * k => Cdiv(m, Kpool) <= k
    BY <1>1, <1>2, CdivFacts
<1> DEFINE c == Cdiv(m, Kpool)
           x == Kpool * c
           s == StockEntries
           y == Kpool * s
<1>5. c = Longest
    BY DEF Longest, m
<1>6. c \in Nat /\ m <= x /\ \A k \in Int : m <= Kpool * k => c <= k
    BY <1>4
<1> HIDE DEF c
<1>7. c # 0
    <2> SUFFICES ASSUME c = 0 PROVE FALSE
        OBVIOUS
    <2>1. x = 0
        BY <1>1
    <2> HIDE DEF x
    <2> QED BY <1>2, <1>6, <2>1
<1>8. s \in Int /\ m <= s /\ s \in Nat
    BY <1>2, <1>3
<1> HIDE DEF s
<1>9. m <= y
    <2>1. s <= Kpool * s
        BY <1>1, <1>8
    <2>2. y \in Int
        BY <1>1, <1>8
    <2>3. s <= y
        BY <2>1
    <2> HIDE DEF y
    <2> QED BY <1>2, <1>8, <2>2, <2>3
<1>10. c <= s
    BY <1>6, <1>8, <1>9
<1>11. ASSUME NEW n \in Nat, n < m PROVE n \div Kpool \in 0..c
    <2>1. n \div Kpool \in Nat
        BY <1>1, DivMod
    <2>2. n < x
        <3>1. x \in Int
            BY <1>1, <1>6
        <3> HIDE DEF x
        <3> QED BY <1>2, <1>6, <1>11, <3>1
    <2>3. n \div Kpool < c
        BY <1>1, <1>6, <2>2, Quotient
    <2> QED BY <1>6, <2>1, <2>3
<1> QED BY <1>5, <1>6, <1>7, <1>8, <1>10, <1>11, Zenon DEF m, s

\* The smaller workspace is the stock one, or has room for as many of the longest
\* rows as may be in a step.
LEMMA RightsizedFacts ==
    /\ RightsizedEntries \in Int
    /\ Longest <= RightsizedEntries
    /\ RightsizedEntries <= StockEntries
    /\ \/ RightsizedEntries = StockEntries
       \/ \A n \in Nat : n <= MaxSeqs /\ n <= Budget => Longest * n <= RightsizedEntries
<1> DEFINE p == Min({MaxSeqs, Budget})
           q == Max({1, p})
           s == StockEntries
           c == Longest
           x == c * q
<1>1. MaxSeqs \in Nat \ {0} /\ Budget \in Nat \ {0}
    BY BudgetAssumption
<1>2. p \in {MaxSeqs, Budget} /\ p \in Int
    BY <1>1, MinOfTwo
<1> HIDE DEF p
<1>3. q \in {1, p} /\ q >= 1 /\ q >= p
    BY <1>2, MaxOfTwo
<1>4. q \in Nat
    BY <1>2, <1>3
<1> HIDE DEF q
<1>5. c \in Nat \ {0} /\ c <= s /\ s \in Int
    BY LongestFacts
<1>6. RightsizedEntries = IF Kpool <= 1 THEN s ELSE Min({x, s})
    BY Zenon DEF RightsizedEntries, Longest, p, q
<1> HIDE DEF s, c
<1>7. x \in Int /\ c <= x
    <2>1. c * 1 <= c * q /\ c * q \in Int
        BY <1>3, <1>4, <1>5, Multiples
    <2>2. c * 1 = c
        BY <1>5
    <2> QED BY <2>1, <2>2
<1>8. ASSUME NEW n \in Nat, n <= MaxSeqs, n <= Budget PROVE c * n <= x
    <2>1. n <= q
        BY <1>1, <1>2, <1>3, <1>4, <1>8
    <2> QED BY <1>4, <1>5, <2>1, Multiples
<1> HIDE DEF x
<1>9. Min({x, s}) \in {x, s} /\ Min({x, s}) <= s
    BY <1>5, <1>7, MinOfTwo
<1> DEFINE w == RightsizedEntries
<1>10. w = s \/ (w = x /\ x <= s)
    BY <1>6, <1>9, Zenon
<1> HIDE DEF w
<1>11. w \in Int /\ c <= w /\ w <= s
    BY <1>5, <1>7, <1>10
<1>12. w = s \/ \A n \in Nat : n <= MaxSeqs /\ n <= Budget => c * n <= w
    BY <1>8, <1>10, Zenon
<1> QED BY <1>11, <1>12, Zenon DEF w, s, c

\* What the rows of a step have for the indexer: each no more entries than the
\* longest row, and several together no more than so many of these.
LEMMA RowTotals ==
    ASSUME Inv, NEW ahead \in [DOMAIN plan -> 0..NumSpec], NEW lens, NEW queries,
           lens = [i \in 1..Len(Rows) |->
                      (computed[Rows[i]] + plan[Rows[i]] + ahead[Rows[i]]) \div Kpool],
           queries = [i \in 1..Len(Rows) |-> plan[Rows[i]]]
    PROVE  /\ Len(lens) = Len(Rows)
           /\ \A a \in 1..Len(Rows) : \A b \in a..Len(Rows) :
                 /\ Total(lens, a, b) \in Nat /\ Total(queries, a, b) \in Nat
                 /\ Total(lens, a, b) <= Longest * (b - a + 1)
<1>1. Len(Rows) \in Nat /\ Longest \in Nat /\ Budget \in Nat
    BY RowsFacts, LongestFacts, BudgetAssumption
<1>2. Len(lens) = Len(Rows)
    BY <1>1
<1>3. ASSUME NEW i \in 1..Len(Rows)
      PROVE  lens[i] \in 0..Longest /\ queries[i] \in 0..Budget
    <2> DEFINE r == Rows[i]
               n == computed[r] + plan[r] + ahead[r]
    <2>1. r \in DOMAIN plan /\ r \in Requests
        BY RowsFacts, InvFacts
    <2>2. lens[i] = n \div Kpool /\ queries[i] = plan[r]
        BY Zenon
    <2> HIDE DEF r
    <2>3. /\ computed[r] \in 0..MaxModelLen /\ plan[r] \in 1..Budget
          /\ computed[r] + plan[r] < MaxModelLen
        BY <2>1 DEF Inv, Before, Planning, DoneOK, PlanOK
    <2>4. ahead[r] \in 0..NumSpec
        BY <2>1
    <2>5. n \in Nat /\ n < MaxModelLen + NumSpec
        BY <2>3, <2>4, BudgetAssumption
    <2> HIDE DEF n
    <2>6. n \div Kpool \in 0..Longest
        BY <2>5, LongestFacts
    <2>7. plan[r] \in 0..Budget
        BY <1>1, <2>3
    <2> QED BY <2>2, <2>6, <2>7, Zenon
<1>4. ASSUME NEW a \in 1..Len(Rows), NEW b \in a..Len(Rows)
      PROVE  /\ Total(lens, a, b) \in Nat /\ Total(queries, a, b) \in Nat
             /\ Total(lens, a, b) <= Longest * (b - a + 1)
    <2>1. a \in Int /\ b \in Int /\ a - 1 <= b
        BY <1>1
    <2>2. \A j \in a..b : lens[j] \in 0..Longest /\ queries[j] \in 0..Budget
        BY <1>1, <1>3
    <2>3. Total(lens, a, b) \in Nat /\ Total(lens, a, b) <= Longest * (b - a + 1)
        BY <1>1, <2>1, <2>2, TotalBound
    <2>4. Total(queries, a, b) \in Nat
        BY <1>1, <2>1, <2>2, TotalBound
    <2> QED BY <2>3, <2>4
<1> QED BY <1>2, <1>4

LEMMA StepInWorkspace ==
    ASSUME Inv, NEW ahead \in [DOMAIN plan -> 0..NumSpec], NEW lens, NEW queries,
           lens = [i \in 1..Len(Rows) |->
                      (computed[Rows[i]] + plan[Rows[i]] + ahead[Rows[i]]) \div Kpool],
           queries = [i \in 1..Len(Rows) |-> plan[Rows[i]]]
    PROVE  /\ SplitPrefillChunks(lens, queries, RightsizedEntries)
                = SplitPrefillChunks(lens, queries, StockEntries)
           /\ \A c \in Range(SplitPrefillChunks(lens, queries, RightsizedEntries)) :
                 c.entries <= RightsizedEntries
<1> DEFINE n == Len(Rows)
           w == RightsizedEntries
           s == StockEntries
           ends == Ends(lens, queries, w)
<1>1. /\ Len(lens) = n
      /\ \A a \in 1..n : \A b \in a..n :
            /\ Total(lens, a, b) \in Nat /\ Total(queries, a, b) \in Nat
            /\ Total(lens, a, b) <= Longest * (b - a + 1)
    BY RowTotals, Zenon
<1>2. n \in Nat /\ n <= MaxSeqs /\ n <= Budget
    BY RowsFacts
<1>3. /\ w \in Int /\ s \in Int /\ Longest \in Nat \ {0} /\ Longest <= w /\ w <= s
      /\ w = s \/ \A k \in Nat : k <= MaxSeqs /\ k <= Budget => Longest * k <= w
    BY RightsizedFacts, LongestFacts
<1> HIDE DEF n, w, s
<1>4. w # s => \A a, b \in 1..n : a <= b => /\ Total(lens, a, b) \in Int
                                            /\ Total(lens, a, b) <= w
                                            /\ Total(lens, a, b) <= s
    <2> SUFFICES ASSUME w # s, NEW a \in 1..n, NEW b \in 1..n, a <= b
        PROVE  Total(lens, a, b) \in Int /\ Total(lens, a, b) <= w /\ Total(lens, a, b) <= s
        OBVIOUS
    <2> DEFINE t == Total(lens, a, b)
               k == b - a + 1
    <2>1. b \in a..n /\ k \in Nat /\ k <= n
        BY <1>2
    <2>2. t \in Nat /\ t <= Longest * k
        BY <1>1, <2>1
    <2> HIDE DEF t, k
    <2>3. Longest * k <= w
        <3>1. MaxSeqs \in Int /\ Budget \in Int
            BY BudgetAssumption
        <3>2. k <= MaxSeqs /\ k <= Budget
            BY <1>2, <2>1, <3>1
        <3> QED BY <1>3, <2>1, <3>2, Zenon
    <2> DEFINE x == Longest * k
    <2>4. x \in Int /\ t <= x /\ x <= w
        BY <1>3, <2>1, <2>2, <2>3
    <2> HIDE DEF x
    <2>5. t \in Int /\ t <= w /\ t <= s
        BY <1>3, <2>2, <2>4
    <2> QED BY <2>5 DEF t
<1>5. Ends(lens, queries, w) = Ends(lens, queries, s)
    <2>1. CASE w = s
        BY <2>1
    <2>2. CASE w # s
        <3>1. Len(lens) \in Nat
            BY <1>1, <1>2
        <3>2. \A a, b \in 1..Len(lens) : a <= b => /\ Total(lens, a, b) \in Int
                                                   /\ Total(lens, a, b) <= w
                                                   /\ Total(lens, a, b) <= s
            BY <1>1, <1>4, <2>2, Zenon
        <3> QED BY <1>3, <3>1, <3>2, SameEnds
    <2> QED BY <2>1, <2>2
<1>6. SplitPrefillChunks(lens, queries, w) = SplitPrefillChunks(lens, queries, s)
    BY <1>5, Zenon DEF SplitPrefillChunks
<1>7. ASSUME NEW a \in 1..n
      PROVE  ends[a] \in a..n /\ Total(lens, a, ends[a]) <= w
    <2>1. /\ ends[a] \in a..Len(lens)
          /\ ends[a] = a \/ Total(lens, a, ends[a]) <= w
        BY <1>1, <1>2, EndsFacts
    <2> HIDE DEF ends
    <2>2. Total(lens, a, a) <= w
        <3>1. a \in a..n /\ a - a + 1 = 1
            BY <1>2
        <3>2. Total(lens, a, a) \in Nat /\ Total(lens, a, a) <= Longest * 1
            BY <1>1, <3>1
        <3> QED BY <1>3, <3>2
    <2> QED BY <1>1, <2>1, <2>2, Zenon
<1>8. EntriesTotal(lens, queries, ends)
    <2>1. EndsSound(lens, queries, ends)
        <3> HIDE DEF ends
        <3> QED BY <1>1, <1>7, Zenon DEF EndsSound
    <2>2. Len(lens) \in Nat
        BY <1>1, <1>2
    <2> HIDE DEF ends
    <2> QED BY <2>1, <2>2, ChunksFacts
<1>9. \A c \in Range(Chunks(lens, queries, ends)) : c.entries <= w
    <2> HIDE DEF ends
    <2> QED BY <1>1, <1>7, <1>8, Zenon DEF EntriesTotal
<1>10. \A c \in Range(SplitPrefillChunks(lens, queries, w)) : c.entries <= w
    BY <1>9, Zenon DEF SplitPrefillChunks
<1> QED BY <1>6, <1>10, Zenon DEF w, s

\* The smaller workspace cuts every step like the stock one, and holds it.
THEOREM WorkspaceEnoughAlways == Spec => []WorkspaceEnough
<1>1. Inv => WorkspaceEnough
    <2> SUFFICES ASSUME Inv, NEW ahead \in [DOMAIN plan -> 0..NumSpec]
        PROVE  LET queries == [i \in 1..Len(Rows) |-> plan[Rows[i]]]
                   lens    == [i \in 1..Len(Rows) |->
                                  (computed[Rows[i]] + plan[Rows[i]] + ahead[Rows[i]]) \div Kpool]
                   chunks  == SplitPrefillChunks(lens, queries, RightsizedEntries)
               IN  /\ chunks = SplitPrefillChunks(lens, queries, StockEntries)
                   /\ \A c \in Range(chunks) : c.entries <= RightsizedEntries
        BY Zenon DEF WorkspaceEnough
    <2> DEFINE queries == [i \in 1..Len(Rows) |-> plan[Rows[i]]]
               lens == [i \in 1..Len(Rows) |->
                           (computed[Rows[i]] + plan[Rows[i]] + ahead[Rows[i]]) \div Kpool]
    <2> HIDE DEF queries, lens
    <2>1. /\ SplitPrefillChunks(lens, queries, RightsizedEntries)
               = SplitPrefillChunks(lens, queries, StockEntries)
          /\ \A c \in Range(SplitPrefillChunks(lens, queries, RightsizedEntries)) :
                c.entries <= RightsizedEntries
        BY StepInWorkspace, Zenon DEF queries, lens
    <2> QED BY <2>1, Zenon DEF queries, lens
<1> QED BY <1>1, Invariant, PTL
=============================================================================
