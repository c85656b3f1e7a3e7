-------------------------- MODULE KVCachePlanProofs --------------------------
(***************************************************************************)
(* Theorems about KVCachePlan, for any engines whose layers are grouped as *)
(* GroupingAssumption says.                                                *)
(***************************************************************************)
EXTENDS KVCachePlan, SequenceTheorems, WellFoundedInduction, TLAPS

(***************************************************************************)
(* Numbers                                                                 *)
(***************************************************************************)

\* The least element of a set of naturals.
LEMMA LeastNatural ==
    ASSUME NEW T \in SUBSET Nat, T # {}
    PROVE  \E m \in T : \A k \in T : m <= k
<1>1. PICK m \in T : \A k \in T : <<k, m>> \notin OpToRel(<, Nat)
    BY WFMin, NatLessThanWellFounded, Zenon
<1>2. ASSUME NEW k \in T PROVE m <= k
    <2>1. ~ (k < m)
        BY <1>1, Zenon DEF OpToRel
    <2> QED BY <2>1
<1> QED BY <1>2

\* A set with 0 in it that is closed under successor contains every natural.
LEMMA SetInduction ==
    ASSUME NEW S, 0 \in S, \A n \in Nat : n \in S => n + 1 \in S
    PROVE  Nat \subseteq S
<1> DEFINE T == {n \in Nat : n \notin S}
<1> SUFFICES ASSUME T # {} PROVE FALSE
    OBVIOUS
<1>1. PICK m \in T : \A k \in T : m <= k
    BY LeastNatural
<1> QED BY <1>1

\* The same up to a bound.
LEMMA UpToInduction ==
    ASSUME NEW n \in Nat, NEW S, 0 \in S, \A i \in 1..n : i - 1 \in S => i \in S
    PROVE  0..n \subseteq S
<1> DEFINE T == {i \in Nat : i > n \/ i \in S}
<1>1. 0 \in T
    OBVIOUS
<1>2. ASSUME NEW i \in Nat, i \in T PROVE i + 1 \in T
    <2>1. CASE i + 1 > n
        BY <2>1
    <2>2. CASE i + 1 <= n
        <3>1. i + 1 \in 1..n /\ (i + 1) - 1 = i /\ i \in S
            BY <1>2, <2>2
        <3>2. i + 1 \in S
            BY <3>1
        <3> QED BY <3>2
    <2> QED BY <2>1, <2>2
<1>3. Nat \subseteq T
    <2> HIDE DEF T
    <2> QED BY <1>1, <1>2, SetInduction
<1> QED BY <1>3

\* Min() and Max() of a few integers.
LEMMA MinOfTwo ==
    ASSUME NEW a \in Int, NEW b \in Int
    PROVE  Min({a, b}) \in {a, b} /\ Min({a, b}) <= a /\ Min({a, b}) <= b
BY DEF Min

\* Division with a remainder.
LEMMA DivMod ==
    ASSUME NEW B \in Nat \ {0}, NEW n \in Nat
    PROVE  n = B * (n \div B) + (n % B) /\ n \div B \in Nat /\ n % B \in 0..(B - 1)
OBVIOUS

\* Multiples of a size are ordered as their factors.
LEMMA Multiples ==
    ASSUME NEW B \in Nat \ {0}, NEW m \in Int, NEW k \in Int
    PROVE  /\ B * m \in Int
           /\ B * (m + 1) = B * m + B
           /\ m < k => B * m + B <= B * k
           /\ m <= k => B * m <= B * k
           /\ B * m < B * k => m < k
<1>1. \A i, d \in Int : B * (i + d) = B * i + B * d
    OBVIOUS
<1>2. \A i \in Nat : B * i \in Nat
    OBVIOUS
<1>3. \A i \in Int : B * i \in Int
    OBVIOUS
<1>4. \A i \in Int : B * (i + 1) = B * i + B
    <2>1. B * 1 = B
        OBVIOUS
    <2> QED BY <1>1, <2>1
<1>5. ASSUME NEW i \in Int, NEW l \in Int, i <= l PROVE B * i <= B * l
    <2> DEFINE x == B * i
               y == B * (l - i)
               z == B * l
    <2>1. l - i \in Nat /\ i + (l - i) = l
        BY <1>5
    <2>2. z = x + y /\ x \in Int /\ y \in Nat
        BY <2>1, <1>1, <1>2, <1>3
    <2> HIDE DEF x, y, z
    <2>3. x <= z
        BY <2>2
    <2> QED BY <2>3 DEF x, z
<1>6. m < k => B * m + B <= B * k
    <2> SUFFICES ASSUME m < k PROVE B * m + B <= B * k
        OBVIOUS
    <2>1. m + 1 <= k /\ m + 1 \in Int
        OBVIOUS
    <2>2. B * (m + 1) <= B * k
        BY <1>5, <2>1
    <2> QED BY <1>4, <2>2
<1>7. B * m < B * k => m < k
    <2>1. k <= m => B * k <= B * m
        BY <1>5
    <2>2. B * k \in Int /\ B * m \in Int
        BY <1>3
    <2> DEFINE x == B * m
               y == B * k
    <2>3. k <= m => y <= x
        BY <2>1
    <2>4. x \in Int /\ y \in Int
        BY <2>2
    <2> HIDE DEF x, y
    <2>5. x < y => m < k
        BY <2>3, <2>4
    <2> QED BY <2>5 DEF x, y
<1> QED BY <1>3, <1>4, <1>5, <1>6, <1>7

\* A number lies in the multiple that its quotient names.
LEMMA Quotient ==
    ASSUME NEW B \in Nat \ {0}, NEW n \in Nat, NEW k \in Int
    PROVE  /\ n < B * k <=> n \div B < k
           /\ B * k <= n <=> k <= n \div B
<1> DEFINE q == n \div B
           o == n % B
           x == B * q
           y == B * k
<1>1. n = x + o /\ q \in Nat /\ o \in Int /\ 0 <= o /\ o < B
    BY DivMod
<1>2. x \in Int /\ y \in Int /\ (q < k => x + B <= y) /\ (k <= q => y <= x)
    BY <1>1, Multiples
<1> HIDE DEF q, o, x, y
<1>3. (n < y <=> q < k) /\ (y <= n <=> k <= q)
    BY <1>1, <1>2
<1> QED BY <1>3 DEF q, y

\* Cdiv() rounds up.
LEMMA CdivFacts ==
    ASSUME NEW B \in Nat \ {0}, NEW n \in Nat
    PROVE  /\ Cdiv(n, B) \in Nat
           /\ n <= B * Cdiv(n, B)
           /\ \A k \in Int : n <= B * k => Cdiv(n, B) <= k
<1> DEFINE c == Cdiv(n, B)
           u == n + B - 1
<1>1. u \in Nat /\ c = u \div B /\ c \in Nat
    BY DivMod DEF Cdiv
<1> HIDE DEF c
<1>2. \A k \in Int : (u < B * k <=> c < k) /\ (B * k <= u <=> k <= c)
    BY <1>1, Quotient
<1>3. n <= B * c
    <2>1. u < B * (c + 1) /\ B * (c + 1) = B * c + B
        <3>1. c + 1 \in Int /\ c < c + 1
            BY <1>1
        <3> QED BY <1>1, <1>2, <3>1, Multiples
    <2> DEFINE x == B * c
    <2>2. u < x + B /\ x \in Int
        BY <2>1, <1>1, Multiples
    <2> HIDE DEF x
    <2>3. n <= x
        BY <2>2
    <2> QED BY <2>3 DEF x
<1>4. ASSUME NEW k \in Int, n <= B * k PROVE c <= k
    <2>1. B * (k + 1) = B * k + B /\ k + 1 \in Int /\ B * k \in Int
        BY Multiples
    <2> DEFINE x == B * k
    <2>2. u < x + B
        <3> HIDE DEF x
        <3>1. n <= x /\ x \in Int
            BY <1>4, <2>1 DEF x
        <3> QED BY <3>1
    <2>3. u < B * (k + 1)
        BY <2>1, <2>2
    <2>4. c < k + 1
        BY <1>2, <2>1, <2>3
    <2> QED BY <1>1, <2>4
<1> QED BY <1>1, <1>3, <1>4 DEF c

\* The more, the more.
LEMMA CdivMonotone ==
    ASSUME NEW B \in Nat \ {0}, NEW m \in Nat, NEW n \in Nat, m <= n
    PROVE  Cdiv(m, B) <= Cdiv(n, B)
<1> DEFINE x == B * Cdiv(n, B)
<1>1. n <= x /\ Cdiv(n, B) \in Int /\ x \in Int
    BY CdivFacts, Multiples
<1>2. m <= x
    <2> HIDE DEF x
    <2> QED BY <1>1
<1> QED BY <1>1, <1>2, CdivFacts

\* Min() of naturals, and Max() of naturals up to a bound.
LEMMA MinOfNaturals ==
    ASSUME NEW T \in SUBSET Nat, T # {}
    PROVE  Min(T) \in T /\ \A k \in T : Min(T) <= k
<1>1. \E m \in T : \A k \in T : m <= k
    BY LeastNatural
<1> QED BY <1>1 DEF Min

LEMMA MaxOfBounded ==
    ASSUME NEW n \in Nat, NEW T \in SUBSET (0..n), T # {}
    PROVE  Max(T) \in T /\ \A k \in T : Max(T) >= k
<1> DEFINE U == {n - k : k \in T}
<1>1. U \in SUBSET Nat /\ U # {}
    <2>1. \A k \in 0..n : n - k \in Nat
        OBVIOUS
    <2> QED BY <2>1
<1>2. PICK u \in U : \A k \in U : u <= k
    <2> HIDE DEF U
    <2> QED BY <1>1, LeastNatural
<1>3. PICK m \in T : u = n - m
    OBVIOUS
<1>4. ASSUME NEW k \in T PROVE m >= k
    <2>1. n - k \in U
        OBVIOUS
    <2>2. n - m <= n - k
        BY <1>2, <1>3, <2>1
    <2> QED BY <2>2
<1> HIDE DEF U
<1> QED BY <1>4 DEF Max

\* The remainder of a multiple is 0, and a number with remainder 0 a multiple.
LEMMA Multiple ==
    ASSUME NEW b \in Nat \ {0}
    PROVE  /\ \A k \in Nat : b * k \in Nat /\ (b * k) % b = 0 /\ (b * k) \div b = k
           /\ \A n \in Nat : n % b = 0 => \E k \in Nat : n = b * k
<1>1. ASSUME NEW k \in Nat PROVE b * k \in Nat /\ (b * k) % b = 0 /\ (b * k) \div b = k
    <2> DEFINE n == b * k
               q == n \div b
               o == n % b
               x == b * q
    <2>1. n \in Nat
        OBVIOUS
    <2>2. n = x + o /\ q \in Nat /\ o \in 0..(b - 1) /\ x \in Int
        <3> HIDE DEF n
        <3>1. n = x + o /\ q \in Nat /\ o \in 0..(b - 1)
            BY <2>1, DivMod
        <3> HIDE DEF q
        <3>2. x \in Int
            BY <3>1, Multiples
        <3> QED BY <3>1, <3>2
    <2>3. (k < q => n + b <= x) /\ (q < k => x + b <= n)
        <3>1. q \in Int
            BY <2>2
        <3> HIDE DEF q
        <3> QED BY <3>1, Multiples
    <2> HIDE DEF n, q, o, x
    <2>4. q = k
        BY <2>1, <2>2, <2>3
    <2>5. x = n
        BY <2>4 DEF x, n
    <2>6. o = 0
        BY <2>1, <2>2, <2>5
    <2> QED BY <2>1, <2>4, <2>6 DEF n, q, o
<1>2. ASSUME NEW n \in Nat, n % b = 0 PROVE \E k \in Nat : n = b * k
    <2>1. n = b * (n \div b) + 0 /\ n \div b \in Nat
        BY <1>2, DivMod
    <2> DEFINE x == b * (n \div b)
    <2>2. n = x + 0 /\ x \in Int
        BY <2>1, Multiples
    <2> HIDE DEF x
    <2>3. n = x
        BY <2>2
    <2> QED BY <2>1, <2>3 DEF x
<1> QED BY <1>1, <1>2

\* What divides a number divides its multiples.
LEMMA DividesMultiple ==
    ASSUME NEW b \in Nat \ {0}, NEW n \in Nat, NEW k \in Nat, n % b = 0
    PROVE  n * k \in Nat /\ (n * k) % b = 0
<1>1. PICK j \in Nat : n = b * j
    BY Multiple
<1>2. j * k \in Nat
    OBVIOUS
<1>3. (b * j) * k = b * (j * k)
    OBVIOUS
<1>4. n * k = b * (j * k)
    BY <1>1, <1>3
<1> DEFINE x == j * k
<1> HIDE DEF x
<1>5. b * x \in Nat /\ (b * x) % b = 0
    BY <1>2, Multiple DEF x
<1> QED BY <1>4, <1>5 DEF x

LEMMA DividesTransitive ==
    ASSUME NEW a \in Nat \ {0}, NEW b \in Nat \ {0}, NEW n \in Nat, b % a = 0, n % b = 0
    PROVE  n % a = 0
<1>1. PICK k \in Nat : n = b * k
    BY Multiple
<1> QED BY <1>1, DividesMultiple

(***************************************************************************)
(* The recursions of the module                                            *)
(***************************************************************************)

\* f starts with v and goes on with H.
GoesOn(f, n, V, v, H) ==
    /\ f \in [0..n -> V]
    /\ f[0] = v
    /\ \A i \in 1..n : f[i] = H[<<i, f[i - 1]>>]

LEMMA RecursionExists ==
    ASSUME NEW n \in Nat, NEW V, NEW v \in V, NEW H \in [(1..n) \X V -> V]
    PROVE  \E f : GoesOn(f, n, V, v, H)
<1> DEFINE Upto(m, f) == f \in [0..m -> V] /\ f[0] = v
                         /\ \A i \in 1..m : f[i] = H[<<i, f[i - 1]>>]
           S == {m \in 0..n : \E f : Upto(m, f)}
<1>1. 0 \in S
    <2> DEFINE f == [i \in 0..0 |-> v]
    <2>1. Upto(0, f)
        OBVIOUS
    <2> HIDE DEF f, Upto
    <2> QED BY <2>1
<1>2. ASSUME NEW m \in 1..n, m - 1 \in S PROVE m \in S
    <2>1. PICK f : Upto(m - 1, f)
        BY <1>2
    <2> DEFINE g == [i \in 0..m |-> IF i = m THEN H[<<m, f[m - 1]>>] ELSE f[i]]
    <2>2. f[m - 1] \in V /\ <<m, f[m - 1]>> \in (1..n) \X V
        BY <2>1
    <2>3. H[<<m, f[m - 1]>>] \in V
        BY <2>2
    <2>4. \A i \in 0..m : i # m => i \in 0..(m - 1) /\ g[i] = f[i] /\ f[i] \in V
        BY <2>1
    <2>5. g[m] = H[<<m, f[m - 1]>>]
        OBVIOUS
    <2>6. g \in [0..m -> V]
        BY <2>1, <2>3
    <2>7. g[0] = v
        BY <2>1
    <2>8. ASSUME NEW i \in 1..m PROVE g[i] = H[<<i, g[i - 1]>>]
        <3>1. i - 1 \in 0..m /\ i - 1 # m /\ g[i - 1] = f[i - 1]
            OBVIOUS
        <3>2. CASE i = m
            <4> HIDE DEF g
            <4> QED BY <2>5, <3>1, <3>2
        <3>3. CASE i # m
            <4>1. i \in 1..(m - 1) /\ g[i] = f[i]
                BY <3>3
            <4>2. f[i] = H[<<i, f[i - 1]>>]
                BY <2>1, <4>1
            <4> HIDE DEF g
            <4> QED BY <3>1, <4>1, <4>2
        <3> QED BY <3>2, <3>3
    <2> HIDE DEF g
    <2>9. Upto(m, g)
        BY <2>6, <2>7, <2>8
    <2> QED BY <2>9
<1>3. n \in S
    <2>1. S \subseteq 0..n /\ n \in 0..n
        OBVIOUS
    <2> HIDE DEF S
    <2>2. 0..n \subseteq S
        BY <1>1, <1>2, UpToInduction
    <2> QED BY <2>1, <2>2
<1> QED BY <1>3 DEF GoesOn

\* Whatever function goes on so has its values in V.
LEMMA RecursionTyped ==
    ASSUME NEW n \in Nat, NEW V, NEW H \in [(1..n) \X V -> V], NEW g, g[0] \in V,
           \A i \in 1..n : g[i - 1] \in V => g[i] = H[<<i, g[i - 1]>>]
    PROVE  \A i \in 0..n : g[i] \in V
<1> DEFINE S == {i \in 0..n : g[i] \in V}
<1>1. 0 \in S
    OBVIOUS
<1>2. ASSUME NEW i \in 1..n, i - 1 \in S PROVE i \in S
    <2>1. g[i] = H[<<i, g[i - 1]>>] /\ <<i, g[i - 1]>> \in (1..n) \X V
        BY <1>2
    <2> QED BY <2>1
<1>3. S \subseteq 0..n
    OBVIOUS
<1> HIDE DEF S
<1>4. 0..n \subseteq S
    BY <1>1, <1>2, UpToInduction
<1> QED BY <1>4 DEF S

\* Elements of a list, and the list of the values of an expression.
LEMMA Elements ==
    ASSUME NEW E, NEW s \in Seq(E)
    PROVE  /\ Len(s) \in Nat /\ DOMAIN s = 1..Len(s)
           /\ \A i \in 1..Len(s) : s[i] \in E
           /\ Range(s) \subseteq E
<1>1. Len(s) \in Nat /\ DOMAIN s = 1..Len(s) /\ \A i \in 1..Len(s) : s[i] \in E
    BY LenProperties, ElementOfSeq
<1> QED BY <1>1 DEF Range

IsKept(s, set, f) ==
    f = [i \in 0..Len(s) |->
            IF i = 0 THEN <<>>
            ELSE IF s[i] \in set THEN Append(f[i - 1], s[i]) ELSE f[i - 1]]

\* Kept() lists elements of the list that are in the set.
LEMMA KeptFacts ==
    ASSUME NEW E, NEW s \in Seq(E), NEW set
    PROVE  Kept(s, set) \in Seq(E \cap set)
<1> DEFINE n == Len(s)
           V == Seq(E \cap set)
           H == [p \in (1..n) \X V |-> IF s[p[1]] \in set THEN Append(p[2], s[p[1]]) ELSE p[2]]
           k == CHOOSE f : IsKept(s, set, f)
<1>1. n \in Nat /\ \A i \in 1..n : s[i] \in E
    BY Elements
<1>2. ASSUME NEW i \in 1..n, NEW l \in V
      PROVE  /\ <<i, l>> \in (1..n) \X V
             /\ H[<<i, l>>] = IF s[i] \in set THEN Append(l, s[i]) ELSE l
             /\ H[<<i, l>>] \in V
    <2>1. H[<<i, l>>] = IF s[i] \in set THEN Append(l, s[i]) ELSE l
        OBVIOUS
    <2>2. s[i] \in set => Append(l, s[i]) \in V
        BY <1>1, AppendProperties
    <2> HIDE DEF H
    <2> QED BY <2>1, <2>2
<1>3. H \in [(1..n) \X V -> V]
    <2>1. \A p \in (1..n) \X V : p[1] \in 1..n /\ p[2] \in V /\ p = <<p[1], p[2]>>
        OBVIOUS
    <2>2. \A p \in (1..n) \X V : H[p] \in V
        <3> HIDE DEF H, V
        <3> QED BY <1>2, <2>1
    <2>3. H = [p \in (1..n) \X V |-> H[p]]
        OBVIOUS
    <2> HIDE DEF H, V
    <2> QED BY <2>2, <2>3
<1>4. <<>> \in V
    BY EmptySeq
<1> HIDE DEF H, V, n, k
<1>5. PICK f : GoesOn(f, n, V, <<>>, H)
    BY <1>1, <1>3, <1>4, RecursionExists
<1> USE DEF GoesOn
<1>6. IsKept(s, set, f)
    <2> USE DEF n
    <2>1. ASSUME NEW i \in 0..n
          PROVE  f[i] = IF i = 0 THEN <<>>
                        ELSE IF s[i] \in set THEN Append(f[i - 1], s[i]) ELSE f[i - 1]
        <3>1. CASE i = 0
            BY <1>5, <3>1
        <3>2. CASE i # 0
            <4>1. i \in 1..n /\ i - 1 \in 0..n
                BY <1>1, <3>2
            <4>2. f[i - 1] \in V
                BY <1>5, <4>1
            <4> QED BY <1>2, <1>5, <3>2, <4>1, <4>2
        <3> QED BY <3>1, <3>2
    <2>2. f = [i \in 0..n |-> f[i]]
        BY <1>5
    <2> QED BY <2>1, <2>2 DEF IsKept
<1>7. IsKept(s, set, k)
    BY <1>6 DEF k
<1>8. Kept(s, set) = k[n]
    BY Zenon DEF Kept, IsKept, k, n
<1>9. k[0] \in V /\ \A i \in 1..n : k[i - 1] \in V => k[i] = H[<<i, k[i - 1]>>]
    <2>1. \A i \in 0..n : k[i] = IF i = 0 THEN <<>>
                                 ELSE IF s[i] \in set THEN Append(k[i - 1], s[i]) ELSE k[i - 1]
        BY <1>7 DEF IsKept, n
    <2>2. 0 \in 0..n /\ \A i \in 1..n : i \in 0..n /\ i # 0
        BY <1>1
    <2> QED BY <1>2, <1>4, <2>1, <2>2
<1>10. k[n] \in V
    <2>1. \A i \in 0..n : k[i] \in V
        BY <1>1, <1>3, <1>9, RecursionTyped
    <2> QED BY <1>1, <2>1
<1> QED BY <1>8, <1>10 DEF V

IsSum(s, f) == f = [i \in 0..Len(s) |-> IF i = 0 THEN 0 ELSE f[i - 1] + s[i]]

\* SumOf() goes from one element to the next.
LEMMA SumIs ==
    ASSUME NEW s \in Seq(Nat)
    PROVE  \E f \in [0..Len(s) -> Nat] :
              f[0] = 0 /\ SumOf(s) = f[Len(s)] /\ \A i \in 1..Len(s) : f[i] = f[i - 1] + s[i]
<1> DEFINE n == Len(s)
           H == [p \in (1..n) \X Nat |-> p[2] + s[p[1]]]
           k == CHOOSE f : IsSum(s, f)
<1>1. n \in Nat /\ \A i \in 1..n : s[i] \in Nat
    BY Elements
<1>2. H \in [(1..n) \X Nat -> Nat] /\ \A i \in 1..n, m \in Nat : H[<<i, m>>] = m + s[i]
    BY <1>1
<1> HIDE DEF H, n, k
<1>3. PICK f : GoesOn(f, n, Nat, 0, H)
    BY <1>1, <1>2, RecursionExists
<1> USE DEF GoesOn
<1>4. IsSum(s, f)
    <2> USE DEF n
    <2>1. ASSUME NEW i \in 0..n PROVE f[i] = IF i = 0 THEN 0 ELSE f[i - 1] + s[i]
        <3>1. CASE i # 0
            <4>1. i \in 1..n /\ i - 1 \in 0..n /\ f[i - 1] \in Nat
                <5> HIDE DEF n
                <5>1. i \in 1..n /\ i - 1 \in 0..n
                    BY <1>1, <3>1
                <5> QED BY <1>3, <5>1
            <4>2. f[i] = H[<<i, f[i - 1]>>]
                BY <1>3, <4>1
            <4> QED BY <1>2, <3>1, <4>1, <4>2
        <3> QED BY <1>3, <3>1
    <2>2. f = [i \in 0..n |-> f[i]]
        BY <1>3
    <2> QED BY <2>1, <2>2 DEF IsSum
<1>5. IsSum(s, k)
    BY <1>4 DEF k
<1>6. SumOf(s) = k[n]
    BY Zenon DEF SumOf, IsSum, k, n
<1>7. DOMAIN k = 0..n /\ k[0] = 0 /\ \A i \in 1..n : k[i] = k[i - 1] + s[i]
    <2>1. DOMAIN k = 0..n /\ \A i \in 0..n : k[i] = IF i = 0 THEN 0 ELSE k[i - 1] + s[i]
        BY <1>5 DEF IsSum, n
    <2>2. 0 \in 0..n /\ \A i \in 1..n : i \in 0..n /\ i # 0
        BY <1>1
    <2> QED BY <2>1, <2>2
<1>8. \A i \in 1..n : k[i - 1] \in Nat => k[i] = H[<<i, k[i - 1]>>]
    BY <1>2, <1>7
<1>9. \A i \in 0..n : k[i] \in Nat
    <2>1. H \in [(1..n) \X Nat -> Nat] /\ k[0] \in Nat
        BY <1>2, <1>7
    <2> QED BY <1>1, <2>1, <1>8, RecursionTyped
<1>10. k \in [0..n -> Nat]
    <2>1. k = [i \in 0..n |-> k[i]]
        BY <1>5, <1>7 DEF IsSum, n
    <2> QED BY <1>9, <2>1
<1> QED BY <1>6, <1>7, <1>10 DEF n

\* A sum of naturals is one, and no less than each.
LEMMA SumFacts ==
    ASSUME NEW s \in Seq(Nat)
    PROVE  SumOf(s) \in Nat /\ \A i \in 1..Len(s) : s[i] <= SumOf(s)
<1> DEFINE n == Len(s)
<1>1. n \in Nat /\ \A i \in 1..n : s[i] \in Nat
    BY Elements
<1>2. PICK f \in [0..n -> Nat] :
        f[0] = 0 /\ SumOf(s) = f[n] /\ \A i \in 1..n : f[i] = f[i - 1] + s[i]
    BY SumIs
<1> HIDE DEF n
<1>3. \A i \in 0..n : f[i] \in Nat
    BY <1>2
<1> DEFINE S == {i \in 0..n : \A j \in 1..i : s[j] <= f[i]}
<1>4. 0 \in S
    BY <1>1
<1>5. ASSUME NEW i \in 1..n, i - 1 \in S PROVE i \in S
    <2>1. i \in 0..n /\ i - 1 \in 0..n /\ f[i - 1] \in Nat /\ s[i] \in Nat /\ f[i] = f[i - 1] + s[i]
        BY <1>1, <1>2, <1>3
    <2>2. ASSUME NEW j \in 1..i PROVE s[j] <= f[i]
        <3>1. s[j] \in Nat
            BY <1>1
        <3>2. CASE j = i
            BY <2>1, <3>2
        <3>3. CASE j # i
            <4>1. s[j] <= f[i - 1]
                BY <1>5, <3>3
            <4> QED BY <2>1, <3>1, <4>1
        <3> QED BY <3>2, <3>3
    <2> QED BY <2>1, <2>2
<1>6. n \in S
    <2> HIDE DEF S
    <2>1. 0..n \subseteq S
        BY <1>1, <1>4, <1>5, UpToInduction
    <2> QED BY <1>1, <2>1
<1> QED BY <1>1, <1>2, <1>3, <1>6 DEF n

\* Greater elements make no smaller sum.
LEMMA SumMonotone ==
    ASSUME NEW s \in Seq(Nat), NEW t \in Seq(Nat), Len(s) = Len(t),
           \A i \in 1..Len(s) : s[i] <= t[i]
    PROVE  SumOf(s) <= SumOf(t)
<1> DEFINE n == Len(s)
<1>1. n \in Nat /\ \A i \in 1..n : s[i] \in Nat /\ t[i] \in Nat /\ s[i] <= t[i]
    BY Elements
<1>2. PICK f \in [0..n -> Nat] :
        f[0] = 0 /\ SumOf(s) = f[n] /\ \A i \in 1..n : f[i] = f[i - 1] + s[i]
    BY SumIs
<1>3. PICK g \in [0..n -> Nat] :
        g[0] = 0 /\ SumOf(t) = g[n] /\ \A i \in 1..n : g[i] = g[i - 1] + t[i]
    BY SumIs
<1> DEFINE S == {i \in 0..n : f[i] <= g[i]}
<1>4. 0 \in S
    BY <1>1, <1>2, <1>3
<1>5. ASSUME NEW i \in 1..n, i - 1 \in S PROVE i \in S
    <2>1. /\ f[i - 1] \in Nat /\ g[i - 1] \in Nat /\ f[i - 1] <= g[i - 1]
          /\ f[i] = f[i - 1] + s[i] /\ g[i] = g[i - 1] + t[i]
          /\ s[i] \in Nat /\ t[i] \in Nat /\ s[i] <= t[i] /\ i \in 0..n
        <3> HIDE DEF n
        <3>1. i \in 0..n /\ i - 1 \in 0..n
            BY <1>1
        <3>2. i - 1 \in S => f[i - 1] <= g[i - 1]
            OBVIOUS
        <3> HIDE DEF S
        <3> QED BY <1>1, <1>2, <1>3, <1>5, <3>1, <3>2
    <2> QED BY <2>1
<1>6. n \in S
    <2> HIDE DEF S, n
    <2>1. 0..n \subseteq S
        BY <1>1, <1>4, <1>5, UpToInduction
    <2> QED BY <1>1, <2>1
<1> QED BY <1>2, <1>3, <1>6

\* The least common multiple is positive and a multiple of both.
LEMMA CommonMultipleFacts ==
    ASSUME NEW a \in Nat \ {0}, NEW b \in Nat \ {0}
    PROVE  /\ CommonMultiple(a, b) \in Nat \ {0}
           /\ CommonMultiple(a, b) % a = 0 /\ CommonMultiple(a, b) % b = 0
<1> DEFINE M == {n \in {a * k : k \in 1..b} : n % b = 0}
<1>1. \A k \in 1..b : a * k \in Nat \ {0} /\ (a * k) % a = 0
    <2> SUFFICES ASSUME NEW k \in 1..b PROVE a * k \in Nat \ {0} /\ (a * k) % a = 0
        OBVIOUS
    <2>1. k \in Nat /\ k \in Int /\ 0 \in Int /\ 0 < k
        OBVIOUS
    <2>2. a * k \in Nat /\ (a * k) % a = 0
        BY <2>1, Multiple
    <2>3. a * 0 + a <= a * k
        BY <2>1, Multiples
    <2> DEFINE x == a * k
    <2>4. 0 + a <= x
        <3>1. a * 0 = 0
            OBVIOUS
        <3> QED BY <2>3, <3>1
    <2> HIDE DEF x
    <2>5. x # 0
        BY <2>4
    <2> QED BY <2>2, <2>5 DEF x
<1>2. a * b \in M
    <2>1. a * b = b * a /\ b \in 1..b
        OBVIOUS
    <2>2. (b * a) % b = 0
        BY Multiple
    <2> QED BY <2>1, <2>2
<1>3. M \subseteq Nat \ {0} /\ \A n \in M : n % a = 0 /\ n % b = 0
    BY <1>1
<1>4. CommonMultiple(a, b) = Min(M)
    BY DEF CommonMultiple
<1> HIDE DEF M
<1>5. Min(M) \in M
    BY <1>2, <1>3, MinOfNaturals
<1> QED BY <1>3, <1>4, <1>5

IsMultiple(s, f) ==
    f = [i \in 0..Len(s) |-> IF i = 0 THEN 1 ELSE CommonMultiple(f[i - 1], s[i])]

\* The least common multiple of a list is positive and a multiple of each.
LEMMA CommonMultipleOfFacts ==
    ASSUME NEW s \in Seq(Nat \ {0})
    PROVE  /\ CommonMultipleOf(s) \in Nat \ {0}
           /\ \A i \in 1..Len(s) : CommonMultipleOf(s) % s[i] = 0
<1> DEFINE n == Len(s)
           V == Nat \ {0}
           H == [p \in (1..n) \X V |-> CommonMultiple(p[2], s[p[1]])]
           k == CHOOSE f : IsMultiple(s, f)
<1>1. n \in Nat /\ \A i \in 1..n : s[i] \in V
    BY Elements
<1>2. H \in [(1..n) \X V -> V] /\ \A i \in 1..n, m \in V : H[<<i, m>>] = CommonMultiple(m, s[i])
    <2>1. \A i \in 1..n, m \in V : CommonMultiple(m, s[i]) \in V
        BY <1>1, CommonMultipleFacts
    <2> HIDE DEF V
    <2> QED BY <2>1
<1>3. 1 \in V
    OBVIOUS
<1> HIDE DEF H, n, k, V
<1>4. PICK f : GoesOn(f, n, V, 1, H)
    BY <1>1, <1>2, <1>3, RecursionExists
<1> USE DEF GoesOn
<1>5. IsMultiple(s, f)
    <2>1. ASSUME NEW i \in 0..n
          PROVE  f[i] = IF i = 0 THEN 1 ELSE CommonMultiple(f[i - 1], s[i])
        <3>1. CASE i # 0
            <4>1. i \in 1..n /\ i - 1 \in 0..n
                BY <1>1, <3>1
            <4>2. f[i - 1] \in V /\ f[i] = H[<<i, f[i - 1]>>]
                BY <1>4, <4>1
            <4> QED BY <1>2, <3>1, <4>1, <4>2
        <3> QED BY <1>4, <3>1
    <2>2. f = [i \in 0..n |-> f[i]]
        BY <1>4
    <2> QED BY <2>1, <2>2 DEF IsMultiple, n
<1>6. IsMultiple(s, k)
    BY <1>5 DEF k
<1>7. CommonMultipleOf(s) = k[n]
    BY Zenon DEF CommonMultipleOf, IsMultiple, k, n
<1>8. k[0] = 1 /\ \A i \in 1..n : k[i] = CommonMultiple(k[i - 1], s[i])
    <2>1. \A i \in 0..n : k[i] = IF i = 0 THEN 1 ELSE CommonMultiple(k[i - 1], s[i])
        BY <1>6 DEF IsMultiple, n
    <2>2. 0 \in 0..n /\ \A i \in 1..n : i \in 0..n /\ i # 0
        BY <1>1
    <2> QED BY <2>1, <2>2
<1> DEFINE S == {i \in 0..n : k[i] \in V /\ \A j \in 1..i : k[i] % s[j] = 0}
<1>9. 0 \in S
    BY <1>1, <1>3, <1>8
<1>10. ASSUME NEW i \in 1..n, i - 1 \in S PROVE i \in S
    <2>1. i \in 0..n /\ s[i] \in V /\ k[i - 1] \in V
        BY <1>1, <1>10
    <2>2. k[i] \in V /\ k[i] % k[i - 1] = 0 /\ k[i] % s[i] = 0
        <3>1. k[i] = CommonMultiple(k[i - 1], s[i])
            BY <1>8
        <3> DEFINE x == k[i - 1]
                   y == s[i]
        <3>2. x \in Nat \ {0} /\ y \in Nat \ {0}
            BY <2>1 DEF V
        <3> HIDE DEF x, y
        <3>3. CommonMultiple(x, y) \in V /\ CommonMultiple(x, y) % x = 0 /\ CommonMultiple(x, y) % y = 0
            BY <3>2, CommonMultipleFacts DEF V
        <3> QED BY <3>1, <3>3 DEF x, y
    <2>3. ASSUME NEW j \in 1..i PROVE k[i] % s[j] = 0
        <3>1. CASE j = i
            BY <2>2, <3>1
        <3>2. CASE j # i
            <4>1. j \in 1..(i - 1) /\ j \in 1..n
                BY <3>2, <1>1
            <4>2. k[i - 1] % s[j] = 0 /\ s[j] \in V
                BY <1>1, <1>10, <4>1
            <4> QED BY <2>1, <2>2, <4>2, DividesTransitive DEF V
        <3> QED BY <3>1, <3>2
    <2> QED BY <2>1, <2>2, <2>3
<1>11. n \in S
    <2> HIDE DEF S
    <2>1. 0..n \subseteq S
        BY <1>1, <1>9, <1>10, UpToInduction
    <2> QED BY <1>1, <2>1
<1> QED BY <1>7, <1>11 DEF V, n

\* The greatest common divisor divides each.
LEMMA CommonDivisorFacts ==
    ASSUME NEW S \in SUBSET (Nat \ {0}), S # {}
    PROVE  /\ CommonDivisor(S) \in Nat \ {0}
           /\ \A n \in S : n % CommonDivisor(S) = 0
<1> DEFINE D == {d \in 1..Min(S) : \A n \in S : n % d = 0}
<1>1. Min(S) \in Nat \ {0}
    <2>1. S \in SUBSET Nat
        OBVIOUS
    <2> QED BY <2>1, MinOfNaturals
<1>2. 1 \in D
    <2>1. \A n \in Nat : n % 1 = 0
        OBVIOUS
    <2> QED BY <1>1, <2>1
<1>3. D \subseteq 0..Min(S) /\ \A d \in D : d \in Nat \ {0} /\ \A n \in S : n % d = 0
    BY <1>1
<1>4. CommonDivisor(S) = Max(D)
    BY DEF CommonDivisor
<1> HIDE DEF D
<1>5. Max(D) \in D
    BY <1>1, <1>2, <1>3, MaxOfBounded
<1> QED BY <1>3, <1>4, <1>5

(***************************************************************************)
(* The bisection                                                           *)
(***************************************************************************)

Turns(most) == [left : 1..(most + 1), right : 0..most, result : 1..most]

\* What is not left of the lengths is known to fit, or not to.
Narrows(gs, most, bytes, s) ==
    /\ s \in Turns(most)
    /\ Fits(gs, s.result, bytes)
    /\ s.left - 1 <= s.result
    /\ \A len \in (s.right + 1)..most : ~Fits(gs, len, bytes)

\* Shorter requests fit where longer ones do.
Falls(gs, most, bytes) ==
    \A k, m \in 1..most : k <= m /\ Fits(gs, m, bytes) => Fits(gs, k, bytes)

LEMMA TurnTyped ==
    ASSUME NEW gs, NEW most \in Nat \ {0}, NEW bytes, NEW s \in Turns(most)
    PROVE  Turn(gs, bytes, s) \in Turns(most)
<1> DEFINE mid == (s.left + s.right) \div 2
<1>1. CASE s.left > s.right
    BY <1>1 DEF Turn
<1>2. CASE ~(s.left > s.right)
    <2>1. s.left <= mid /\ mid <= s.right /\ mid \in Int /\ 1 <= s.left /\ s.right <= most
        BY <1>2 DEF Turns
    <2>2. Turn(gs, bytes, s) = IF Fits(gs, mid, bytes) THEN [s EXCEPT !.left = mid + 1, !.result = mid]
                               ELSE [s EXCEPT !.right = mid - 1]
        BY <1>2 DEF Turn
    <2> HIDE DEF mid
    <2>3. mid + 1 \in 1..(most + 1) /\ mid \in 1..most /\ mid - 1 \in 0..most
        BY <2>1 DEF Turns
    <2> QED BY <2>2, <2>3 DEF Turns
<1> QED BY <1>1, <1>2

LEMMA TurnNarrows ==
    ASSUME NEW gs, NEW most \in Nat \ {0}, NEW bytes, NEW s, Narrows(gs, most, bytes, s),
           Falls(gs, most, bytes)
    PROVE  LET t == Turn(gs, bytes, s)
           IN  /\ Narrows(gs, most, bytes, t)
               /\ t.left > t.right \/ t.right - t.left < s.right - s.left
<1> DEFINE mid == (s.left + s.right) \div 2
           t == Turn(gs, bytes, s)
<1> SUFFICES Narrows(gs, most, bytes, t) /\ (t.left > t.right \/ t.right - t.left < s.right - s.left)
    OBVIOUS
<1>1. /\ s \in Turns(most) /\ t \in Turns(most)
      /\ s.left \in 1..(most + 1) /\ s.right \in 0..most /\ s.result \in 1..most
    BY TurnTyped DEF Narrows, Turns
<1>2. CASE s.left > s.right
    BY <1>2 DEF Turn
<1>3. CASE ~(s.left > s.right)
    <2>1. s.left <= mid /\ mid <= s.right /\ mid \in 1..most
        BY <1>1, <1>3
    <2>2. t = IF Fits(gs, mid, bytes) THEN [s EXCEPT !.left = mid + 1, !.result = mid]
              ELSE [s EXCEPT !.right = mid - 1]
        BY <1>3 DEF Turn
    <2> HIDE DEF mid, t
    <2>3. CASE Fits(gs, mid, bytes)
        <3>1. t.left = mid + 1 /\ t.right = s.right /\ t.result = mid
            BY <1>1, <2>2, <2>3 DEF Turns
        <3>2. Narrows(gs, most, bytes, t)
            BY <1>1, <2>1, <2>3, <3>1 DEF Narrows
        <3>3. t.right - t.left < s.right - s.left
            BY <1>1, <2>1, <3>1
        <3> QED BY <3>2, <3>3
    <2>4. CASE ~Fits(gs, mid, bytes)
        <3>1. t.left = s.left /\ t.right = mid - 1 /\ t.result = s.result
            BY <1>1, <2>2, <2>4 DEF Turns
        <3>2. ASSUME NEW len \in (t.right + 1)..most PROVE ~Fits(gs, len, bytes)
            <4>1. mid <= len /\ len \in 1..most
                BY <2>1, <3>1
            <4> QED BY <2>1, <2>4, <4>1 DEF Falls
        <3>3. Narrows(gs, most, bytes, t)
            BY <1>1, <3>1, <3>2 DEF Narrows
        <3>4. t.right - t.left < s.right - s.left
            BY <1>1, <2>1, <3>1
        <3> QED BY <3>3, <3>4
    <2> QED BY <2>3, <2>4
<1> QED BY <1>2, <1>3

IsSearch(gs, most, bytes, f) ==
    f = [n \in 0..most |-> IF n = 0 THEN [left |-> 1, right |-> most, result |-> 1]
                           ELSE Turn(gs, bytes, f[n - 1])]

LEMMA SearchIs ==
    ASSUME NEW gs, NEW most \in Nat \ {0}, NEW bytes, Fits(gs, 1, bytes)
    PROVE  \E f : /\ EstimatedMaxLen(gs, most, bytes) = f[most].result
                  /\ f[0] = [left |-> 1, right |-> most, result |-> 1]
                  /\ \A n \in 1..most : f[n] = Turn(gs, bytes, f[n - 1])
<1> DEFINE V == Turns(most)
           start == [left |-> 1, right |-> most, result |-> 1]
           H == [p \in (1..most) \X V |-> Turn(gs, bytes, p[2])]
           k == CHOOSE f : IsSearch(gs, most, bytes, f)
<1>1. H \in [(1..most) \X V -> V] /\ \A i \in 1..most, s \in V : H[<<i, s>>] = Turn(gs, bytes, s)
    <2>1. \A s \in V : Turn(gs, bytes, s) \in V
        BY TurnTyped
    <2> HIDE DEF V
    <2> QED BY <2>1
<1>2. start \in V
    BY DEF Turns
<1> HIDE DEF H, k, V, start
<1>3. PICK f : GoesOn(f, most, V, start, H)
    BY <1>1, <1>2, RecursionExists
<1> USE DEF GoesOn
<1>4. IsSearch(gs, most, bytes, f)
    <2>1. ASSUME NEW i \in 0..most
          PROVE  f[i] = IF i = 0 THEN start ELSE Turn(gs, bytes, f[i - 1])
        <3>1. CASE i # 0
            <4>1. i \in 1..most /\ i - 1 \in 0..most
                BY <3>1
            <4>2. f[i - 1] \in V /\ f[i] = H[<<i, f[i - 1]>>]
                BY <1>3, <4>1
            <4> QED BY <1>1, <3>1, <4>1, <4>2
        <3> QED BY <1>3, <3>1
    <2>2. f = [i \in 0..most |-> f[i]]
        BY <1>3
    <2> QED BY <2>1, <2>2 DEF IsSearch, start
<1>5. IsSearch(gs, most, bytes, k)
    BY <1>4 DEF k
<1>6. EstimatedMaxLen(gs, most, bytes) = k[most].result
    BY Zenon DEF EstimatedMaxLen, IsSearch, k
<1>7. \A i \in 0..most : k[i] = IF i = 0 THEN start ELSE Turn(gs, bytes, k[i - 1])
    BY <1>5 DEF IsSearch, start
<1>8. k[0] = start /\ \A i \in 1..most : k[i] = Turn(gs, bytes, k[i - 1])
    <2>1. 0 \in 0..most /\ \A i \in 1..most : i \in 0..most /\ i # 0
        OBVIOUS
    <2> QED BY <1>7, <2>1
<1> QED BY <1>6, <1>8 DEF start

\* The bisection finds the longest request that fits.
LEMMA EstimateFacts ==
    ASSUME NEW gs, NEW most \in Nat \ {0}, NEW bytes, Falls(gs, most, bytes)
    PROVE  LET longest == EstimatedMaxLen(gs, most, bytes)
           IN  /\ longest \in 0..most
               /\ \A len \in 1..most : Fits(gs, len, bytes) <=> len <= longest
<1>1. CASE ~Fits(gs, 1, bytes)
    <2>1. EstimatedMaxLen(gs, most, bytes) = 0
        BY <1>1 DEF EstimatedMaxLen
    <2>2. \A len \in 1..most : ~Fits(gs, len, bytes) /\ ~(len <= 0)
        <3>1. 1 \in 1..most /\ \A len \in 1..most : 1 <= len
            OBVIOUS
        <3> QED BY <1>1, <3>1 DEF Falls
    <2> QED BY <2>1, <2>2
<1>2. CASE Fits(gs, 1, bytes)
    <2>1. PICK f : /\ EstimatedMaxLen(gs, most, bytes) = f[most].result
                   /\ f[0] = [left |-> 1, right |-> most, result |-> 1]
                   /\ \A n \in 1..most : f[n] = Turn(gs, bytes, f[n - 1])
        BY <1>2, SearchIs
    <2> DEFINE S == {n \in 0..most : /\ Narrows(gs, most, bytes, f[n])
                                     /\ \/ f[n].left > f[n].right
                                        \/ f[n].right - f[n].left <= most - 1 - n}
    <2>2. 0 \in S
        <3>1. f[0] \in Turns(most) /\ f[0].left = 1 /\ f[0].right = most /\ f[0].result = 1
            BY <2>1 DEF Turns
        <3>2. Narrows(gs, most, bytes, f[0])
            BY <1>2, <3>1 DEF Narrows
        <3> QED BY <3>1, <3>2
    <2>3. ASSUME NEW n \in 1..most, n - 1 \in S PROVE n \in S
        <3> DEFINE s == f[n - 1]
                   t == f[n]
        <3>1. t = Turn(gs, bytes, s) /\ Narrows(gs, most, bytes, s)
            BY <2>1, <2>3
        <3>2. s.left > s.right \/ s.right - s.left <= most - 1 - (n - 1)
            BY <2>3
        <3> HIDE DEF s, t
        <3>3. Narrows(gs, most, bytes, t) /\ (t.left > t.right \/ t.right - t.left < s.right - s.left)
            BY <3>1, TurnNarrows
        <3>4. s.left \in Int /\ s.right \in Int /\ t.left \in Int /\ t.right \in Int
            BY <3>1, <3>3 DEF Narrows, Turns
        <3>5. s.left > s.right => t = s
            BY <3>1 DEF Turn
        <3>6. t.left > t.right \/ t.right - t.left <= most - 1 - n
            BY <3>2, <3>3, <3>4, <3>5
        <3> QED BY <3>3, <3>6 DEF t
    <2>4. most \in S
        <3>1. S \subseteq 0..most /\ most \in 0..most
            OBVIOUS
        <3> HIDE DEF S
        <3>2. 0..most \subseteq S
            BY <2>2, <2>3, UpToInduction
        <3> QED BY <3>1, <3>2
    <2> DEFINE s == f[most]
    <2>5. /\ Narrows(gs, most, bytes, s)
          /\ s.left > s.right \/ s.right - s.left <= most - 1 - most
        BY <2>4
    <2> HIDE DEF s, S
    <2>6. s.left \in 1..(most + 1) /\ s.right \in 0..most /\ s.result \in 1..most
        BY <2>5 DEF Narrows, Turns
    <2>7. s.right <= s.result
        BY <2>5, <2>6 DEF Narrows
    <2>8. ASSUME NEW len \in 1..most PROVE Fits(gs, len, bytes) <=> len <= s.result
        <3>1. CASE len <= s.result
            BY <2>5, <2>6, <3>1 DEF Narrows, Falls
        <3>2. CASE ~(len <= s.result)
            <4>1. len \in (s.right + 1)..most
                BY <2>6, <2>7, <3>2
            <4> QED BY <2>5, <3>2, <4>1 DEF Narrows
        <3> QED BY <3>1, <3>2
    <2>9. EstimatedMaxLen(gs, most, bytes) = s.result
        BY <2>1 DEF s
    <2> QED BY <2>6, <2>8, <2>9
<1> QED BY <1>1, <1>2

(***************************************************************************)
(* Specs and groups                                                        *)
(***************************************************************************)

LEMMA PagesAreNatural ==
    ASSUME NEW s \in Specs
    PROVE  PageBytes(s) \in Nat
<1>1. /\ s.block \in Nat /\ s.bytes \in Nat /\ s.pad \in Nat /\ s.states \in Nat \ {0}
    BY DEF Specs
<1>2. s.block \div s.states \in Nat
    BY <1>1, DivMod
<1> DEFINE q == s.block \div s.states
<1>3. q * s.bytes \in Nat
    <2> HIDE DEF q
    <2> QED BY <1>1, <1>2 DEF q
<1> QED BY <1>1, <1>3 DEF PageBytes, UnpaddedBytes

\* A request takes a block or more of a group, and no fewer if it is longer.
LEMMA BlocksForFacts ==
    ASSUME NEW s \in Specs, NEW m \in Nat, NEW n \in Nat, m <= n
    PROVE  /\ BlocksFor(s, n) \in Nat
           /\ n # 0 => BlocksFor(s, n) # 0
           /\ BlocksFor(s, m) <= BlocksFor(s, n)
<1>1. s.block \in Nat \ {0} /\ s.window \in Nat /\ s.kind \in Kinds
    BY DEF Specs
<1>2. CASE s.kind \in {"full", "mla", "hidden"}
    <2>1. BlocksFor(s, n) = Cdiv(n, s.block) /\ BlocksFor(s, m) = Cdiv(m, s.block)
        BY <1>2 DEF BlocksFor
    <2>2. Cdiv(n, s.block) \in Nat /\ Cdiv(m, s.block) <= Cdiv(n, s.block)
          /\ n <= s.block * Cdiv(n, s.block)
        BY <1>1, CdivFacts, CdivMonotone
    <2>3. s.block * 0 = 0
        BY <1>1
    <2> DEFINE c == Cdiv(n, s.block)
    <2>4. n # 0 => c # 0
        <3> SUFFICES ASSUME c = 0 PROVE n = 0
            OBVIOUS
        <3>1. n <= s.block * 0
            BY <2>2
        <3> QED BY <2>3, <3>1
    <2> QED BY <2>1, <2>2, <2>4
<1>3. CASE s.kind = "swa"
    <2> DEFINE M(k) == Min({s.window - 1 + Batch, k})
    <2>1. BlocksFor(s, n) = Cdiv(M(n), s.block) + 1 /\ BlocksFor(s, m) = Cdiv(M(m), s.block) + 1
        BY <1>3 DEF BlocksFor
    <2>2. s.window - 1 + Batch \in Nat
        BY <1>1, BatchAssumption
    <2>3. M(n) \in Nat /\ M(m) \in Nat /\ M(m) <= M(n)
        <3> DEFINE a == s.window - 1 + Batch
        <3> HIDE DEF a
        <3>1. a \in Nat
            BY <2>2 DEF a
        <3>2. /\ Min({a, n}) \in {a, n} /\ Min({a, n}) <= a /\ Min({a, n}) <= n
              /\ Min({a, m}) \in {a, m} /\ Min({a, m}) <= a /\ Min({a, m}) <= m
            <4>1. a \in Int /\ n \in Int /\ m \in Int
                BY <3>1
            <4> QED BY <4>1, MinOfTwo
        <3>3. Min({a, n}) \in Nat /\ Min({a, m}) \in Nat /\ Min({a, m}) <= Min({a, n})
            BY <3>1, <3>2
        <3> QED BY <3>3 DEF a
    <2> HIDE DEF M
    <2>4. Cdiv(M(n), s.block) \in Nat /\ Cdiv(M(m), s.block) \in Nat
          /\ Cdiv(M(m), s.block) <= Cdiv(M(n), s.block)
        BY <1>1, <2>3, CdivFacts, CdivMonotone
    <2> QED BY <2>1, <2>4
<1>4. CASE s.kind \notin {"full", "mla", "hidden"} /\ s.kind # "swa"
    BY <1>4 DEF BlocksFor
<1> QED BY <1>2, <1>3, <1>4

\* Of layers of one type a request takes as many blocks.
LEMMA SameBlocks ==
    ASSUME NEW S \in SUBSET Specs, UniformType(S), NEW s \in S, NEW t \in S, NEW len
    PROVE  BlocksFor(s, len) = BlocksFor(t, len)
<1>1. /\ s.block = t.block
      /\ FullAttention(s) = FullAttention(t)
      /\ ~FullAttention(s) => s.kind = t.kind /\ s.window = t.window
    BY Zenon DEF UniformType
<1>2. CASE FullAttention(s)
    <2>1. s.kind \in {"full", "mla"} /\ t.kind \in {"full", "mla"}
        BY <1>1, <1>2 DEF FullAttention
    <2> QED BY <1>1, <2>1 DEF BlocksFor
<1>3. CASE ~FullAttention(s)
    BY <1>1, <1>3 DEF BlocksFor
<1> QED BY <1>2, <1>3

\* A group, whole or a worker's part of one.
PartOK(g) ==
    /\ g.layers \in Seq(DOMAIN g.spec)
    /\ DOMAIN g.spec # {} /\ DOMAIN g.spec \subseteq Nat
    /\ \A l \in DOMAIN g.spec : g.spec[l] \in Specs
    /\ \A k, l \in DOMAIN g.spec, len \in Nat : BlocksFor(g.spec[k], len) = BlocksFor(g.spec[l], len)

Parts(gs) == gs \in Seq(Range(gs)) /\ gs # <<>> /\ \A g \in Range(gs) : PartOK(g)

\* A list is given by its elements.
LEMMA ListOf ==
    ASSUME NEW n \in Nat, NEW E, NEW s, s \in [1..n -> E]
    PROVE  s \in Seq(E) /\ Len(s) = n
<1>1. s \in Seq(E)
    BY SeqDef
<1> QED BY <1>1, LenProperties

LEMMA NotEmpty ==
    ASSUME NEW E, NEW s \in Seq(E), s # <<>>
    PROVE  Len(s) \in Nat \ {0} /\ 1 \in 1..Len(s) /\ 1 \in DOMAIN s /\ Head(s) = s[1] /\ s[1] \in E
<1>1. Len(s) \in Nat /\ Len(s) # 0 /\ DOMAIN s = 1..Len(s)
    BY EmptySeq, LenProperties
<1>2. 1 \in 1..Len(s)
    BY <1>1
<1> QED BY <1>1, <1>2, ElementOfSeq, HeadTailProperties

LEMMA SumPagesIsNatural ==
    ASSUME NEW g, PartOK(g)
    PROVE  SumPages(g) \in Nat
<1> DEFINE s == [i \in DOMAIN g.layers |-> PageBytes(g.spec[g.layers[i]])]
<1>1. /\ Len(g.layers) \in Nat /\ DOMAIN g.layers = 1..Len(g.layers)
      /\ \A i \in 1..Len(g.layers) : g.layers[i] \in DOMAIN g.spec
    BY Elements DEF PartOK
<1>2. s \in [1..Len(g.layers) -> Nat]
    BY <1>1, PagesAreNatural DEF PartOK
<1>3. s \in Seq(Nat)
    BY <1>1, <1>2, ListOf
<1> HIDE DEF s
<1> QED BY <1>3, SumFacts DEF SumPages, s

\* Max() of one number.
LEMMA MaxOfSame ==
    ASSUME NEW v \in Nat, NEW T, T = {v}
    PROVE  Max(T) = v
<1>1. Max({v}) = v
    BY DEF Max
<1> QED BY <1>1

\* Groups that Kept() keeps are groups of the list.
LEMMA KeptGroups ==
    ASSUME NEW E, NEW gs \in Seq(E), NEW set
    PROVE  Kept(gs, set) \in Seq(E)
<1>1. Kept(gs, set) \in Seq(E \cap set)
    BY KeptFacts
<1>2. /\ Len(Kept(gs, set)) \in Nat /\ DOMAIN Kept(gs, set) = 1..Len(Kept(gs, set))
      /\ \A i \in 1..Len(Kept(gs, set)) : Kept(gs, set)[i] \in E
    BY <1>1, Elements
<1>3. Kept(gs, set) = [i \in 1..Len(Kept(gs, set)) |-> Kept(gs, set)[i]]
    BY <1>1, SeqDef
<1> QED BY <1>2, <1>3, ListOf

\* What a layout of GLM-5.3 takes of a block.
Taken(a) == SumPages(a.attn) + SumOf(Mapped(Apart(a), SumPages))

LEMMA TakenIsNatural ==
    ASSUME NEW a, PartOK(a.attn), NEW E, a.draft \in Seq(E), \A g \in E : PartOK(g)
    PROVE  Taken(a) \in Nat
<1> DEFINE d == Apart(a)
           s == Mapped(d, SumPages)
<1>1. d \in Seq(E)
    BY KeptGroups DEF Apart
<1>2. s = [i \in DOMAIN d |-> SumPages(d[i])]
    BY DEF Mapped
<1> HIDE DEF d, s
<1>3. Len(d) \in Nat /\ DOMAIN d = 1..Len(d) /\ \A i \in 1..Len(d) : d[i] \in E
    BY <1>1, Elements
<1>4. s \in [1..Len(d) -> Nat]
    BY <1>2, <1>3, SumPagesIsNatural
<1>5. s \in Seq(Nat)
    BY <1>3, <1>4, ListOf
<1>6. SumOf(s) \in Nat /\ SumPages(a.attn) \in Nat
    BY <1>5, SumFacts, SumPagesIsNatural
<1>7. Taken(a) = SumPages(a.attn) + SumOf(s)
    BY Zenon DEF Taken, s, d
<1> QED BY <1>6, <1>7

\* A list of numbers bounds them.
LEMMA MaxOfList ==
    ASSUME NEW s \in Seq(Nat), NEW T, T # {}, \A x \in T : \E i \in 1..Len(s) : x = s[i]
    PROVE  Max(T) \in Nat
<1>1. SumOf(s) \in Nat /\ \A i \in 1..Len(s) : s[i] \in Nat /\ s[i] <= SumOf(s)
    BY SumFacts, Elements
<1>2. T \in SUBSET (0..SumOf(s))
    BY <1>1
<1>3. Max(T) \in T
    BY <1>1, <1>2, MaxOfBounded
<1> QED BY <1>1, <1>2, <1>3

\* The layout of the ith group of MLA.
LayoutOf(gs, i) ==
    [attn |-> UniformGroups(gs, "mla")[i], mamba |-> MambaGroups(gs),
     tail |-> UniformGroups(gs, "tail"), draft |-> UniformGroups(gs, "swa")]

LEMMA LayoutIs ==
    ASSUME NEW gs, NEW a \in Glm5Layout(gs)
    PROVE  \E i \in DOMAIN UniformGroups(gs, "mla") : a = LayoutOf(gs, i)
<1>1. a \in [attn : Range(UniformGroups(gs, "mla")), mamba : {MambaGroups(gs)},
             tail : {UniformGroups(gs, "tail")}, draft : {UniformGroups(gs, "swa")}]
    BY Zenon DEF Glm5Layout
<1> QED BY <1>1 DEF LayoutOf, Range

\* The bytes of a block are a number.
LEMMA BytesAreNatural ==
    ASSUME NEW gs, Parts(gs)
    PROVE  BytesPerBlock(gs) \in Nat
<1>1. gs \in Seq(Range(gs)) /\ \A g \in Range(gs) : PartOK(g)
    BY DEF Parts
<1>2. CASE Glm5Layout(gs) # {}
    <2> DEFINE u == UniformGroups(gs, "mla")
               d == UniformGroups(gs, "swa")
               h == [i \in 1..Len(u) |-> Taken(LayoutOf(gs, i))]
               T == {Taken(a) : a \in Glm5Layout(gs)}
    <2>1. u \in Seq(Range(gs)) /\ d \in Seq(Range(gs))
        BY <1>1, KeptGroups, Zenon DEF UniformGroups
    <2>2. Len(u) \in Nat /\ DOMAIN u = 1..Len(u) /\ \A i \in 1..Len(u) : PartOK(u[i])
        BY <1>1, <2>1, Elements
    <2>3. ASSUME NEW i \in 1..Len(u) PROVE Taken(LayoutOf(gs, i)) \in Nat
        <3> DEFINE a == LayoutOf(gs, i)
        <3>1. a.attn = u[i] /\ a.draft = d
            BY DEF LayoutOf
        <3> HIDE DEF a, u, d
        <3>2. PartOK(a.attn) /\ a.draft \in Seq(Range(gs))
            BY <2>1, <2>2, <3>1
        <3>3. Taken(a) \in Nat
            BY <1>1, <3>2, TakenIsNatural
        <3> QED BY <3>3 DEF a
    <2>4. h \in Seq(Nat) /\ Len(h) = Len(u)
        <3>1. h \in [1..Len(u) -> Nat]
            BY <2>3
        <3> HIDE DEF h, u
        <3> QED BY <2>2, <3>1, ListOf
    <2>5. ASSUME NEW x \in T PROVE \E i \in 1..Len(h) : x = h[i]
        <3>1. PICK a \in Glm5Layout(gs) : x = Taken(a)
            OBVIOUS
        <3>2. PICK i \in DOMAIN u : a = LayoutOf(gs, i)
            BY LayoutIs
        <3>3. i \in 1..Len(u)
            BY <2>2, <3>2
        <3>4. h[i] = Taken(LayoutOf(gs, i))
            BY <3>3
        <3> HIDE DEF h, u
        <3> QED BY <2>4, <3>1, <3>2, <3>3, <3>4
    <2>6. T # {}
        BY <1>2
    <2>7. BytesPerBlock(gs) = Max(T)
        BY <1>2, Zenon DEF BytesPerBlock, Taken
    <2> HIDE DEF h, T
    <2> QED BY <2>4, <2>5, <2>6, <2>7, MaxOfList
<1>3. CASE Glm5Layout(gs) = {}
    <2> DEFINE h == [i \in 1..Len(gs) |-> SumPages(gs[i])]
               T == {SumPages(g) : g \in Range(gs)}
    <2>1. Len(gs) \in Nat /\ 1 \in 1..Len(gs) /\ DOMAIN gs = 1..Len(gs)
          /\ \A i \in 1..Len(gs) : gs[i] \in Range(gs)
        BY <1>1, Elements, NotEmpty DEF Parts
    <2>2. h \in Seq(Nat) /\ Len(h) = Len(gs)
        <3>1. h \in [1..Len(gs) -> Nat]
            BY <1>1, <2>1, SumPagesIsNatural
        <3> HIDE DEF h
        <3> QED BY <2>1, <3>1, ListOf
    <2>3. ASSUME NEW x \in T PROVE \E i \in 1..Len(h) : x = h[i]
        <3>1. PICK g \in Range(gs) : x = SumPages(g)
            OBVIOUS
        <3>2. PICK i \in 1..Len(gs) : g = gs[i]
            BY <2>1 DEF Range
        <3> QED BY <2>2, <3>1, <3>2
    <2>4. T # {}
        BY <2>1
    <2>5. BytesPerBlock(gs) = Max(T)
        BY <1>3 DEF BytesPerBlock
    <2> HIDE DEF h, T
    <2> QED BY <2>2, <2>3, <2>4, <2>5, MaxOfList
<1> QED BY <1>2, <1>3

\* s are the blocks of each group that a request takes; every layer of the
\* group asks for as many.
BlocksOf(gs, len, s) ==
    /\ BlocksPerRequest(gs, len) = SumOf(s) /\ s \in Seq(Nat) /\ Len(s) = Len(gs)
    /\ \A i \in 1..Len(gs) : \A l \in DOMAIN gs[i].spec : s[i] = BlocksFor(gs[i].spec[l], len)

\* Every group of parts counts them.
LEMMA RequestIs ==
    ASSUME NEW gs, Parts(gs), NEW len \in Nat
    PROVE  \E s : BlocksOf(gs, len, s)
<1> DEFINE s == Mapped(gs, LAMBDA g : Max({BlocksFor(t, len) : t \in Range(g.spec)}))
<1>1. Len(gs) \in Nat /\ DOMAIN gs = 1..Len(gs) /\ \A i \in 1..Len(gs) : PartOK(gs[i])
    BY Elements DEF Parts
<1>2. s = [i \in 1..Len(gs) |-> Max({BlocksFor(t, len) : t \in Range(gs[i].spec)})]
    BY <1>1, Zenon DEF Mapped, s
<1> HIDE DEF s
<1>3. ASSUME NEW i \in 1..Len(gs), NEW l \in DOMAIN gs[i].spec
      PROVE  BlocksFor(gs[i].spec[l], len) \in Nat /\ s[i] = BlocksFor(gs[i].spec[l], len)
    <2> DEFINE g == gs[i]
               T == {BlocksFor(t, len) : t \in Range(g.spec)}
               v == BlocksFor(g.spec[l], len)
    <2>1. PartOK(g) /\ l \in DOMAIN g.spec
        BY <1>1
    <2>2. s[i] = Max(T)
        BY <1>2
    <2> HIDE DEF g
    <2>3. v \in Nat
        <3>1. g.spec[l] \in Specs
            BY <2>1 DEF PartOK
        <3>2. len <= len
            OBVIOUS
        <3> QED BY <3>1, <3>2, BlocksForFacts
    <2>4. T = {v}
        <3>1. \A t \in Range(g.spec) : \E k \in DOMAIN g.spec : t = g.spec[k]
            BY DEF Range
        <3>2. \A k \in DOMAIN g.spec : BlocksFor(g.spec[k], len) = BlocksFor(g.spec[l], len)
            BY <2>1 DEF PartOK
        <3>3. \A t \in Range(g.spec) : BlocksFor(t, len) = v
            BY <3>1, <3>2
        <3>4. g.spec[l] \in Range(g.spec)
            BY <2>1 DEF Range
        <3> HIDE DEF v
        <3> QED BY <3>3, <3>4
    <2> HIDE DEF T, v
    <2>5. s[i] = v
        BY <2>2, <2>3, <2>4, MaxOfSame
    <2> QED BY <2>3, <2>5 DEF v, g
<1>4. s \in [1..Len(gs) -> Nat]
    <2>1. \A i \in 1..Len(gs) : s[i] \in Nat
        <3> SUFFICES ASSUME NEW i \in 1..Len(gs) PROVE s[i] \in Nat
            OBVIOUS
        <3>1. PICK l \in DOMAIN gs[i].spec : TRUE
            BY <1>1, Zenon DEF PartOK
        <3> QED BY <1>3, <3>1
    <2> QED BY <1>2, <2>1
<1>5. s \in Seq(Nat) /\ Len(s) = Len(gs)
    BY <1>1, <1>4, ListOf
<1>6. BlocksPerRequest(gs, len) = SumOf(s)
    BY Zenon DEF BlocksPerRequest, s
<1>7. BlocksOf(gs, len, s)
    BY <1>3, <1>5, <1>6 DEF BlocksOf
<1> QED BY <1>7

\* A longer request takes no fewer blocks, and one with a token takes a block.
LEMMA RequestFacts ==
    ASSUME NEW gs, Parts(gs), NEW m \in Nat, NEW n \in Nat, m <= n
    PROVE  /\ BlocksPerRequest(gs, n) \in Nat
           /\ n # 0 => BlocksPerRequest(gs, n) # 0
           /\ BlocksPerRequest(gs, m) <= BlocksPerRequest(gs, n)
<1>1. PICK s : BlocksOf(gs, m, s)
    BY RequestIs
<1>2. PICK t : BlocksOf(gs, n, t)
    BY RequestIs
<1>3. Len(gs) \in Nat /\ 1 \in 1..Len(gs) /\ \A i \in 1..Len(gs) : PartOK(gs[i])
    BY Elements, NotEmpty DEF Parts
<1>4. ASSUME NEW i \in 1..Len(gs) PROVE s[i] <= t[i] /\ (n # 0 => t[i] # 0)
    <2>1. PICK l \in DOMAIN gs[i].spec : TRUE
        BY <1>3, Zenon DEF PartOK
    <2>2. gs[i].spec[l] \in Specs
        BY <1>3, <2>1 DEF PartOK
    <2>3. s[i] = BlocksFor(gs[i].spec[l], m) /\ t[i] = BlocksFor(gs[i].spec[l], n)
        BY <1>1, <1>2 DEF BlocksOf
    <2> QED BY <2>2, <2>3, BlocksForFacts
<1>5. SumOf(s) <= SumOf(t)
    BY <1>1, <1>2, <1>4, SumMonotone DEF BlocksOf
<1>6. SumOf(t) \in Nat /\ t[1] <= SumOf(t) /\ t[1] \in Nat
    BY <1>2, <1>3, SumFacts, Elements DEF BlocksOf
<1>7. n # 0 => SumOf(t) # 0
    BY <1>3, <1>4, <1>6
<1> QED BY <1>1, <1>2, <1>5, <1>6, <1>7 DEF BlocksOf

\* Shorter requests fit where longer ones do.
LEMMA FitsFall ==
    ASSUME NEW gs, Parts(gs), NEW most \in Nat, NEW bytes \in Int
    PROVE  Falls(gs, most, bytes)
<1> SUFFICES ASSUME NEW k \in 1..most, NEW m \in 1..most, k <= m, Fits(gs, m, bytes)
             PROVE  Fits(gs, k, bytes)
    BY DEF Falls
<1> DEFINE b == BytesPerBlock(gs)
           x == BlocksPerRequest(gs, k)
           y == BlocksPerRequest(gs, m)
<1>1. b \in Nat /\ x \in Nat /\ y \in Nat /\ x <= y
    BY BytesAreNatural, RequestFacts
<1>2. b * y <= bytes
    BY DEF Fits
<1> HIDE DEF b, x, y
<1>3. b * x <= b * y /\ b * x \in Int /\ b * y \in Int
    <2>1. CASE b = 0
        <3>1. 0 * x = 0 /\ 0 * y = 0
            BY <1>1
        <3> QED BY <2>1, <3>1
    <2>2. CASE b # 0
        BY <1>1, <2>2, Multiples
    <2> QED BY <2>1, <2>2
<1> DEFINE p == b * x
           q == b * y
<1>4. p <= q /\ q <= bytes /\ p \in Int /\ q \in Int
    BY <1>2, <1>3
<1> HIDE DEF p, q
<1>5. p <= bytes
    BY <1>4
<1> QED BY <1>5 DEF p, b, x, Fits

(***************************************************************************)
(* The groups of a worker                                                  *)
(***************************************************************************)

Whole(gs) ==
    /\ gs \in Seq(Range(gs)) /\ gs # <<>>
    /\ \A g \in Range(gs) : GroupOK(g) /\ g.layers # <<>>

\* Every spec of p is that of g for its layer.
Within(p, g) ==
    /\ DOMAIN p.spec \subseteq DOMAIN g.spec
    /\ \A l \in DOMAIN p.spec : p.spec[l] = g.spec[l]

\* In a group a request takes as many blocks whichever layer one looks at.
LEMMA AlikeInGroup ==
    ASSUME NEW g, GroupOK(g), NEW k \in DOMAIN g.spec, NEW l \in DOMAIN g.spec, NEW len
    PROVE  BlocksFor(g.spec[k], len) = BlocksFor(g.spec[l], len)
<1>1. CASE g.uniform
    <2>1. g.spec[k] \in Range(g.spec) /\ g.spec[l] \in Range(g.spec)
        BY DEF Range
    <2>2. UniformType(Range(g.spec)) /\ Range(g.spec) \in SUBSET Specs
        BY <1>1 DEF GroupOK, Range
    <2> QED BY <2>1, <2>2, SameBlocks
<1>2. CASE ~g.uniform
    <2>1. g.spec[k] = g.spec[l]
        BY <1>2, Zenon DEF GroupOK
    <2> QED BY <2>1
<1> QED BY <1>1, <1>2

\* A worker's part of a group.
LEMMA PartFacts ==
    ASSUME NEW g, GroupOK(g), g.layers # <<>>, NEW layers
    PROVE  LET p == PartOf(g, layers)
           IN  /\ PartOK(p) /\ Within(p, g)
               /\ Range(p.layers) \subseteq layers \cap DOMAIN p.spec
               /\ p.uniform = g.uniform
               /\ g.uniform => p.listed \in Seq(DOMAIN p.spec) /\ p.listed # <<>>
<1> DEFINE p == PartOf(g, layers)
           own == Kept(g.layers, layers)
           D == DOMAIN g.spec
<1>1. g.layers \in Seq(D) /\ g.listed = g.layers
    BY DEF GroupOK
<1>2. own \in Seq(D \cap layers)
    BY <1>1, KeptFacts
<1>3. /\ Len(own) \in Nat /\ DOMAIN own = 1..Len(own)
      /\ \A i \in 1..Len(own) : own[i] \in D \cap layers
    BY <1>2, Elements
<1>4. own = [i \in 1..Len(own) |-> own[i]]
    BY <1>2, SeqDef
<1> HIDE DEF own
<1>5. \A E : (\A i \in 1..Len(own) : own[i] \in E) => own \in Seq(E)
    <2> SUFFICES ASSUME NEW E, \A i \in 1..Len(own) : own[i] \in E PROVE own \in Seq(E)
        OBVIOUS
    <2>1. own \in [1..Len(own) -> E]
        BY <1>4
    <2> QED BY <1>3, <2>1, ListOf
<1>6. /\ p.layers = own /\ p.uniform = g.uniform
      /\ p.spec = IF g.uniform /\ own # <<>> THEN Restrict(g.spec, ToSet(own)) ELSE g.spec
      /\ p.listed = IF g.uniform /\ own = <<>> THEN g.listed ELSE own
    BY DEF PartOf, own
<1>7. ToSet(own) \subseteq D /\ \A i \in 1..Len(own) : own[i] \in ToSet(own)
    BY <1>3 DEF ToSet
<1>8. D # {} /\ D \subseteq Nat
    <2>1. g.layers[1] \in D
        BY <1>1, NotEmpty
    <2> QED BY <2>1 DEF GroupOK
<1> HIDE DEF p
<1>9. /\ Within(p, g) /\ DOMAIN p.spec # {}
      /\ \A i \in 1..Len(own) : own[i] \in DOMAIN p.spec
    <2>1. CASE g.uniform /\ own # <<>>
        <3>1. DOMAIN p.spec = ToSet(own) /\ \A l \in ToSet(own) : p.spec[l] = g.spec[l]
            BY <1>6, <2>1 DEF Restrict
        <3>2. 1 \in 1..Len(own)
            BY <1>2, <2>1, NotEmpty
        <3> QED BY <1>7, <3>1, <3>2 DEF Within
    <2>2. CASE ~(g.uniform /\ own # <<>>)
        <3>1. p.spec = g.spec
            BY <1>6, <2>2
        <3> QED BY <1>3, <1>8, <3>1 DEF Within
    <2> QED BY <2>1, <2>2
<1>10. PartOK(p)
    <2>1. p.layers \in Seq(DOMAIN p.spec)
        BY <1>5, <1>6, <1>9
    <2>2. \A l \in DOMAIN p.spec : l \in D /\ p.spec[l] = g.spec[l] /\ g.spec[l] \in Specs
        BY <1>9 DEF Within, GroupOK
    <2>3. \A k, l \in DOMAIN p.spec, len \in Nat : BlocksFor(p.spec[k], len) = BlocksFor(p.spec[l], len)
        <3> SUFFICES ASSUME NEW k \in DOMAIN p.spec, NEW l \in DOMAIN p.spec, NEW len \in Nat
                     PROVE  BlocksFor(p.spec[k], len) = BlocksFor(p.spec[l], len)
            OBVIOUS
        <3>1. k \in D /\ l \in D /\ p.spec[k] = g.spec[k] /\ p.spec[l] = g.spec[l]
            BY <2>2
        <3>2. BlocksFor(g.spec[k], len) = BlocksFor(g.spec[l], len)
            BY <3>1, AlikeInGroup
        <3> QED BY <3>1, <3>2
    <2> QED BY <1>8, <1>9, <2>1, <2>2, <2>3 DEF PartOK, Within
<1>11. Range(p.layers) \subseteq layers \cap DOMAIN p.spec
    BY <1>3, <1>6, <1>9 DEF Range
<1>12. g.uniform => p.listed \in Seq(DOMAIN p.spec) /\ p.listed # <<>>
    <2> SUFFICES ASSUME g.uniform PROVE p.listed \in Seq(DOMAIN p.spec) /\ p.listed # <<>>
        OBVIOUS
    <2>1. CASE own = <<>>
        <3>1. p.spec = g.spec /\ p.listed = g.layers
            BY <1>1, <1>6, <2>1
        <3> QED BY <1>1, <3>1
    <2>2. CASE own # <<>>
        <3>1. p.listed = own
            BY <1>6, <2>2
        <3> QED BY <1>5, <1>9, <2>2, <3>1
    <2> QED BY <2>1, <2>2
<1> QED BY <1>6, <1>9, <1>10, <1>11, <1>12 DEF p

\* A worker's part of all groups.
LEMMA ProjectionFacts ==
    ASSUME NEW gs, Whole(gs), NEW layers
    PROVE  LET ps == Projection(gs, layers)
           IN  /\ Parts(ps) /\ Len(ps) = Len(gs)
               /\ Len(gs) \in Nat \ {0} /\ DOMAIN gs = 1..Len(gs)
               /\ \A i \in 1..Len(gs) :
                     /\ GroupOK(gs[i]) /\ gs[i].layers # <<>>
                     /\ ps[i] = PartOf(gs[i], layers)
<1> DEFINE ps == Projection(gs, layers)
           n == Len(gs)
<1>1. n \in Nat \ {0} /\ DOMAIN gs = 1..n /\ \A i \in 1..n : gs[i] \in Range(gs)
    BY Elements, NotEmpty DEF Whole
<1>2. \A i \in 1..n : GroupOK(gs[i]) /\ gs[i].layers # <<>>
    BY <1>1 DEF Whole
<1>3. ps = [i \in 1..n |-> PartOf(gs[i], layers)]
    BY <1>1 DEF Projection
<1> HIDE DEF ps
<1>4. DOMAIN ps = 1..n /\ \A i \in 1..n : ps[i] = PartOf(gs[i], layers) /\ PartOK(ps[i])
    BY <1>2, <1>3, PartFacts
<1> HIDE DEF n
<1>5. ps \in [1..n -> Range(ps)]
    BY <1>3, <1>4 DEF Range
<1>6. ps \in Seq(Range(ps)) /\ Len(ps) = n
    BY <1>1, <1>5, ListOf
<1>7. ps # <<>>
    <2>1. Len(ps) # 0
        BY <1>1, <1>6
    <2> QED BY <2>1, EmptySeq
<1>8. \A g \in Range(ps) : PartOK(g)
    BY <1>4 DEF Range
<1> QED BY <1>1, <1>2, <1>4, <1>6, <1>7, <1>8 DEF Parts, ps, n

\* What the scheduler is shown of a group is the spec of one of its layers.
LEMMA ShownFacts ==
    ASSUME Whole(groups), NEW layers, projected[1] = Projection(groups, layers),
           NEW i \in 1..Len(groups)
    PROVE  /\ Shown(i) \in Specs
           /\ \E l \in DOMAIN groups[i].spec : Shown(i) = groups[i].spec[l]
<1> DEFINE g == groups[i]
           p == projected[1][i]
<1>1. GroupOK(g) /\ g.layers # <<>> /\ p = PartOf(g, layers)
    BY ProjectionFacts
<1> HIDE DEF g
<1> DEFINE part == PartOf(g, layers)
<1>2. /\ PartOK(part) /\ Within(part, g) /\ part.uniform = g.uniform
      /\ g.uniform => part.listed \in Seq(DOMAIN part.spec) /\ part.listed # <<>>
    BY <1>1, PartFacts
<1> HIDE DEF p, part
<1>3. p = part
    BY <1>1 DEF part
<1>4. Shown(i) = IF p.uniform THEN p.spec[Head(p.listed)] ELSE SpecOf(p)
    BY DEF Shown, p
<1>5. \E l \in DOMAIN p.spec : Shown(i) = p.spec[l]
    <2>1. CASE p.uniform
        <3>1. Head(p.listed) \in DOMAIN p.spec
            BY <1>2, <1>3, <2>1, NotEmpty
        <3> QED BY <1>4, <2>1, <3>1
    <2>2. CASE ~p.uniform
        <3>1. DOMAIN p.spec \in SUBSET Nat /\ DOMAIN p.spec # {}
            BY <1>2, <1>3 DEF PartOK
        <3>2. Min(DOMAIN p.spec) \in DOMAIN p.spec
            BY <3>1, MinOfNaturals
        <3> QED BY <1>4, <2>2, <3>2 DEF SpecOf
    <2> QED BY <2>1, <2>2
<1>6. PICK l \in DOMAIN p.spec : Shown(i) = p.spec[l]
    BY <1>5
<1>7. l \in DOMAIN g.spec /\ p.spec[l] = g.spec[l] /\ p.spec[l] \in Specs
    BY <1>2, <1>3 DEF Within, PartOK
<1> QED BY <1>6, <1>7 DEF g

\* On every worker a request takes the blocks that the scheduler counts.
LEMMA RequestAgrees ==
    ASSUME Whole(groups), NEW first, projected[1] = Projection(groups, first),
           NEW layers, NEW len \in Nat
    PROVE  BlocksPerRequest(Projection(groups, layers), len)
              = SumOf([i \in DOMAIN groups |-> BlocksFor(Shown(i), len)])
<1> DEFINE ps == Projection(groups, layers)
           n == Len(groups)
           shown == [i \in DOMAIN groups |-> BlocksFor(Shown(i), len)]
<1>1. /\ Parts(ps) /\ Len(ps) = n /\ n \in Nat /\ DOMAIN groups = 1..n
      /\ \A i \in 1..n : /\ GroupOK(groups[i]) /\ groups[i].layers # <<>>
                         /\ ps[i] = PartOf(groups[i], layers)
    BY ProjectionFacts
<1> HIDE DEF ps
<1>2. PICK s : BlocksOf(ps, len, s)
    BY <1>1, RequestIs
<1>3. ASSUME NEW i \in 1..n PROVE s[i] = BlocksFor(Shown(i), len)
    <2> DEFINE g == groups[i]
               p == ps[i]
               part == PartOf(g, layers)
    <2>1. GroupOK(g) /\ g.layers # <<>> /\ p = part
        BY <1>1
    <2>2. PICK k \in DOMAIN g.spec : Shown(i) = g.spec[k]
        BY ShownFacts
    <2> HIDE DEF g
    <2>3. PartOK(part) /\ Within(part, g)
        BY <2>1, PartFacts
    <2> HIDE DEF part
    <2>4. PICK l \in DOMAIN p.spec : TRUE
        BY <2>1, <2>3 DEF PartOK
    <2>5. l \in DOMAIN g.spec /\ p.spec[l] = g.spec[l]
        BY <2>1, <2>3, <2>4 DEF Within
    <2>6. s[i] = BlocksFor(p.spec[l], len)
        BY <1>1, <1>2, <2>4 DEF BlocksOf
    <2>7. BlocksFor(g.spec[l], len) = BlocksFor(g.spec[k], len)
        BY <2>1, <2>5, AlikeInGroup
    <2> QED BY <2>2, <2>5, <2>6, <2>7
<1>4. s = [i \in 1..n |-> s[i]]
    BY <1>1, <1>2, SeqDef DEF BlocksOf
<1>5. s = shown
    BY <1>1, <1>3, <1>4
<1> QED BY <1>2, <1>5 DEF ps, BlocksOf

\* The size of a configuration.
LEMMA ConfigIs ==
    ASSUME NEW gs, NEW bytes, NEW override, NEW outermost
    PROVE  LET c == Config(gs, bytes, override, outermost)
           IN  /\ c.blocks = IF override = 0 THEN bytes \div BytesPerBlock(gs) ELSE override
               /\ c.size = BytesPerBlock(gs) * c.blocks
<1> DEFINE c == Config(gs, bytes, override, outermost)
<1>1. PICK tensors :
        c = [blocks  |-> IF override = 0 THEN bytes \div BytesPerBlock(gs) ELSE override,
             size    |-> BytesPerBlock(gs) * (IF override = 0 THEN bytes \div BytesPerBlock(gs) ELSE override),
             tensors |-> tensors]
    BY Zenon DEF Config
<1> HIDE DEF c
<1>2. c.blocks = IF override = 0 THEN bytes \div BytesPerBlock(gs) ELSE override
    BY <1>1
<1>3. c.size = BytesPerBlock(gs) * (IF override = 0 THEN bytes \div BytesPerBlock(gs) ELSE override)
    BY <1>1
<1> QED BY <1>2, <1>3, Zenon DEF c

\* A request that fits beside the null block gets its blocks beside it.
LEMMA Room ==
    ASSUME NEW b \in Nat \ {0}, NEW r \in Nat, NEW bytes \in Int, b * r <= bytes - b
    PROVE  /\ bytes \div b \in Nat /\ r <= (bytes \div b) - 1
           /\ \A k \in Nat : bytes = k * b => bytes \div b = k
<1> DEFINE x == b * r
           y == b * (r + 1)
<1>1. x \in Nat /\ y = x + b /\ y \in Int /\ x <= bytes - b
    BY Multiples
<1>2. y <= bytes /\ bytes \in Nat
    <2> HIDE DEF x, y
    <2> QED BY <1>1
<1>3. r + 1 \in Int
    OBVIOUS
<1> DEFINE m == r + 1
<1> HIDE DEF m
<1>4. b * m <= bytes <=> m <= bytes \div b
    BY <1>2, <1>3, Quotient DEF m
<1>5. bytes \div b \in Nat
    BY <1>2, DivMod
<1>6. m <= bytes \div b
    BY <1>2, <1>4 DEF m
<1> DEFINE q == bytes \div b
<1>7. q \in Nat /\ m <= q
    BY <1>5, <1>6
<1>8. \A k \in Nat : bytes = k * b => q = k
    <2>1. \A k \in Nat : k * b = b * k
        OBVIOUS
    <2> QED BY <2>1, Multiple
<1> HIDE DEF q
<1>9. r <= q - 1
    BY <1>7 DEF m
<1> QED BY <1>7, <1>8, <1>9 DEF q


(***************************************************************************)
(* The steps of planning                                                   *)
(***************************************************************************)

\* An engine has a worker, and memory on each.
LEMMA EngineFacts ==
    ASSUME NEW c \in Configurations
    PROVE  /\ Len(c.workers) \in Nat \ {0}
           /\ DOMAIN c.workers = 1..Len(c.workers) /\ 1 \in DOMAIN c.workers
           /\ c.memory \in [DOMAIN c.workers -> Int]
           /\ c.maxLen \in Nat \ {0} /\ c.override \in Nat
<1>1. /\ c.workers \in Seq(Range(c.workers)) /\ c.workers # <<>>
      /\ c.memory \in [DOMAIN c.workers -> Int]
      /\ c.maxLen \in Nat \ {0} /\ c.override \in Nat
    BY ConfigurationAssumption
<1>2. Len(c.workers) \in Nat \ {0} /\ DOMAIN c.workers = 1..Len(c.workers)
    BY <1>1, Elements, NotEmpty
<1> QED BY <1>1, <1>2

\* What grouping leads on to is whole.
LEMMA GroupedIsWhole ==
    ASSUME NEW c \in Configurations, NEW gs \in GroupedLayers(c),
           \A g \in Range(gs) : g.layers # <<>>
    PROVE  Whole(gs)
BY GroupingAssumption DEF Whole

\* Every worker has its part of the groups.
Placed == projected = [w \in Workers |-> Projection(groups, conf.workers[w])]

LEMMA PlacedFacts ==
    ASSUME Whole(groups), Placed, NEW w \in Workers
    PROVE  /\ projected[w] = Projection(groups, conf.workers[w])
           /\ Parts(projected[w])
           /\ BytesPerBlock(projected[w]) \in Nat
<1>1. projected[w] = Projection(groups, conf.workers[w])
    BY DEF Placed
<1> DEFINE ps == projected[w]
<1>2. Parts(ps)
    <2>1. \A layers : Parts(Projection(groups, layers))
        BY ProjectionFacts
    <2> QED BY <1>1, <2>1
<1> HIDE DEF ps
<1> QED BY <1>1, <1>2, BytesAreNatural DEF ps

\* The length that auto-fit settles on fits every worker, and a longer one
\* does not fit them all.
LEMMA FitFacts ==
    ASSUME conf \in Configurations, Whole(groups), Placed, memory \in [Workers -> Int]
    PROVE  LET least == Min({EstimatedMaxLen(projected[w], conf.maxLen, Usable(w)) : w \in Workers})
           IN  /\ least \in 0..conf.maxLen
               /\ least # 0 => \A w \in Workers : Fits(projected[w], least, Usable(w))
               /\ least < conf.maxLen => \E w \in Workers : ~Fits(projected[w], least + 1, Usable(w))
<1> DEFINE most == conf.maxLen
           Longest(w) == EstimatedMaxLen(projected[w], most, Usable(w))
           lens == {Longest(w) : w \in Workers}
           least == Min(lens)
<1>1. most \in Nat \ {0} /\ 1 \in Workers
    BY EngineFacts DEF Workers
<1> HIDE DEF most
<1>2. ASSUME NEW w \in Workers
      PROVE  /\ Longest(w) \in 0..most
             /\ \A len \in 1..most : Fits(projected[w], len, Usable(w)) <=> len <= Longest(w)
    <2>1. Parts(projected[w]) /\ BytesPerBlock(projected[w]) \in Nat
        BY PlacedFacts
    <2>2. Usable(w) \in Int
        BY <2>1 DEF Usable
    <2>3. Falls(projected[w], most, Usable(w))
        BY <1>1, <2>1, <2>2, FitsFall
    <2> QED BY <1>1, <2>3, EstimateFacts
<1> HIDE DEF Longest
<1>3. lens \in SUBSET Nat /\ lens # {}
    BY <1>1, <1>2
<1>4. least \in lens /\ \A k \in lens : least <= k
    BY <1>3, MinOfNaturals
<1>5. PICK v \in Workers : least = Longest(v)
    BY <1>4
<1>6. \A w \in Workers : least <= Longest(w)
    BY <1>4
<1> HIDE DEF least, lens
<1>7. least \in 0..most
    BY <1>2, <1>5
<1>8. ASSUME least # 0, NEW w \in Workers PROVE Fits(projected[w], least, Usable(w))
    <2>1. least \in 1..most
        BY <1>1, <1>7, <1>8
    <2> QED BY <1>2, <1>6, <2>1
<1>9. ASSUME least < most PROVE \E w \in Workers : ~Fits(projected[w], least + 1, Usable(w))
    <2>1. least + 1 \in 1..most /\ ~(least + 1 <= least)
        BY <1>1, <1>7, <1>9
    <2>2. ~Fits(projected[v], least + 1, Usable(v))
        BY <1>2, <1>5, <2>1
    <2> QED BY <2>2
<1> QED BY <1>7, <1>8, <1>9 DEF most, least, lens, Longest

\* Where a request fits, memory is left unless there was none.
LEMMA FitLeaves ==
    ASSUME NEW gs, Parts(gs), NEW bytes \in Int, NEW len \in Nat \ {0},
           Fits(gs, len, bytes - BytesPerBlock(gs)), bytes - BytesPerBlock(gs) <= 0
    PROVE  bytes <= 0
<1> DEFINE b == BytesPerBlock(gs)
           r == BlocksPerRequest(gs, len)
<1>1. b \in Nat
    BY BytesAreNatural
<1>2. r \in Nat \ {0}
    <2>1. len \in Nat /\ len <= len /\ len # 0
        OBVIOUS
    <2> QED BY <2>1, RequestFacts
<1>3. b * r <= bytes - b /\ bytes - b <= 0
    BY DEF Fits
<1> HIDE DEF b, r
<1>4. CASE b = 0
    BY <1>3, <1>4
<1>5. CASE b # 0
    <2>1. b * 0 = 0 /\ b * 0 < b * r
        <3>1. b * 0 = 0
            BY <1>1
        <3>2. b * 0 + b <= b * r
            BY <1>1, <1>2, <1>5, Multiples
        <3>3. b * r \in Int
            BY <1>1, <1>2, <1>5, Multiples
        <3> DEFINE x == b * r
                   y == b * 0
        <3> HIDE DEF x, y
        <3>4. y = 0 /\ y + b <= x /\ x \in Int
            BY <3>1, <3>2, <3>3 DEF x, y
        <3>5. y < x
            BY <1>1, <1>5, <3>4
        <3> QED BY <3>1, <3>5 DEF x, y
    <2>2. b * r \in Int
        BY <1>1, <1>2, <1>5, Multiples
    <2> DEFINE x == b * r
    <2>3. x \in Int /\ 0 < x /\ x <= bytes - b /\ bytes - b <= 0
        BY <1>3, <2>1, <2>2
    <2> HIDE DEF x
    <2> QED BY <1>1, <2>3
<1> QED BY <1>4, <1>5

\* What an engine is configured with by its memory, on each worker.
LEMMA ConfiguredFacts ==
    ASSUME conf \in Configurations, Whole(groups), Placed, memory \in [Workers -> Int],
           NEW w \in Workers, BytesPerBlock(projected[w]) # 0,
           maxLen \in 1..conf.maxLen, Usable(w) > 0, Fits(projected[w], maxLen, Usable(w)),
           conf.override # 0 => memory[w] = conf.override * BytesPerBlock(projected[w])
    PROVE  LET c == Config(projected[w], memory[w], conf.override, conf.outermost)
           IN  /\ c.blocks \in Nat /\ c.size \in Nat
               /\ BlocksPerRequest(projected[w], maxLen) <= c.blocks - 1
               /\ conf.override # 0 => c.blocks = conf.override
<1> DEFINE b == BytesPerBlock(projected[w])
           r == BlocksPerRequest(projected[w], maxLen)
           bytes == memory[w]
           over == conf.override
           c == Config(projected[w], bytes, over, conf.outermost)
<1>1. /\ c.blocks = IF over = 0 THEN bytes \div b ELSE over
      /\ c.size = b * c.blocks
    BY ConfigIs
<1> HIDE DEF c
<1>2. maxLen \in Nat /\ over \in Nat /\ bytes \in Int
    BY EngineFacts DEF Workers
<1>3. b \in Nat \ {0} /\ r \in Nat
    <2>1. BytesPerBlock(projected[w]) \in Nat
        BY PlacedFacts
    <2>2. Parts(projected[w]) /\ maxLen <= maxLen
        BY <1>2, PlacedFacts
    <2>3. r \in Nat
        BY <1>2, <2>2, RequestFacts
    <2> QED BY <2>1, <2>3
<1>4. b * r <= bytes - b /\ (over # 0 => bytes = over * b)
    BY DEF Fits, Usable
<1> HIDE DEF b, r, bytes, over
<1> DEFINE q == bytes \div b
<1>5. /\ q \in Nat /\ r <= q - 1
      /\ \A k \in Nat : bytes = k * b => q = k
    BY <1>2, <1>3, <1>4, Room
<1> HIDE DEF q
<1>6. c.blocks = q /\ (over # 0 => c.blocks = over)
    BY <1>1, <1>2, <1>4, <1>5 DEF q
<1>7. c.size \in Nat
    <2>1. \A x, y \in Nat : x * y \in Nat
        OBVIOUS
    <2> QED BY <1>1, <1>3, <1>5, <1>6, <2>1
<1> QED BY <1>5, <1>6, <1>7 DEF c, b, r, bytes, over

\* Planned anew for some blocks, a worker has those blocks.
LEMMA ShrunkFacts ==
    ASSUME NEW gs, BytesPerBlock(gs) \in Nat \ {0}, NEW blocks \in Nat,
           NEW override \in Nat, NEW outermost, override # 0 => blocks = override
    PROVE  LET c == Config(gs, blocks * BytesPerBlock(gs), override, outermost)
           IN  c.blocks = blocks /\ c.size \in Nat
<1> DEFINE b == BytesPerBlock(gs)
           bytes == blocks * b
           c == Config(gs, bytes, override, outermost)
<1>1. /\ c.blocks = IF override = 0 THEN bytes \div b ELSE override
      /\ c.size = b * c.blocks
    BY ConfigIs
<1> HIDE DEF c
<1>2. bytes \div b = blocks
    <2>1. b \in Nat \ {0}
        OBVIOUS
    <2> HIDE DEF b
    <2>2. blocks * b = b * blocks
        BY <2>1
    <2>3. (b * blocks) \div b = blocks
        BY <2>1, Multiple
    <2> QED BY <2>2, <2>3
<1> HIDE DEF bytes, b
<1>3. c.blocks = blocks
    BY <1>1, <1>2
<1>4. b * blocks \in Nat
    BY DEF b
<1> QED BY <1>1, <1>3, <1>4 DEF c, bytes, b

\* A prefix ends whole if the units are what Resolve sets.
EndsWhole(u) ==
    Len(groups) > 1 /\ u.caching =>
       LET cached == {Shown(i) : i \in {j \in DOMAIN groups : Cacheable(Shown(j))}}
           cut    == u.align /\ \E s \in cached : s.kind = "mamba" /\ s.block > u.hash
           ends   == IF cut THEN u.hash ELSE u.scheduler
       IN  /\ u.scheduler % u.hash = 0
           /\ u.align \/ (\A s \in cached : s.kind # "mamba") =>
                 \A s \in cached : DcpBlock(s, u.dcp) % u.hash = 0 /\ ends % s.states = 0

\* The units of an engine that does not look at the groups' blocks one by one.
LEMMA UnitsOfWhole ==
    ASSUME Whole(groups), NEW dcp \in 1..2, NEW caching \in BOOLEAN, NEW align \in BOOLEAN,
           NEW scheduler \in Nat \ {0},
           \/ Len(groups) <= 1
           \/ ~caching
           \/ ~align /\ \E s \in {Shown(i) : i \in DOMAIN groups} : s.kind = "mamba"
    PROVE  EndsWhole([dcp |-> dcp, align |-> align, caching |-> caching,
                      scheduler |-> scheduler, hash |-> scheduler])
<1> DEFINE cached == {Shown(i) : i \in {j \in DOMAIN groups : Cacheable(Shown(j))}}
<1>1. Len(groups) \in Nat
    BY ProjectionFacts
<1>2. CASE Len(groups) <= 1 \/ ~caching
    BY <1>1, <1>2 DEF EndsWhole
<1>3. CASE ~align /\ \E i \in DOMAIN groups : Shown(i).kind = "mamba"
    <2>1. PICK i \in DOMAIN groups : Shown(i).kind = "mamba"
        BY <1>3
    <2>2. Shown(i) \in cached
        BY <2>1 DEF Cacheable
    <2>3. ~(align \/ \A s \in cached : s.kind # "mamba")
        BY <1>3, <2>1, <2>2
    <2>4. scheduler % scheduler = 0
        OBVIOUS
    <2> HIDE DEF cached
    <2> QED BY <2>3, <2>4 DEF EndsWhole, cached
<1> QED BY <1>2, <1>3

\* A request takes as many blocks on each worker.
LEMMA SameRequest ==
    ASSUME conf \in Configurations, Whole(groups), Placed, NEW len \in Nat,
           NEW v \in Workers, NEW w \in Workers
    PROVE  /\ BlocksPerRequest(projected[w], len) = BlocksPerRequest(projected[v], len)
           /\ BlocksPerRequest(projected[w], len) = SumOf([i \in DOMAIN groups |-> BlocksFor(Shown(i), len)])
<1>1. 1 \in Workers
    BY EngineFacts DEF Workers
<1>2. \A u \in Workers : projected[u] = Projection(groups, conf.workers[u])
    BY DEF Placed
<1>3. \A layers : BlocksPerRequest(Projection(groups, layers), len)
                      = SumOf([i \in DOMAIN groups |-> BlocksFor(Shown(i), len)])
    BY <1>1, <1>2, RequestAgrees
<1> QED BY <1>2, <1>3

\* The blocks of every group, and the units that divide them.
LEMMA BlocksFacts ==
    ASSUME Whole(groups), Placed, conf \in Configurations, NEW dcp \in 1..2
    PROVE  LET shown     == {Shown(i) : i \in DOMAIN groups}
               sizes     == [i \in DOMAIN groups |-> DcpBlock(Shown(i), dcp)]
               scheduler == CommonMultipleOf(sizes)
               cacheable == {s \in shown : Cacheable(s)}
               blocks    == {DcpBlock(s, dcp) : s \in IF cacheable = {} THEN shown ELSE cacheable}
           IN  /\ \A s \in shown : s \in Specs
               /\ blocks \in SUBSET (Nat \ {0}) /\ blocks # {}
               /\ scheduler \in Nat \ {0}
               /\ \A b \in blocks : scheduler % b = 0
<1> DEFINE n == Len(groups)
           shown     == {Shown(i) : i \in DOMAIN groups}
           sizes     == [i \in DOMAIN groups |-> DcpBlock(Shown(i), dcp)]
           scheduler == CommonMultipleOf(sizes)
           cacheable == {s \in shown : Cacheable(s)}
           served    == IF cacheable = {} THEN shown ELSE cacheable
           blocks    == {DcpBlock(s, dcp) : s \in served}
<1>1. n \in Nat \ {0} /\ DOMAIN groups = 1..n
    BY ProjectionFacts
<1>2. projected[1] = Projection(groups, conf.workers[1])
    <2>1. 1 \in Workers
        BY EngineFacts DEF Workers
    <2> QED BY <2>1, PlacedFacts
<1>3. ASSUME NEW i \in 1..n PROVE Shown(i) \in Specs
    BY <1>2, ShownFacts
<1>4. ASSUME NEW s \in Specs PROVE DcpBlock(s, dcp) \in Nat \ {0}
    <2>1. s.block \in Nat \ {0}
        BY DEF Specs
    <2> DEFINE b == s.block
    <2>2. b * dcp \in Nat \ {0}
        <3>1. dcp = 1 \/ dcp = 2
            OBVIOUS
        <3> HIDE DEF b
        <3> QED BY <2>1, <3>1 DEF b
    <2> QED BY <2>1, <2>2 DEF DcpBlock
<1> HIDE DEF n
<1>5. \A s \in shown : s \in Specs
    BY <1>1, <1>3
<1>6. sizes \in [1..n -> Nat \ {0}]
    BY <1>1, <1>3, <1>4
<1>7. sizes \in Seq(Nat \ {0}) /\ Len(sizes) = n
    BY <1>1, <1>6, ListOf
<1>8. \A i \in 1..n : sizes[i] = DcpBlock(Shown(i), dcp)
    BY <1>1
<1> HIDE DEF sizes
<1>9. scheduler \in Nat \ {0} /\ \A i \in 1..n : scheduler % DcpBlock(Shown(i), dcp) = 0
    BY <1>7, <1>8, CommonMultipleOfFacts
<1>10. shown # {}
    BY <1>1
<1>11. served \subseteq shown /\ served # {}
    BY <1>10
<1> HIDE DEF scheduler
<1>12. \A s \in shown : scheduler % DcpBlock(s, dcp) = 0
    BY <1>1, <1>9
<1> HIDE DEF shown, served
<1>13. blocks \in SUBSET (Nat \ {0}) /\ blocks # {}
    BY <1>4, <1>5, <1>11
<1>14. \A b \in blocks : scheduler % b = 0
    BY <1>11, <1>12
<1> QED BY <1>5, <1>9, <1>13, <1>14 DEF scheduler, shown, sizes, served

\* What divides the blocks of every group that the prefix cache serves, and
\* ends prefixes where no state is cut, is a unit that ends them whole.
LEMMA UnitsOfGroups ==
    ASSUME NEW dcp, NEW caching, NEW align, NEW blocks \in SUBSET (Nat \ {0}), blocks # {},
           NEW scheduler \in Nat \ {0}, NEW hash \in Nat \ {0},
           \A b \in blocks : scheduler % b = 0 /\ b % hash = 0,
           \A i \in DOMAIN groups : Shown(i) \in Specs,
           \A i \in DOMAIN groups : Cacheable(Shown(i)) =>
              /\ DcpBlock(Shown(i), dcp) \in blocks
              /\ HitAlignment(dcp, align, scheduler, hash) % Shown(i).states = 0
    PROVE  EndsWhole([dcp |-> dcp, align |-> align, caching |-> caching,
                      scheduler |-> scheduler, hash |-> hash])
<1> DEFINE u == [dcp |-> dcp, align |-> align, caching |-> caching,
                 scheduler |-> scheduler, hash |-> hash]
           cached == {Shown(i) : i \in {j \in DOMAIN groups : Cacheable(Shown(j))}}
           cut    == align /\ \E s \in cached : s.kind = "mamba" /\ s.block > hash
           ends   == IF cut THEN hash ELSE scheduler
           hit    == HitAlignment(dcp, align, scheduler, hash)
<1>1. \A s \in cached : /\ s \in Specs /\ DcpBlock(s, dcp) \in blocks
                        /\ hit % s.states = 0
    OBVIOUS
<1>2. scheduler % hash = 0
    <2>1. PICK b \in blocks : scheduler % b = 0 /\ b % hash = 0
        OBVIOUS
    <2> QED BY <2>1, DividesTransitive
<1>3. \A s \in cached : DcpBlock(s, dcp) % hash = 0
    BY <1>1
<1>4. cut => hit = hash
    <2> SUFFICES ASSUME cut PROVE hit = hash
        OBVIOUS
    <2>1. PICK i \in DOMAIN groups : Shown(i).kind = "mamba" /\ Shown(i).block > hash
        OBVIOUS
    <2>3. Shown(i).block \in Nat
        BY DEF Specs
    <2>4. Shown(i).block >= hash
        BY <2>1, <2>3
    <2> QED BY <2>1, <2>4 DEF HitAlignment
<1>5. hit \in {hash, scheduler}
    BY DEF HitAlignment
<1>6. ASSUME NEW s \in cached PROVE ends % s.states = 0
    <2>1. s.states \in Nat \ {0}
        BY <1>1 DEF Specs
    <2>2. hit % s.states = 0
        BY <1>1
    <2> HIDE DEF hit, cut
    <2>3. CASE cut
        BY <1>4, <2>2, <2>3
    <2>4. CASE ~cut /\ hit = scheduler
        BY <2>2, <2>4
    <2>5. CASE ~cut /\ hit = hash
        BY <1>2, <2>1, <2>2, <2>5, DividesTransitive
    <2> QED BY <1>5, <2>3, <2>4, <2>5
<1>7. /\ u.dcp = dcp /\ u.align = align /\ u.caching = caching
      /\ u.scheduler = scheduler /\ u.hash = hash
    OBVIOUS
<1> HIDE DEF u
<1> QED BY <1>2, <1>3, <1>6, <1>7, Zenon DEF EndsWhole, cached, ends, cut, u

(***************************************************************************)
(* The invariant                                                           *)
(***************************************************************************)

Projected  == {"fit", "check", "configure", "shrink", "resolve", "done"}
Checked    == {"configure", "shrink", "resolve", "done"}
Configured == {"resolve", "done"}

\* The groups are those of all layers, and every worker has its part.
GroupsKnown ==
    /\ conf \in Configurations
    /\ groups = <<>> \/ Whole(groups)
    /\ projected = <<>> \/ (Whole(groups) /\ Placed)
    /\ pc \in {"group", "project"} => projected = <<>>
    /\ pc = "project" => Whole(groups)
    /\ pc \in Projected => Whole(groups) /\ Placed

\* With num_gpu_blocks_override memory is what those blocks take.
MemoryKnown ==
    /\ memory \in [Workers -> Int]
    /\ pc \in Projected /\ conf.override # 0 =>
          \A w \in Workers : memory[w] = conf.override * BytesPerBlock(projected[w])

\* A length that was checked, or that auto-fit found, fits every worker.
LengthFits ==
    /\ maxLen \in 1..conf.maxLen
    /\ pc \in Checked \/ (conf.autoFit /\ pc = "check") =>
          \A w \in Workers : Fits(projected[w], maxLen, Usable(w))
    /\ pc \in Checked => \A w \in Workers : Usable(w) > 0

\* What auto-fit found is the longest.
LengthMaximal ==
    conf.autoFit =>
       /\ pc \in Checked \cup {"check"} /\ maxLen < conf.maxLen =>
             \E w \in Workers : ~Fits(projected[w], maxLen + 1, Usable(w))
       /\ error = "memory" => \E w \in Workers : memory[w] <= 0

\* A worker is configured with the blocks its memory has, which are enough for
\* the longest request, and all with as many once they are cut.
BlocksKnown ==
    /\ \/ configs = <<>>
       \/ /\ DOMAIN configs = Workers
          /\ \A w \in Workers : configs[w].blocks \in Nat /\ configs[w].size \in Nat
    /\ pc \in {"shrink"} \cup Configured =>
          /\ DOMAIN configs = Workers
          /\ \A w \in Workers : /\ configs[w].blocks \in Nat /\ configs[w].size \in Nat
                                /\ BlocksPerRequest(projected[w], maxLen) <= configs[w].blocks - 1
    /\ pc = "shrink" =>
          \A w \in Workers : /\ BytesPerBlock(projected[w]) # 0
                             /\ conf.override # 0 => configs[w].blocks = conf.override
    /\ pc \in Configured => \A w \in Workers : configs[w].blocks = configs[1].blocks

StepsKnown ==
    /\ pc \in {"group", "project", "failed"} \cup Projected
    /\ error \in {"none", "grouping", "split", "empty", "length", "memory", "layers", "layout",
                 "unit", "states"}
    /\ pc # "failed" => error = "none"

IInv ==
    /\ StepsKnown /\ GroupsKnown /\ MemoryKnown /\ LengthFits /\ LengthMaximal /\ BlocksKnown
    /\ PrefixEndsWhole

\* A failure for another reason than memory changes nothing that is known.
LEMMA FailKeeps ==
    ASSUME IInv, NEW what \in {"grouping", "split", "empty", "length", "memory", "layers", "layout",
                              "unit", "states"},
           Fail(what), what = "memory" /\ conf.autoFit => \E w \in Workers : memory[w] <= 0
    PROVE  IInv'
<1> USE DEF Fail
<1>1. StepsKnown'
    BY DEF StepsKnown
<1>2. GroupsKnown'
    BY DEF IInv, GroupsKnown, Placed, Workers, Projected, Whole
<1>3. MemoryKnown'
    BY DEF IInv, MemoryKnown, Workers, Projected
<1>4. LengthFits'
    BY DEF IInv, LengthFits, Checked, Workers
<1>5. LengthMaximal'
    BY DEF LengthMaximal, Checked, Workers
<1>6. BlocksKnown'
    BY DEF IInv, BlocksKnown, Configured, Workers
<1>7. PrefixEndsWhole'
    BY DEF PrefixEndsWhole
<1> QED BY <1>1, <1>2, <1>3, <1>4, <1>5, <1>6, <1>7 DEF IInv

LEMMA InitInv ==
    ASSUME Init
    PROVE  IInv
<1> USE DEF Init
<1>1. /\ conf.memory \in [DOMAIN conf.workers -> Int]
      /\ conf.maxLen \in Nat \ {0}
    BY EngineFacts
<1>2. StepsKnown
    BY DEF StepsKnown
<1>6. GroupsKnown
    <2>1. groups = <<>> /\ projected = <<>> /\ conf \in Configurations
        OBVIOUS
    <2>2. pc # "project" /\ pc \notin Projected
        BY DEF Projected
    <2> QED BY <2>1, <2>2, Zenon DEF GroupsKnown
<1>4. MemoryKnown /\ LengthFits
    BY <1>1 DEF MemoryKnown, LengthFits, Workers, Projected, Checked
<1>5. LengthMaximal /\ BlocksKnown
    BY DEF LengthMaximal, BlocksKnown, Checked, Configured
<1>3. PrefixEndsWhole
    BY DEF PrefixEndsWhole
<1> QED BY <1>2, <1>3, <1>4, <1>5, <1>6 DEF IInv

LEMMA FindGroupsInv ==
    ASSUME IInv, FindGroups
    PROVE  IInv'
<1>1. CASE Fail("grouping") \/ Fail("split")
    BY <1>1, FailKeeps
<1>2. CASE \E gs \in GroupedLayers(conf) :
              /\ ~ \E g \in Range(gs) : g.layers = <<>>
              /\ pc = "group" /\ groups' = gs /\ pc' = "project"
              /\ UNCHANGED <<conf, error, projected, memory, maxLen, configs, units>>
    <2>1. PICK gs \in GroupedLayers(conf) :
              /\ \A g \in Range(gs) : g.layers # <<>>
              /\ pc = "group" /\ groups' = gs /\ pc' = "project"
              /\ UNCHANGED <<conf, error, projected, memory, maxLen, configs, units>>
        BY <1>2
    <2>2. conf \in Configurations
        BY DEF IInv, GroupsKnown
    <2>3. Whole(groups')
        BY <2>1, <2>2, GroupedIsWhole
    <2>4. GroupsKnown'
        BY <2>1, <2>3 DEF IInv, GroupsKnown, Placed, Workers, Projected
    <2>5. StepsKnown' /\ MemoryKnown' /\ LengthFits' /\ LengthMaximal' /\ BlocksKnown'
        BY <2>1 DEF IInv, StepsKnown, MemoryKnown, LengthFits, LengthMaximal, BlocksKnown,
                    Workers, Projected, Checked, Configured
    <2>6. PrefixEndsWhole'
        BY <2>1 DEF PrefixEndsWhole
    <2> QED BY <2>4, <2>5, <2>6 DEF IInv
<1> QED BY <1>1, <1>2, Zenon DEF FindGroups

LEMMA ProjectInv ==
    ASSUME IInv, Project
    PROVE  IInv'
<1> DEFINE ps == [w \in Workers |-> Projection(groups, conf.workers[w])]
<1>1. CASE Fail("empty")
    BY <1>1, FailKeeps
<1>2. CASE /\ pc = "project" /\ projected' = ps
           /\ memory' = IF conf.override = 0 THEN memory
                        ELSE [w \in Workers |-> conf.override * BytesPerBlock(ps[w])]
           /\ pc' = "fit"
           /\ UNCHANGED <<conf, error, groups, maxLen, configs, units>>
    <2>1. conf \in Configurations /\ Whole(groups) /\ memory \in [Workers -> Int]
        BY <1>2 DEF IInv, GroupsKnown, MemoryKnown
    <2>2. Placed'
        BY <1>2 DEF Placed, Workers
    <2>3. GroupsKnown'
        BY <1>2, <2>1, <2>2 DEF GroupsKnown, Projected
    <2>4. conf.override \in Nat
        BY <2>1, EngineFacts
    <2>5. \A w \in Workers : BytesPerBlock(ps[w]) \in Nat
        BY <2>1, ProjectionFacts, BytesAreNatural
    <2>6. MemoryKnown'
        <3> HIDE DEF ps
        <3>1. \A w \in Workers : conf.override * BytesPerBlock(ps[w]) \in Int
            <4>1. \A x, y \in Nat : x * y \in Int
                OBVIOUS
            <4> QED BY <2>4, <2>5, <4>1
        <3>2. memory' \in [Workers -> Int]
            BY <1>2, <2>1, <3>1
        <3>3. conf.override # 0 =>
                 \A w \in Workers : memory'[w] = conf.override * BytesPerBlock(ps[w])
            BY <1>2
        <3> QED BY <1>2, <3>2, <3>3 DEF MemoryKnown, Workers
    <2>7. StepsKnown'
        BY <1>2 DEF IInv, StepsKnown, Projected
    <2>8. LengthFits' /\ BlocksKnown'
        BY <1>2 DEF IInv, LengthFits, BlocksKnown, Checked, Configured, Workers
    <2>9. LengthMaximal' /\ PrefixEndsWhole'
        BY <1>2 DEF IInv, StepsKnown, LengthMaximal, PrefixEndsWhole, Checked
    <2> QED BY <2>3, <2>6, <2>7, <2>8, <2>9 DEF IInv
<1> QED BY <1>1, <1>2, Zenon DEF Project

LEMMA AutoFitInv ==
    ASSUME IInv, AutoFit
    PROVE  IInv'
<1> DEFINE least == Min({EstimatedMaxLen(projected[w], conf.maxLen, Usable(w)) : w \in Workers})
<1>1. CASE Fail("length")
    BY <1>1, FailKeeps
<1>2. CASE /\ pc = "fit" /\ ~(conf.autoFit /\ least = 0)
           /\ maxLen' = IF conf.autoFit THEN least ELSE maxLen
           /\ pc' = "check"
           /\ UNCHANGED <<conf, error, groups, projected, memory, configs, units>>
    <2>1. /\ conf \in Configurations /\ Whole(groups) /\ Placed /\ memory \in [Workers -> Int]
          /\ maxLen \in 1..conf.maxLen
        BY <1>2 DEF IInv, GroupsKnown, MemoryKnown, LengthFits, Projected
    <2>2. conf.maxLen \in Nat
        BY <2>1, EngineFacts
    <2>3. /\ least \in 0..conf.maxLen
          /\ least # 0 => \A w \in Workers : Fits(projected[w], least, Usable(w))
          /\ least < conf.maxLen => \E w \in Workers : ~Fits(projected[w], least + 1, Usable(w))
        BY <2>1, FitFacts
    <2> HIDE DEF least
    <2>4. \A w : Usable(w)' = Usable(w)
        BY <1>2 DEF Usable
    <2>5. LengthFits'
        <3>1. maxLen' \in 1..conf.maxLen
            BY <1>2, <2>1, <2>2, <2>3
        <3>2. conf.autoFit => \A w \in Workers : Fits(projected[w], maxLen', Usable(w))
            BY <1>2, <2>3
        <3>3. pc' = "check" /\ pc' \notin Checked
            BY <1>2 DEF Checked
        <3> QED BY <1>2, <2>4, <3>1, <3>2, <3>3 DEF LengthFits, Workers
    <2>6. LengthMaximal'
        <3>1. conf.autoFit /\ maxLen' < conf.maxLen =>
                \E w \in Workers : ~Fits(projected[w], maxLen' + 1, Usable(w))
            BY <1>2, <2>3
        <3>2. error' # "memory"
            BY <1>2 DEF IInv, StepsKnown
        <3> QED BY <1>2, <2>4, <3>1, <3>2 DEF LengthMaximal, Workers
    <2>7. StepsKnown' /\ GroupsKnown' /\ MemoryKnown'
        BY <1>2 DEF IInv, StepsKnown, GroupsKnown, MemoryKnown, Placed, Workers, Projected
    <2>8. BlocksKnown' /\ PrefixEndsWhole'
        BY <1>2 DEF IInv, BlocksKnown, PrefixEndsWhole, Configured, Workers
    <2> QED BY <2>5, <2>6, <2>7, <2>8 DEF IInv
<1> QED BY <1>1, <1>2, Zenon DEF AutoFit

LEMMA CheckInv ==
    ASSUME IInv, Check
    PROVE  IInv'
<1>1. pc = "check"
    BY DEF Check
<1>2. /\ conf \in Configurations /\ Whole(groups) /\ Placed /\ memory \in [Workers -> Int]
      /\ maxLen \in 1..conf.maxLen
    BY <1>1 DEF IInv, GroupsKnown, MemoryKnown, LengthFits, Projected
<1>3. CASE /\ \E w \in Workers : Usable(w) <= 0 \/ ~Fits(projected[w], maxLen, Usable(w))
           /\ Fail("memory")
    <2>1. ASSUME conf.autoFit PROVE \E w \in Workers : memory[w] <= 0
        <3>1. \A w \in Workers : Fits(projected[w], maxLen, Usable(w))
            BY <1>1, <2>1 DEF IInv, LengthFits
        <3>2. PICK w \in Workers : Usable(w) <= 0
            BY <1>3, <3>1
        <3>3. Parts(projected[w]) /\ maxLen \in Nat \ {0} /\ memory[w] \in Int
            BY <1>2, PlacedFacts, EngineFacts
        <3>4. /\ Fits(projected[w], maxLen, memory[w] - BytesPerBlock(projected[w]))
              /\ memory[w] - BytesPerBlock(projected[w]) <= 0
            BY <3>1, <3>2 DEF Usable
        <3>5. memory[w] <= 0
            BY <3>3, <3>4, FitLeaves
        <3> QED BY <3>5
    <2> QED BY <1>3, <2>1, FailKeeps
<1>4. CASE /\ ~ \E w \in Workers : Usable(w) <= 0 \/ ~Fits(projected[w], maxLen, Usable(w))
           /\ pc' = "configure"
           /\ UNCHANGED <<conf, error, groups, projected, memory, maxLen, configs, units>>
    <2>1. \A w \in Workers : Usable(w) > 0 /\ Fits(projected[w], maxLen, Usable(w))
        <3> SUFFICES ASSUME NEW w \in Workers
                     PROVE  Usable(w) > 0 /\ Fits(projected[w], maxLen, Usable(w))
            OBVIOUS
        <3>1. BytesPerBlock(projected[w]) \in Nat /\ memory[w] \in Int
            BY <1>2, PlacedFacts
        <3>2. Usable(w) \in Int
            BY <3>1 DEF Usable
        <3>3. ~(Usable(w) <= 0) /\ Fits(projected[w], maxLen, Usable(w))
            BY <1>4
        <3> QED BY <3>2, <3>3
    <2>2. \A w : Usable(w)' = Usable(w)
        BY <1>4 DEF Usable
    <2>3. LengthFits'
        BY <1>2, <1>4, <2>1, <2>2 DEF LengthFits, Workers
    <2>4. LengthMaximal'
        BY <1>1, <1>4, <2>2 DEF IInv, LengthMaximal, StepsKnown, Workers
    <2>5. StepsKnown' /\ GroupsKnown' /\ MemoryKnown'
        BY <1>1, <1>4 DEF IInv, StepsKnown, GroupsKnown, MemoryKnown, Placed, Workers, Projected
    <2>6. BlocksKnown' /\ PrefixEndsWhole'
        BY <1>4 DEF IInv, BlocksKnown, PrefixEndsWhole, Configured, Workers
    <2> QED BY <2>3, <2>4, <2>5, <2>6 DEF IInv
<1> QED BY <1>3, <1>4, Zenon DEF Check

LEMMA ConfigureInv ==
    ASSUME IInv, Configure
    PROVE  IInv'
<1> DEFINE Made(w) == Config(projected[w], memory[w], conf.override, conf.outermost)
<1>1. pc = "configure"
    BY DEF Configure
<1>2. /\ conf \in Configurations /\ Whole(groups) /\ Placed /\ memory \in [Workers -> Int]
      /\ maxLen \in 1..conf.maxLen
      /\ \A w \in Workers : Usable(w) > 0 /\ Fits(projected[w], maxLen, Usable(w))
      /\ conf.override # 0 =>
            \A w \in Workers : memory[w] = conf.override * BytesPerBlock(projected[w])
    BY <1>1 DEF IInv, GroupsKnown, MemoryKnown, LengthFits, Projected, Checked
<1>3. CASE Fail("layers") \/ Fail("empty") \/ Fail("layout")
    BY <1>3, FailKeeps
<1>4. CASE /\ ~ \E w \in Workers : BytesPerBlock(projected[w]) = 0
           /\ configs' = [w \in Workers |-> Made(w)]
           /\ pc' = "shrink"
           /\ UNCHANGED <<conf, error, groups, projected, memory, maxLen, units>>
    <2>1. ASSUME NEW w \in Workers
          PROVE  /\ Made(w).blocks \in Nat /\ Made(w).size \in Nat
                 /\ BlocksPerRequest(projected[w], maxLen) <= Made(w).blocks - 1
                 /\ conf.override # 0 => Made(w).blocks = conf.override
        <3>1. BytesPerBlock(projected[w]) # 0
            BY <1>4
        <3> QED BY <1>2, <3>1, ConfiguredFacts
    <2> HIDE DEF Made
    <2>2. DOMAIN configs' = Workers /\ \A w \in Workers : configs'[w] = Made(w)
        BY <1>4
    <2>3. BlocksKnown'
        <3>1. pc' \notin Configured
            BY <1>4 DEF Configured
        <3>2. \A w \in Workers :
                 /\ configs'[w].blocks \in Nat /\ configs'[w].size \in Nat
                 /\ BlocksPerRequest(projected[w], maxLen) <= configs'[w].blocks - 1
                 /\ BytesPerBlock(projected[w]) # 0
                 /\ conf.override # 0 => configs'[w].blocks = conf.override
            BY <1>4, <2>1, <2>2
        <3> QED BY <1>4, <2>2, <3>1, <3>2 DEF BlocksKnown, Workers
    <2>4. \A w : Usable(w)' = Usable(w)
        BY <1>4 DEF Usable
    <2>5. LengthFits' /\ LengthMaximal'
        BY <1>1, <1>4, <2>4 DEF IInv, LengthFits, LengthMaximal, StepsKnown, Workers, Checked
    <2>6. StepsKnown' /\ GroupsKnown' /\ MemoryKnown'
        BY <1>1, <1>4 DEF IInv, StepsKnown, GroupsKnown, MemoryKnown, Placed, Workers, Projected
    <2>7. PrefixEndsWhole'
        BY <1>4 DEF PrefixEndsWhole
    <2> QED BY <2>3, <2>5, <2>6, <2>7 DEF IInv
<1> QED BY <1>3, <1>4, Zenon DEF Configure

LEMMA ShrinkInv ==
    ASSUME IInv, Shrink
    PROVE  IInv'
<1> DEFINE all == {configs[w].blocks : w \in Workers}
           blocks == Min(all)
           Cut(w) == Config(projected[w], blocks * BytesPerBlock(projected[w]),
                            conf.override, conf.outermost)
<1>1. /\ pc = "shrink"
      /\ configs' = [w \in Workers |-> IF configs[w].blocks = blocks THEN configs[w] ELSE Cut(w)]
      /\ pc' = "resolve"
      /\ UNCHANGED <<conf, error, groups, projected, memory, maxLen, units>>
    BY Zenon DEF Shrink
<1>2. /\ conf \in Configurations /\ Whole(groups) /\ Placed
      /\ maxLen \in 1..conf.maxLen /\ DOMAIN configs = Workers
      /\ \A w \in Workers : /\ configs[w].blocks \in Nat /\ configs[w].size \in Nat
                            /\ BlocksPerRequest(projected[w], maxLen) <= configs[w].blocks - 1
                            /\ BytesPerBlock(projected[w]) # 0
                            /\ conf.override # 0 => configs[w].blocks = conf.override
    BY <1>1 DEF IInv, GroupsKnown, LengthFits, BlocksKnown, Projected
<1>3. 1 \in Workers /\ maxLen \in Nat /\ conf.override \in Nat
    BY <1>2, EngineFacts DEF Workers
<1>16. \A w \in Workers : configs[w].blocks \in Nat
    BY <1>2, Zenon
<1>17. \A w \in Workers : configs[w].size \in Nat
    BY <1>2, Zenon
<1>18. \A w \in Workers : BlocksPerRequest(projected[w], maxLen) <= configs[w].blocks - 1
    BY <1>2, Zenon
<1>19. \A w \in Workers : BytesPerBlock(projected[w]) # 0
    BY <1>2, Zenon
<1>20. conf.override # 0 => \A w \in Workers : configs[w].blocks = conf.override
    BY <1>2, Zenon
<1>4. all \in SUBSET Nat /\ all # {}
    BY <1>16, <1>3
<1>5. blocks \in all
    BY <1>4, MinOfNaturals
<1> HIDE DEF blocks
<1>6. PICK v \in Workers : blocks = configs[v].blocks
    BY <1>5
<1> HIDE DEF all
<1>7. blocks \in Nat /\ (conf.override # 0 => blocks = conf.override)
    BY <1>16, <1>20, <1>6
<1>8. ASSUME NEW w \in Workers PROVE Cut(w).blocks = blocks /\ Cut(w).size \in Nat
    <2>1. BytesPerBlock(projected[w]) \in Nat
        BY <1>2, PlacedFacts
    <2>2. BytesPerBlock(projected[w]) \in Nat \ {0}
        BY <1>19, <2>1
    <2> QED BY <1>3, <1>7, <2>2, ShrunkFacts
<1> HIDE DEF Cut
<1>9. /\ DOMAIN configs' = Workers
      /\ \A w \in Workers : configs'[w].blocks = blocks /\ configs'[w].size \in Nat
    BY <1>1, <1>17, <1>8
<1>10. ASSUME NEW w \in Workers PROVE BlocksPerRequest(projected[w], maxLen) <= blocks - 1
    <2>1. BlocksPerRequest(projected[v], maxLen) <= blocks - 1
        BY <1>18, <1>6
    <2>2. BlocksPerRequest(projected[w], maxLen) = BlocksPerRequest(projected[v], maxLen)
        BY <1>2, <1>3, SameRequest
    <2> QED BY <2>1, <2>2
<1>11. BlocksKnown'
    BY <1>1, <1>3, <1>7, <1>9, <1>10 DEF BlocksKnown, Workers, Configured
<1>12. \A w : Usable(w)' = Usable(w)
    BY <1>1 DEF Usable
<1>13. LengthFits' /\ LengthMaximal'
    BY <1>1, <1>12 DEF IInv, LengthFits, LengthMaximal, StepsKnown, Workers, Checked
<1>14. StepsKnown' /\ GroupsKnown' /\ MemoryKnown'
    BY <1>1 DEF IInv, StepsKnown, GroupsKnown, MemoryKnown, Placed, Workers, Projected
<1>15. PrefixEndsWhole'
    BY <1>1 DEF PrefixEndsWhole
<1> QED BY <1>11, <1>13, <1>14, <1>15 DEF IInv

LEMMA ResolveInv ==
    ASSUME IInv, NEW dcp \in 1..2, NEW unit \in PrefixUnits, NEW caching \in BOOLEAN,
           NEW align \in BOOLEAN, Resolve(dcp, unit, caching, align)
    PROVE  IInv'
<1> DEFINE shown     == {Shown(i) : i \in DOMAIN groups}
           scheduler == CommonMultipleOf([i \in DOMAIN groups |-> DcpBlock(Shown(i), dcp)])
           cacheable == {s \in shown : Cacheable(s)}
           blocks    == {DcpBlock(s, dcp) : s \in IF cacheable = {} THEN shown ELSE cacheable}
           hash      == IF unit # 0 THEN unit ELSE CommonDivisor(blocks)
           whole     == \/ Len(groups) <= 1
                        \/ ~caching
                        \/ ~align /\ \E s \in shown : s.kind = "mamba"
           Units(h)  == [dcp |-> dcp, align |-> align, caching |-> caching,
                         scheduler |-> scheduler, hash |-> h]
           Set(h)    == /\ units' = Units(h)
                        /\ pc' = "done"
                        /\ UNCHANGED <<conf, error, groups, projected, memory, maxLen, configs>>
<1>1. /\ pc = "resolve"
      /\ IF whole THEN Set(scheduler)
         ELSE IF \E b \in blocks : b % hash # 0 THEN Fail("unit")
         ELSE IF \E s \in cacheable : HitAlignment(dcp, align, scheduler, hash) % s.states # 0
         THEN Fail("states")
         ELSE Set(hash)
    BY Zenon DEF Resolve
<1>2. conf \in Configurations /\ Whole(groups) /\ Placed
    BY <1>1 DEF IInv, GroupsKnown, Projected
<1>3. /\ \A s \in shown : s \in Specs
      /\ blocks \in SUBSET (Nat \ {0}) /\ blocks # {}
      /\ scheduler \in Nat \ {0}
      /\ \A b \in blocks : scheduler % b = 0
    BY <1>2, BlocksFacts
<1>4. hash \in Nat \ {0}
    BY <1>3, CommonDivisorFacts, UnitsAssumption
<1>5. ASSUME NEW h, Set(h), EndsWhole(Units(h)) PROVE IInv'
    <2>1. PrefixEndsWhole'
        <3>1. EndsWhole(units')
            BY <1>5
        <3>2. groups' = groups /\ projected' = projected
            BY <1>5
        <3> QED BY <3>1, <3>2 DEF EndsWhole, PrefixEndsWhole, Shown
    <2>2. \A w : Usable(w)' = Usable(w)
        BY <1>5 DEF Usable
    <2> HIDE DEF Units
    <2>3. LengthFits' /\ LengthMaximal'
        BY <1>1, <1>5, <2>2 DEF IInv, LengthFits, LengthMaximal, StepsKnown, Workers, Checked
    <2>4. StepsKnown' /\ GroupsKnown' /\ MemoryKnown'
        BY <1>1, <1>5 DEF IInv, StepsKnown, GroupsKnown, MemoryKnown, Placed, Workers, Projected
    <2>5. BlocksKnown'
        BY <1>1, <1>5 DEF IInv, BlocksKnown, Workers, Configured
    <2> QED BY <2>1, <2>3, <2>4, <2>5 DEF IInv
<1>6. CASE whole /\ Set(scheduler)
    <2>1. EndsWhole(Units(scheduler))
        <3> HIDE DEF scheduler
        <3> QED BY <1>2, <1>3, <1>6, UnitsOfWhole
    <2> HIDE DEF scheduler, Units
    <2> QED BY <1>5, <1>6, <2>1
<1>7. CASE Fail("unit") \/ Fail("states")
    BY <1>7, FailKeeps
<1>8. CASE /\ ~ \E b \in blocks : b % hash # 0
           /\ ~ \E s \in cacheable : HitAlignment(dcp, align, scheduler, hash) % s.states # 0
           /\ Set(hash)
    <2>1. EndsWhole(Units(hash))
        <3> HIDE DEF scheduler, hash
        <3>1. \A b \in blocks : scheduler % b = 0 /\ b % hash = 0
            BY <1>3, <1>8
        <3>2. \A i \in DOMAIN groups : Shown(i) \in shown
            OBVIOUS
        <3>3. \A i \in DOMAIN groups : Cacheable(Shown(i)) => Shown(i) \in cacheable
            OBVIOUS
        <3>4. \A s \in cacheable : DcpBlock(s, dcp) \in blocks
            OBVIOUS
        <3>5. \A s \in cacheable : HitAlignment(dcp, align, scheduler, hash) % s.states = 0
            BY <1>8
        <3> HIDE DEF shown, cacheable, blocks
        <3> QED BY <1>3, <1>4, <3>1, <3>2, <3>3, <3>4, <3>5, UnitsOfGroups
    <2> HIDE DEF scheduler, hash, Units
    <2> QED BY <1>5, <1>8, <2>1
<1> QED BY <1>1, <1>6, <1>7, <1>8, Zenon

\* Nothing changes: the invariant stays.
LEMMA StutterInv ==
    ASSUME IInv, UNCHANGED vars
    PROVE  IInv'
<1> USE DEF vars
<1>1. \A w : Usable(w)' = Usable(w)
    BY DEF Usable
<1>2. StepsKnown' /\ GroupsKnown' /\ MemoryKnown'
    BY DEF IInv, StepsKnown, GroupsKnown, MemoryKnown, Placed, Workers
<1>3. LengthFits' /\ LengthMaximal'
    BY <1>1 DEF IInv, LengthFits, LengthMaximal, Workers
<1>4. BlocksKnown'
    BY DEF IInv, BlocksKnown, Workers
<1>5. PrefixEndsWhole'
    BY DEF IInv, PrefixEndsWhole, Shown
<1> QED BY <1>2, <1>3, <1>4, <1>5 DEF IInv

\* The inductive invariant: whoever an engine is started for, at every step of
\* planning the groups are whole, the length fits and the blocks are enough.
THEOREM Invariant == Spec => []IInv
<1>1. Init => IInv
    BY InitInv
<1>2. IInv /\ [Next]_vars => IInv'
    <2> SUFFICES ASSUME IInv, [Next]_vars PROVE IInv'
        OBVIOUS
    <2>1. CASE FindGroups
        BY <2>1, FindGroupsInv
    <2>2. CASE Project
        BY <2>2, ProjectInv
    <2>3. CASE AutoFit
        BY <2>3, AutoFitInv
    <2>4. CASE Check
        BY <2>4, CheckInv
    <2>5. CASE Configure
        BY <2>5, ConfigureInv
    <2>6. CASE Shrink
        BY <2>6, ShrinkInv
    <2>7. CASE \E dcp \in 1..2, unit \in PrefixUnits, caching, align \in BOOLEAN :
                  Resolve(dcp, unit, caching, align)
        BY <2>7, ResolveInv
    <2>8. CASE UNCHANGED vars
        BY <2>8, StutterInv
    <2> QED BY <2>1, <2>2, <2>3, <2>4, <2>5, <2>6, <2>7, <2>8, Zenon DEF Next
<1> QED BY <1>1, <1>2, PTL DEF Spec

\* Types: a worker's groups have only layers that it has and specs for each,
\* and no configuration has a negative number of blocks or bytes.
THEOREM TypeCorrect == Spec => []TypeOK
<1>1. IInv => TypeOK
    <2> SUFFICES ASSUME IInv PROVE TypeOK
        OBVIOUS
    <2>1. /\ pc \in {"group", "project", "fit", "check", "configure", "shrink", "resolve",
                    "done", "failed"}
          /\ error \in {"none", "grouping", "split", "empty", "length", "memory", "layers",
                       "layout", "unit", "states"}
        BY DEF IInv, StepsKnown, Projected
    <2>2. conf \in Configurations /\ memory \in [Workers -> Int] /\ maxLen \in 1..conf.maxLen
        BY DEF IInv, GroupsKnown, MemoryKnown, LengthFits
    <2>3. DOMAIN memory = Workers /\ maxLen \in 0..conf.maxLen
        <3>1. conf.maxLen \in Nat
            BY <2>2, EngineFacts
        <3> QED BY <2>2, <3>1
    <2>4. \A g \in Range(groups) : /\ Range(g.layers) \subseteq DOMAIN g.spec
                                   /\ Range(g.spec) \subseteq Specs
        <3>1. CASE groups = <<>>
            BY <3>1 DEF Range
        <3>2. CASE Whole(groups)
            <4>1. \A g \in Range(groups) : /\ Range(g.layers) = DOMAIN g.spec
                                           /\ \A l \in DOMAIN g.spec : g.spec[l] \in Specs
                BY <3>2, Zenon DEF Whole, GroupOK
            <4>2. \A f : (\A l \in DOMAIN f : f[l] \in Specs) => Range(f) \subseteq Specs
                BY DEF Range
            <4> QED BY <4>1, <4>2
        <3> QED BY <3>1, <3>2 DEF IInv, GroupsKnown
    <2>5. ASSUME projected # <<>>
          PROVE  /\ DOMAIN projected = Workers
                 /\ \A w \in Workers : \A g \in Range(projected[w]) :
                       Range(g.layers) \subseteq conf.workers[w] \cap DOMAIN g.spec
        <3>1. Whole(groups) /\ Placed
            BY <2>5 DEF IInv, GroupsKnown
        <3>2. DOMAIN projected = Workers
            BY <3>1 DEF Placed
        <3>3. ASSUME NEW w \in Workers, NEW g \in Range(projected[w])
              PROVE  Range(g.layers) \subseteq conf.workers[w] \cap DOMAIN g.spec
            <4> DEFINE layers == conf.workers[w]
                       ps == Projection(groups, layers)
            <4>1. projected[w] = ps
                BY <3>1, PlacedFacts
            <4>2. /\ DOMAIN groups = 1..Len(groups)
                  /\ \A i \in 1..Len(groups) : /\ GroupOK(groups[i]) /\ groups[i].layers # <<>>
                                               /\ ps[i] = PartOf(groups[i], layers)
                BY <3>1, ProjectionFacts
            <4>3. DOMAIN ps = DOMAIN groups
                BY DEF Projection
            <4>4. PICK i \in DOMAIN ps : g = ps[i]
                BY <3>3, <4>1 DEF Range
            <4> DEFINE whole == groups[i]
            <4>5. g = PartOf(whole, layers) /\ GroupOK(whole) /\ whole.layers # <<>>
                BY <4>2, <4>3, <4>4
            <4> HIDE DEF whole, ps
            <4> DEFINE part == PartOf(whole, layers)
            <4>6. Range(part.layers) \subseteq layers \cap DOMAIN part.spec
                BY <4>5, PartFacts
            <4> HIDE DEF part
            <4>7. g = part
                BY <4>5 DEF part
            <4> QED BY <4>6, <4>7
        <3> QED BY <3>2, <3>3
    <2>6. \A c \in Range(configs) : c.blocks \in Nat /\ c.size \in Nat
        <3>1. CASE configs = <<>>
            BY <3>1 DEF Range
        <3>2. CASE /\ DOMAIN configs = Workers
                   /\ \A w \in Workers : configs[w].blocks \in Nat /\ configs[w].size \in Nat
            BY <3>2 DEF Range
        <3> QED BY <3>1, <3>2 DEF IInv, BlocksKnown
    <2> QED BY <2>1, <2>3, <2>4, <2>5, <2>6 DEF TypeOK
<1> QED BY <1>1, Invariant, PTL

\* The scheduler, which looks at worker 1 and at one layer of a group, plans
\* for every worker: the cut leaves as many blocks on each, and a request takes
\* as many of each as the scheduler counts.
THEOREM WorkersAgreeAlways == Spec => []WorkersAgree
<1>1. IInv => WorkersAgree
    <2> SUFFICES ASSUME IInv, pc \in Configured, NEW w \in Workers
                 PROVE  /\ configs[w].blocks = configs[1].blocks
                        /\ BlocksPerRequest(projected[w], maxLen) =
                              SumOf([i \in DOMAIN groups |-> BlocksFor(Shown(i), maxLen)])
        BY Zenon DEF WorkersAgree, Configured
    <2>1. conf \in Configurations /\ Whole(groups) /\ Placed /\ maxLen \in 1..conf.maxLen
        BY DEF IInv, GroupsKnown, LengthFits, Projected, Configured
    <2>2. maxLen \in Nat
        BY <2>1, EngineFacts
    <2>3. BlocksPerRequest(projected[w], maxLen) =
             SumOf([i \in DOMAIN groups |-> BlocksFor(Shown(i), maxLen)])
        BY <2>1, <2>2, SameRequest
    <2>4. configs[w].blocks = configs[1].blocks
        BY DEF IInv, BlocksKnown
    <2> QED BY <2>3, <2>4
<1> QED BY <1>1, Invariant, PTL

\* A request of max_model_len tokens gets its blocks on every worker while the
\* null block is kept back, also where others could afford more.
THEOREM LongestRequestFitsAlways == Spec => []LongestRequestFits
<1>1. IInv => LongestRequestFits
    BY DEF IInv, BlocksKnown, LongestRequestFits, Configured
<1> QED BY <1>1, Invariant, PTL

\* The bisection of auto-fit finds the longest length that fits every worker,
\* and what it found is never refused for want of memory where there is any.
THEOREM AutoFitMaximalAlways == Spec => []AutoFitMaximal
<1>1. IInv => AutoFitMaximal
    BY DEF IInv, LengthMaximal, AutoFitMaximal, Checked
<1> QED BY <1>1, Invariant, PTL

\* The units that Resolve lets pass end a cached prefix only between whole
\* blocks of each group, and never inside a state.
THEOREM PrefixEndsWholeAlways == Spec => []PrefixEndsWhole
<1>1. IInv => PrefixEndsWhole
    BY DEF IInv
<1> QED BY <1>1, Invariant, PTL
=============================================================================
