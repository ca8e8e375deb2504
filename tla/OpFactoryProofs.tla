--------------------------- MODULE OpFactoryProofs ---------------------------
(***************************************************************************)
(* Proofs about the operation factory (module OpFactory), for every number *)
(* of dimensions, set of shapes and width of size_t, and every number of   *)
(* calls.                                                                  *)
(***************************************************************************)
EXTENDS OpFactory, SequenceTheorems, WellFoundedInduction, TLAPS

(* A set of natural numbers has a least member, and what holds of 0 and is *)
(* passed on from each number to the next holds of all.                    *)
LEMMA LeastMember ==
  ASSUME NEW T \in SUBSET Nat, T # {}
  PROVE  \E m \in T : \A n \in T : m <= n
<1>1. IsWellFoundedOn(OpToRel(<, Nat), Nat)
  BY NatLessThanWellFounded
<1>2. PICK m \in T : \A n \in T : ~(<<n, m>> \in OpToRel(<, Nat))
  BY <1>1, WFMin
<1>3. \A n \in T : ~(n < m)
  BY <1>2 DEF OpToRel
<1>4. \A n \in T : n \in Nat
  OBVIOUS
<1>5. \A n \in T : m <= n
  BY <1>3, <1>4
<1> QED
  BY <1>2, <1>5

LEMMA Induction ==
  ASSUME NEW T, 0 \in T, \A n \in Nat : n \in T => n + 1 \in T
  PROVE  \A n \in Nat : n \in T
<1> SUFFICES ASSUME Nat \ T # {} PROVE FALSE
  OBVIOUS
<1>1. PICK m \in Nat \ T : \A n \in Nat \ T : m <= n
  BY LeastMember
<1>2. m - 1 \in Nat /\ m - 1 \in T
  BY <1>1
<1> QED
  BY <1>1, <1>2

LEMMA GreatestMember ==
  ASSUME NEW N \in Nat, NEW S \in SUBSET (1 .. N), S # {}
  PROVE  \E i \in S : \A j \in S : j <= i
<1> DEFINE T == {N - i : i \in S}
<1>1. T \in SUBSET Nat /\ T # {}
  <2>1. \A i \in S : N - i \in Nat
    OBVIOUS
  <2> QED
    BY <2>1
<1>2. PICK m \in T : \A n \in T : m <= n
  BY <1>1, LeastMember
<1>3. PICK i \in S : m = N - i
  BY <1>2
<1>4. ASSUME NEW j \in S PROVE j <= i
  <2>1. N - i <= N - j
    BY <1>2, <1>3
  <2> QED
    BY <2>1
<1> QED
  BY <1>4

-----------------------------------------------------------------------------
(* Products.  The function that Product recurses on exists, being built up *)
(* argument by argument; its values are the products of the prefixes.      *)
Prefix(s, n) == [i \in 1 .. n |-> s[i]]

Partial(p, s) ==
  /\ p \in [0 .. Len(s) -> Int]
  /\ p[0] = 1
  /\ \A n \in 1 .. Len(s) : p[n] = p[n - 1] * s[n]

LEMMA ProductIsPartial ==
  ASSUME NEW s \in Seq(Int)
  PROVE  \E p : Partial(p, s) /\ Product(s) = p[Len(s)]
<1> DEFINE Step(x, n) == x * s[n]
           IsProduct(f, N) ==
             f = [n \in 0 .. N |-> IF n = 0 THEN 1 ELSE Step(f[n - 1], n)]
           Recursed == {N \in Nat : \E f : IsProduct(f, N)}
           p == CHOOSE f : IsProduct(f, Len(s))
           Good == {n \in Nat : n <= Len(s) => p[n] \in Int}
<1>1. Product(s) = p[Len(s)]
  BY DEF Product
<1>2. Len(s) \in Nat /\ DOMAIN s = 1 .. Len(s)
  OBVIOUS
<1>3. \A N \in Nat : N \in Recursed
  <2>1. 0 \in Recursed
    <3>1. IsProduct([n \in 0 .. 0 |-> 1], 0)
      OBVIOUS
    <3> QED
      BY <3>1
  <2>2. ASSUME NEW N \in Nat, N \in Recursed PROVE N + 1 \in Recursed
    <3> HIDE DEF Step
    <3>1. PICK f : IsProduct(f, N)
      BY <2>2
    <3> DEFINE g == [n \in 0 .. N + 1 |-> IF n = N + 1 THEN Step(f[N], N + 1) ELSE f[n]]
    <3>2. g = [n \in 0 .. N + 1 |-> IF n = 0 THEN 1 ELSE Step(g[n - 1], n)]
      <4> SUFFICES ASSUME NEW n \in 0 .. N + 1
                   PROVE  g[n] = IF n = 0 THEN 1 ELSE Step(g[n - 1], n)
        OBVIOUS
      <4>1. CASE n = N + 1
        BY <4>1
      <4>2. CASE n # N + 1
        <5>1. n \in 0 .. N /\ g[n] = f[n]
          BY <4>2
        <5>2. n # 0 => g[n - 1] = f[n - 1]
          BY <5>1
        <5> QED
          BY <3>1, <5>1, <5>2
      <4> QED
        BY <4>1, <4>2
    <3>3. IsProduct(g, N + 1)
      BY <3>2
    <3> HIDE DEF IsProduct, g
    <3>4. \E h : IsProduct(h, N + 1)
      BY <3>3
    <3> QED
      BY <3>4
  <2> HIDE DEF Recursed
  <2> QED
    BY <2>1, <2>2, Induction
<1>4. IsProduct(p, Len(s))
  <2>1. Len(s) \in Recursed
    BY <1>2, <1>3
  <2>2. \E f : IsProduct(f, Len(s))
    BY <2>1
  <2> QED
    BY <2>2
<1> HIDE DEF p
<1>5. p[0] = 1
  BY <1>2, <1>4
<1>6. ASSUME NEW n \in 1 .. Len(s) PROVE p[n] = p[n - 1] * s[n]
  <2>1. n \in 0 .. Len(s) /\ n # 0
    BY <1>2
  <2> HIDE DEF Step
  <2>2. p[n] = Step(p[n - 1], n)
    BY <1>4, <2>1
  <2> USE DEF Step
  <2> QED
    BY <2>2
<1>7. \A n \in Nat : n \in Good
  <2>1. 0 \in Good
    BY <1>5
  <2>2. ASSUME NEW n \in Nat, n \in Good PROVE n + 1 \in Good
    <3> SUFFICES ASSUME n + 1 <= Len(s) PROVE p[n + 1] \in Int
      OBVIOUS
    <3>1. n + 1 \in 1 .. Len(s) /\ (n + 1) - 1 = n /\ s[n + 1] \in Int /\ p[n] \in Int
      BY <1>2, <2>2
    <3>2. p[n + 1] = p[n] * s[n + 1]
      BY <1>6, <3>1
    <3> QED
      BY <3>1, <3>2
  <2> HIDE DEF Good
  <2> QED
    BY <2>1, <2>2, Induction
<1>8. p \in [0 .. Len(s) -> Int]
  <2>1. \A n \in 0 .. Len(s) : p[n] \in Int
    BY <1>2, <1>7
  <2>2. p = [n \in 0 .. Len(s) |-> p[n]]
    <3> DEFINE q == [n \in 0 .. Len(s) |-> IF n = 0 THEN 1 ELSE Step(p[n - 1], n)]
    <3>1. p = q
      BY <1>4
    <3>2. q = [n \in 0 .. Len(s) |-> q[n]]
      OBVIOUS
    <3> HIDE DEF q
    <3> QED
      BY <3>1, <3>2
  <2> QED
    BY <2>1, <2>2
<1> QED
  BY <1>1, <1>5, <1>6, <1>8 DEF Partial

(* The partial products are those of the prefixes, whatever comes after.   *)
LEMMA PartialsAgree ==
  ASSUME NEW s \in Seq(Int), NEW t \in Seq(Int), NEW p, NEW q, Partial(p, s), Partial(q, t),
         NEW N \in Nat, N <= Len(s), N <= Len(t), \A n \in 1 .. N : s[n] = t[n]
  PROVE  p[N] = q[N]
<1> DEFINE Same == {n \in Nat : n <= N => p[n] = q[n]}
<1>1. 0 \in Same
  BY DEF Partial
<1>2. ASSUME NEW n \in Nat, n \in Same PROVE n + 1 \in Same
  <2> SUFFICES ASSUME n + 1 <= N PROVE p[n + 1] = q[n + 1]
    OBVIOUS
  <2>1. /\ n + 1 \in 1 .. N /\ n + 1 \in 1 .. Len(s) /\ n + 1 \in 1 .. Len(t)
        /\ (n + 1) - 1 = n /\ p[n] = q[n]
    BY <1>2
  <2>2. p[n + 1] = p[n] * s[n + 1] /\ q[n + 1] = q[n] * t[n + 1]
    BY <2>1 DEF Partial
  <2> QED
    BY <2>1, <2>2
<1>3. \A n \in Nat : n \in Same
  <2> HIDE DEF Same
  <2> QED
    BY <1>1, <1>2, Induction
<1> QED
  BY <1>3

LEMMA PrefixIsSeq ==
  ASSUME NEW s \in Seq(Int), NEW n \in 0 .. Len(s)
  PROVE  /\ Prefix(s, n) \in Seq(Int) /\ Len(Prefix(s, n)) = n
         /\ \A i \in 1 .. n : Prefix(s, n)[i] = s[i]
<1>1. n \in Nat /\ Prefix(s, n) \in [1 .. n -> Int]
  BY DEF Prefix
<1>2. Prefix(s, n) \in Seq(Int)
  BY <1>1, SeqDef
<1> QED
  BY <1>1, <1>2 DEF Prefix

LEMMA ProductType == ASSUME NEW s \in Seq(Int) PROVE Product(s) \in Int
<1>1. PICK p : Partial(p, s) /\ Product(s) = p[Len(s)]
  BY ProductIsPartial
<1> QED
  BY <1>1 DEF Partial

LEMMA ProductOfNone ==
  ASSUME NEW s \in Seq(Int), Len(s) = 0 PROVE Product(s) = 1
<1>1. PICK p : Partial(p, s) /\ Product(s) = p[Len(s)]
  BY ProductIsPartial
<1> QED
  BY <1>1 DEF Partial

LEMMA ProductOfLast ==
  ASSUME NEW s \in Seq(Int), NEW n \in Nat, Len(s) = n + 1
  PROVE  Product(s) = Product(Prefix(s, n)) * s[n + 1]
<1>1. PICK p : Partial(p, s) /\ Product(s) = p[Len(s)]
  BY ProductIsPartial
<1>2. Prefix(s, n) \in Seq(Int) /\ Len(Prefix(s, n)) = n
        /\ \A i \in 1 .. n : s[i] = Prefix(s, n)[i]
  BY PrefixIsSeq
<1>3. PICK q : Partial(q, Prefix(s, n)) /\ Product(Prefix(s, n)) = q[n]
  BY <1>2, ProductIsPartial
<1>4. p[n] = q[n]
  BY <1>1, <1>2, <1>3, PartialsAgree
<1>5. n + 1 \in 1 .. Len(s) /\ (n + 1) - 1 = n
  OBVIOUS
<1>6. p[n + 1] = p[n] * s[n + 1]
  BY <1>1, <1>5 DEF Partial
<1> QED
  BY <1>1, <1>3, <1>4, <1>6

-----------------------------------------------------------------------------
(* A product does not depend on the order: any factor can be taken out.    *)
Without(s, k) == [i \in 1 .. Len(s) - 1 |-> IF i < k THEN s[i] ELSE s[i + 1]]

LEMMA WithoutIsSeq ==
  ASSUME NEW s \in Seq(Int), NEW k \in 1 .. Len(s)
  PROVE  /\ Without(s, k) \in Seq(Int) /\ Len(Without(s, k)) = Len(s) - 1
         /\ \A i \in 1 .. Len(s) - 1 : Without(s, k)[i] = IF i < k THEN s[i] ELSE s[i + 1]
<1>1. Len(s) - 1 \in Nat /\ Without(s, k) \in [1 .. Len(s) - 1 -> Int]
  BY DEF Without
<1>2. Without(s, k) \in Seq(Int)
  BY <1>1, SeqDef
<1> QED
  BY <1>1, <1>2 DEF Without

LEMMA ProductWithout ==
  ASSUME NEW s \in Seq(Int), NEW k \in 1 .. Len(s)
  PROVE  Product(s) = s[k] * Product(Without(s, k))
<1> DEFINE Holds(n) ==
             \A t \in Seq(Int) : \A j \in 1 .. n + 1 :
               Len(t) = n + 1 => Product(t) = t[j] * Product(Without(t, j))
           Good == {n \in Nat : Holds(n)}
<1>1. ASSUME NEW n \in Nat, NEW t \in Seq(Int), Len(t) = n + 1
      PROVE  Product(t) = t[n + 1] * Product(Without(t, n + 1))
  <2>1. Without(t, n + 1) = Prefix(t, n)
    BY <1>1 DEF Without, Prefix
  <2>2. Product(t) = Product(Prefix(t, n)) * t[n + 1]
    BY <1>1, ProductOfLast
  <2>3. Product(Prefix(t, n)) \in Int /\ t[n + 1] \in Int
    BY <1>1, PrefixIsSeq, ProductType
  <2> QED
    BY <2>1, <2>2, <2>3
<1>2. 0 \in Good
  <2> SUFFICES ASSUME NEW t \in Seq(Int), NEW j \in 1 .. 0 + 1, Len(t) = 0 + 1
               PROVE  Product(t) = t[j] * Product(Without(t, j))
    OBVIOUS
  <2>1. j = 0 + 1
    OBVIOUS
  <2> QED
    BY <1>1, <2>1
<1>3. ASSUME NEW n \in Nat, n \in Good PROVE n + 1 \in Good
  <2> SUFFICES ASSUME NEW t \in Seq(Int), NEW j \in 1 .. (n + 1) + 1, Len(t) = (n + 1) + 1
               PROVE  Product(t) = t[j] * Product(Without(t, j))
    OBVIOUS
  <2>1. CASE j = (n + 1) + 1
    <3>1. n + 1 \in Nat
      OBVIOUS
    <3> QED
      BY <1>1, <2>1, <3>1
  <2>2. CASE j # (n + 1) + 1
    <3> DEFINE u == Prefix(t, n + 1)
               v == Without(t, j)
    <3>1. /\ u \in Seq(Int) /\ Len(u) = n + 1 /\ \A i \in 1 .. n + 1 : u[i] = t[i]
          /\ j \in 1 .. n + 1
      BY <2>2, PrefixIsSeq
    <3>2. /\ v \in Seq(Int) /\ Len(v) = n + 1
          /\ \A i \in 1 .. n + 1 : v[i] = IF i < j THEN t[i] ELSE t[i + 1]
      <4>1. Len(t) - 1 = n + 1 /\ j \in 1 .. Len(t)
        OBVIOUS
      <4> QED
        BY <4>1, WithoutIsSeq
    <3>3. Prefix(v, n) = Without(u, j)
      BY <3>1, <3>2 DEF Prefix, Without
    <3>4. v[n + 1] = t[(n + 1) + 1] /\ u[j] = t[j]
      BY <3>1, <3>2
    <3>5. Product(u) = t[j] * Product(Without(u, j))
      BY <1>3, <3>1, <3>4
    <3>6. Product(t) = Product(u) * t[(n + 1) + 1]
      BY ProductOfLast
    <3>7. Product(v) = Product(Without(u, j)) * t[(n + 1) + 1]
      BY <3>2, <3>3, <3>4, ProductOfLast
    <3>8. Product(Without(u, j)) \in Int /\ t[j] \in Int /\ t[(n + 1) + 1] \in Int
      <4>1. j \in 1 .. Len(u)
        BY <3>1
      <4>2. Without(u, j) \in Seq(Int)
        BY <3>1, <4>1, WithoutIsSeq
      <4>3. Product(Without(u, j)) \in Int
        BY <4>2, ProductType
      <4>4. t[j] \in Int /\ t[(n + 1) + 1] \in Int
        OBVIOUS
      <4> QED
        BY <4>3, <4>4
    <3> HIDE DEF u, v
    <3>9. \A a, b, c \in Int : (a * b) * c = a * (b * c)
      OBVIOUS
    <3> QED
      BY <3>5, <3>6, <3>7, <3>8, <3>9 DEF v
  <2> QED
    BY <2>1, <2>2
<1>4. \A n \in Nat : n \in Good
  <2> HIDE DEF Good
  <2> QED
    BY <1>2, <1>3, Induction
<1>5. Len(s) - 1 \in Nat /\ (Len(s) - 1) + 1 = Len(s)
  OBVIOUS
<1>6. Holds(Len(s) - 1)
  BY <1>4, <1>5
<1> QED
  BY <1>5, <1>6

(* The numbers of s, taken in the order p. *)
Rearranged(s, p) == [i \in 1 .. Len(s) |-> s[p[i]]]

IsPermutation(p, n) ==
  /\ p \in [1 .. n -> 1 .. n]
  /\ \A i, j \in 1 .. n : p[i] = p[j] => i = j
  /\ \A m \in 1 .. n : \E i \in 1 .. n : p[i] = m

LEMMA RearrangedIsSeq ==
  ASSUME NEW s \in Seq(Int), NEW p \in [1 .. Len(s) -> 1 .. Len(s)]
  PROVE  Rearranged(s, p) \in Seq(Int) /\ Len(Rearranged(s, p)) = Len(s)
<1>1. Len(s) \in Nat /\ Rearranged(s, p) \in [1 .. Len(s) -> Int]
  BY DEF Rearranged
<1>2. Rearranged(s, p) \in Seq(Int)
  BY <1>1, SeqDef
<1> QED
  BY <1>1, <1>2 DEF Rearranged

LEMMA SkippingIsInjective ==
  ASSUME NEW k \in Int, NEW i \in Int, NEW j \in Int,
         (IF i < k THEN i ELSE i + 1) = (IF j < k THEN j ELSE j + 1)
  PROVE  i = j
OBVIOUS

LEMMA ProductRearranged ==
  ASSUME NEW s \in Seq(Int), NEW p, IsPermutation(p, Len(s))
  PROVE  Product(Rearranged(s, p)) = Product(s)
<1> DEFINE Holds(n) ==
             \A t \in Seq(Int) : \A q \in [1 .. n -> 1 .. n] :
               Len(t) = n /\ IsPermutation(q, n) => Product(Rearranged(t, q)) = Product(t)
           Good == {n \in Nat : Holds(n)}
<1>1. 0 \in Good
  <2> SUFFICES ASSUME NEW t \in Seq(Int), NEW q \in [1 .. 0 -> 1 .. 0], Len(t) = 0
               PROVE  Product(Rearranged(t, q)) = Product(t)
    OBVIOUS
  <2>1. Rearranged(t, q) \in Seq(Int) /\ Len(Rearranged(t, q)) = 0
    BY RearrangedIsSeq
  <2> QED
    BY <2>1, ProductOfNone
<1>2. ASSUME NEW n \in Nat, Holds(n) PROVE Holds(n + 1)
  <2> SUFFICES ASSUME NEW t \in Seq(Int), NEW q \in [1 .. n + 1 -> 1 .. n + 1],
                      Len(t) = n + 1, IsPermutation(q, n + 1)
               PROVE  Product(Rearranged(t, q)) = Product(t)
    BY Zenon
  <2>1. PICK k \in 1 .. n + 1 : q[k] = n + 1
    <3>1. n + 1 \in 1 .. n + 1
      OBVIOUS
    <3> QED
      BY <3>1 DEF IsPermutation
  <2> DEFINE g == Rearranged(t, q)
             u == Prefix(t, n)
             skip(i) == IF i < k THEN i ELSE i + 1
             r == [i \in 1 .. n |-> q[skip(i)]]
  <2>2. g \in Seq(Int) /\ Len(g) = n + 1 /\ \A i \in 1 .. n + 1 : g[i] = t[q[i]]
    BY RearrangedIsSeq DEF Rearranged
  <2>3. /\ u \in Seq(Int) /\ Len(u) = n /\ \A i \in 1 .. n : u[i] = t[i]
        /\ Product(t) = Product(u) * t[n + 1]
    <3>1. n \in 0 .. Len(t)
      OBVIOUS
    <3>2. Product(t) = Product(u) * t[n + 1]
      BY ProductOfLast
    <3> QED
      BY <3>1, <3>2, PrefixIsSeq
  <2>4. /\ \A i \in 1 .. n : skip(i) \in (1 .. n + 1) \ {k}
        /\ \A i, j \in 1 .. n : skip(i) = skip(j) => i = j
        /\ \A m \in (1 .. n + 1) \ {k} : \E i \in 1 .. n : skip(i) = m
    <3>1. ASSUME NEW m \in (1 .. n + 1) \ {k} PROVE \E i \in 1 .. n : skip(i) = m
      <4>1. CASE m < k
        <5>1. m \in 1 .. n /\ skip(m) = m
          BY <4>1
        <5> QED
          BY <5>1
      <4>2. CASE ~(m < k)
        <5>1. m - 1 \in 1 .. n /\ skip(m - 1) = m
          BY <4>2
        <5> QED
          BY <5>1
      <4> QED
        BY <4>1, <4>2
    <3>2. ASSUME NEW i \in 1 .. n PROVE skip(i) \in (1 .. n + 1) \ {k}
      <4>1. CASE i < k
        BY <4>1
      <4>2. CASE ~(i < k)
        <5>1. i + 1 \in 1 .. n + 1 /\ i + 1 # k
          BY <4>2
        <5> QED
          BY <4>2, <5>1
      <4> QED
        BY <4>1, <4>2
    <3>3. ASSUME NEW i \in 1 .. n, NEW j \in 1 .. n, skip(i) = skip(j) PROVE i = j
      <4>1. i \in Int /\ j \in Int /\ k \in Int
        OBVIOUS
      <4> QED
        BY <3>3, <4>1, SkippingIsInjective
    <3> QED
      BY <3>1, <3>2, <3>3
  <2>5. ASSUME NEW i \in (1 .. n + 1) \ {k} PROVE q[i] \in 1 .. n
    <3>1. q[i] \in 1 .. n + 1 /\ q[i] # q[k]
      BY DEF IsPermutation
    <3> QED
      BY <2>1, <3>1
  <2> HIDE DEF skip
  <2>6. r \in [1 .. n -> 1 .. n]
    BY <2>4, <2>5
  <2>7. IsPermutation(r, n)
    <3>1. ASSUME NEW i \in 1 .. n, NEW j \in 1 .. n, r[i] = r[j] PROVE i = j
      <4>1. q[skip(i)] = q[skip(j)] /\ skip(i) \in 1 .. n + 1 /\ skip(j) \in 1 .. n + 1
        BY <2>4, <3>1
      <4>2. skip(i) = skip(j)
        BY <4>1 DEF IsPermutation
      <4> QED
        BY <2>4, <4>2
    <3>2. ASSUME NEW m \in 1 .. n PROVE \E i \in 1 .. n : r[i] = m
      <4>1. PICK i \in 1 .. n + 1 : q[i] = m
        <5>1. m \in 1 .. n + 1
          OBVIOUS
        <5> QED
          BY <5>1 DEF IsPermutation
      <4>2. i # k
        BY <2>1, <4>1
      <4>3. PICK o \in 1 .. n : skip(o) = i
        BY <2>4, <4>2
      <4> QED
        BY <4>1, <4>3
    <3> HIDE DEF r
    <3> QED
      BY <2>6, <3>1, <3>2 DEF IsPermutation
  <2>8. Without(g, k) = Rearranged(u, r)
    <3>1. \A i \in 1 .. n : Without(g, k)[i] = g[skip(i)]
      <4>1. k \in 1 .. Len(g) /\ Len(g) - 1 = n
        BY <2>2
      <4> HIDE DEF g
      <4> QED
        BY <2>2, <4>1, WithoutIsSeq DEF skip
    <3>2. \A i \in 1 .. n : g[skip(i)] = t[q[skip(i)]] /\ q[skip(i)] \in 1 .. n
      BY <2>2, <2>4, <2>5
    <3>3. \A i \in 1 .. n : Rearranged(u, r)[i] = t[q[skip(i)]]
      BY <2>3, <3>2 DEF Rearranged
    <3> HIDE DEF g, u, r
    <3>4. /\ Without(g, k) = [i \in 1 .. n |-> Without(g, k)[i]]
          /\ Rearranged(u, r) = [i \in 1 .. n |-> Rearranged(u, r)[i]]
      BY <2>2, <2>3 DEF Without, Rearranged
    <3> QED
      BY <3>1, <3>2, <3>3, <3>4
  <2>9. Product(Rearranged(u, r)) = Product(u)
    BY <1>2, <2>3, <2>6, <2>7
  <2>10. Product(g) = t[n + 1] * Product(u)
    <3> HIDE DEF g, u, r
    <3>1. g[k] = t[n + 1] /\ k \in 1 .. Len(g)
      BY <2>1, <2>2
    <3> QED
      BY <2>2, <2>8, <2>9, <3>1, ProductWithout
  <2>11. Product(u) \in Int /\ t[n + 1] \in Int
    BY <2>3, ProductType
  <2> QED
    BY <2>3, <2>10, <2>11
<1>3. \A n \in Nat : n \in Good
  <2> HIDE DEF Holds
  <2>1. ASSUME NEW n \in Nat, n \in Good PROVE n + 1 \in Good
    BY <1>2, <2>1
  <2> HIDE DEF Good
  <2> QED
    BY <1>1, <2>1, Induction
<1>4. Len(s) \in Nat /\ p \in [1 .. Len(s) -> 1 .. Len(s)]
  BY DEF IsPermutation
<1>5. Holds(Len(s))
  BY <1>3, <1>4
<1> QED
  BY <1>4, <1>5

LEMMA ProductPositive ==
  ASSUME NEW s \in Seq(Int), \A i \in 1 .. Len(s) : s[i] > 0
  PROVE  Product(s) > 0
<1>1. PICK p : Partial(p, s) /\ Product(s) = p[Len(s)]
  BY ProductIsPartial
<1> DEFINE Good == {n \in Nat : n <= Len(s) => p[n] \in Nat \ {0}}
<1>2. 0 \in Good
  BY <1>1 DEF Partial
<1>3. ASSUME NEW n \in Nat, n \in Good PROVE n + 1 \in Good
  <2> SUFFICES ASSUME n + 1 <= Len(s) PROVE p[n + 1] \in Nat \ {0}
    OBVIOUS
  <2>1. n + 1 \in 1 .. Len(s) /\ (n + 1) - 1 = n /\ p[n] \in Nat \ {0}
    BY <1>3
  <2>2. p[n + 1] = p[n] * s[n + 1] /\ s[n + 1] \in Nat \ {0}
    BY <1>1, <2>1 DEF Partial
  <2>3. \A a, b \in Nat \ {0} : a * b \in Nat \ {0}
    OBVIOUS
  <2> QED
    BY <2>1, <2>2, <2>3
<1>4. \A n \in Nat : n \in Good
  <2> HIDE DEF Good
  <2> QED
    BY <1>2, <1>3, Induction
<1>5. p[Len(s)] \in Nat \ {0}
  BY <1>4
<1> QED
  BY <1>1, <1>5

(* Factors of one at the end do not count. *)
LEMMA ProductOnesAfter ==
  ASSUME NEW s \in Seq(Int), NEW n \in 0 .. Len(s), \A i \in n + 1 .. Len(s) : s[i] = 1
  PROVE  Product(s) = Product(Prefix(s, n))
<1>1. PICK p : Partial(p, s) /\ Product(s) = p[Len(s)]
  BY ProductIsPartial
<1>2. Prefix(s, n) \in Seq(Int) /\ Len(Prefix(s, n)) = n /\ n \in Nat /\ Len(s) \in Nat
        /\ \A i \in 1 .. n : s[i] = Prefix(s, n)[i]
  BY PrefixIsSeq
<1>3. PICK q : Partial(q, Prefix(s, n)) /\ Product(Prefix(s, n)) = q[n]
  BY <1>2, ProductIsPartial
<1>4. p[n] = q[n]
  BY <1>1, <1>2, <1>3, PartialsAgree
<1> DEFINE Good == {m \in Nat : n + m <= Len(s) => p[n + m] = p[n]}
<1>5. 0 \in Good
  BY <1>2
<1>6. ASSUME NEW m \in Nat, m \in Good PROVE m + 1 \in Good
  <2> SUFFICES ASSUME n + (m + 1) <= Len(s) PROVE p[n + (m + 1)] = p[n]
    OBVIOUS
  <2>1. /\ n + (m + 1) \in 1 .. Len(s) /\ (n + (m + 1)) - 1 = n + m
        /\ n + m \in 0 .. Len(s)
        /\ p[n + m] = p[n] /\ s[n + (m + 1)] = 1
    BY <1>2, <1>6
  <2>2. p[n + (m + 1)] = p[n + m] * s[n + (m + 1)] /\ p[n + m] \in Int
    BY <1>1, <2>1 DEF Partial
  <2> QED
    BY <2>1, <2>2
<1>7. \A m \in Nat : m \in Good
  <2> HIDE DEF Good
  <2> QED
    BY <1>5, <1>6, Induction
<1>8. Len(s) - n \in Nat /\ n + (Len(s) - n) = Len(s)
  BY <1>2
<1>9. Len(s) - n \in Good
  BY <1>7, <1>8
<1>10. p[Len(s)] = p[n]
  BY <1>2, <1>8, <1>9
<1> QED
  BY <1>1, <1>3, <1>4, <1>10

-----------------------------------------------------------------------------
(* Shapes: at least one dimension in use, those in use first, each of them *)
(* positive or -1.                                                         *)
Packed(dims) ==
  /\ dims \in [Dim -> Int]
  /\ dims[1] # 0
  /\ \A i \in Dim : dims[i] >= -1
  /\ \A i, j \in Dim : i < j /\ dims[i] = 0 => dims[j] = 0

LEMMA LastUsedOfPacked ==
  ASSUME NEW dims, Packed(dims)
  PROVE  /\ LastUsed(dims) \in Dim
         /\ \A i \in Dim : dims[i] # 0 <=> i <= LastUsed(dims)
<1> DEFINE used == {i \in Dim : dims[i] # 0}
<1>1. 1 \in used
  BY MaxDimsIsNat DEF Packed, Dim
<1>2. \E i \in used : \A j \in used : j <= i
  BY <1>1, MaxDimsIsNat, GreatestMember DEF Dim
<1>3. LastUsed(dims) \in used /\ \A j \in used : j <= LastUsed(dims)
  <2> DEFINE r == CHOOSE i \in used : \A j \in used : j <= i
  <2>1. LastUsed(dims) = r
    BY <1>1 DEF LastUsed
  <2>2. r \in used /\ \A j \in used : j <= r
    BY <1>2
  <2> QED
    BY <2>1, <2>2
<1> QED
  BY <1>3, MaxDimsIsNat DEF Packed, Dim

(* What reshape and permute collect of a packed shape is its used part.    *)
LEMMA UsedOfPacked ==
  ASSUME NEW dims, Packed(dims)
  PROVE  /\ Used(dims) \in Seq(Int) /\ Len(Used(dims)) = LastUsed(dims)
         /\ \A i \in 1 .. LastUsed(dims) : Used(dims)[i] = dims[i]
<1> DEFINE Step(q, n) == IF dims[n] = 0 THEN q ELSE Append(q, dims[n])
           IsUsed(f, N) ==
             f = [n \in 0 .. N |-> IF n = 0 THEN <<>> ELSE Step(f[n - 1], n)]
           Recursed == {N \in Nat : \E f : IsUsed(f, N)}
           used == CHOOSE f : IsUsed(f, TENSOR_MAX_DIMS)
           r == LastUsed(dims)
           Sound(q, n) ==
             /\ q \in Seq(Int)
             /\ Len(q) = IF n <= r THEN n ELSE r
             /\ \A i \in 1 .. Len(q) : q[i] = dims[i]
           Good == {n \in Nat : n <= TENSOR_MAX_DIMS => Sound(used[n], n)}
<1>1. Used(dims) = used[TENSOR_MAX_DIMS]
  BY DEF Used
<1>2. \A N \in Nat : N \in Recursed
  <2>1. 0 \in Recursed
    <3>1. IsUsed([n \in 0 .. 0 |-> <<>>], 0)
      OBVIOUS
    <3> QED
      BY <3>1
  <2>2. ASSUME NEW N \in Nat, N \in Recursed PROVE N + 1 \in Recursed
    <3> HIDE DEF Step
    <3>1. PICK f : IsUsed(f, N)
      BY <2>2
    <3> DEFINE g == [n \in 0 .. N + 1 |-> IF n = N + 1 THEN Step(f[N], N + 1) ELSE f[n]]
    <3>2. g = [n \in 0 .. N + 1 |-> IF n = 0 THEN <<>> ELSE Step(g[n - 1], n)]
      <4> SUFFICES ASSUME NEW n \in 0 .. N + 1
                   PROVE  g[n] = IF n = 0 THEN <<>> ELSE Step(g[n - 1], n)
        OBVIOUS
      <4>1. CASE n = N + 1
        BY <4>1
      <4>2. CASE n # N + 1
        <5>1. n \in 0 .. N /\ g[n] = f[n]
          BY <4>2
        <5>2. n # 0 => g[n - 1] = f[n - 1]
          BY <5>1
        <5> QED
          BY <3>1, <5>1, <5>2
      <4> QED
        BY <4>1, <4>2
    <3>3. IsUsed(g, N + 1)
      BY <3>2
    <3> HIDE DEF IsUsed, g
    <3>4. \E h : IsUsed(h, N + 1)
      BY <3>3
    <3> QED
      BY <3>4
  <2> HIDE DEF Recursed
  <2> QED
    BY <2>1, <2>2, Induction
<1>3. IsUsed(used, TENSOR_MAX_DIMS)
  <2>1. TENSOR_MAX_DIMS \in Recursed
    BY <1>2, MaxDimsIsNat
  <2>2. \E f : IsUsed(f, TENSOR_MAX_DIMS)
    BY <2>1
  <2> QED
    BY <2>2
<1> HIDE DEF used
<1>4. r \in Dim /\ \A i \in Dim : dims[i] # 0 <=> i <= r
  BY LastUsedOfPacked
<1> HIDE DEF r
<1>5. 0 \in Good
  <2>1. used[0] = <<>>
    BY <1>3, MaxDimsIsNat
  <2>2. Sound(<<>>, 0)
    <3>1. 0 <= r
      BY <1>4 DEF Dim
    <3> QED
      BY <3>1
  <2> QED
    BY <2>1, <2>2
<1>6. ASSUME NEW n \in Nat, n \in Good PROVE n + 1 \in Good
  <2> SUFFICES ASSUME n + 1 <= TENSOR_MAX_DIMS PROVE Sound(used[n + 1], n + 1)
    OBVIOUS
  <2>1. /\ n + 1 \in 0 .. TENSOR_MAX_DIMS /\ n + 1 # 0 /\ (n + 1) - 1 = n
        /\ n + 1 \in Dim
    BY MaxDimsIsNat DEF Dim
  <2>2. used[n + 1] = Step(used[n], n + 1)
    <3> HIDE DEF Step
    <3> QED
      BY <1>3, <2>1
  <2> DEFINE q == used[n]
             d == dims[n + 1]
  <2>3. Sound(q, n)
    BY <1>6, <2>1, MaxDimsIsNat
  <2>4. used[n + 1] = IF d = 0 THEN q ELSE Append(q, d)
    BY <2>2
  <2>5. d \in Int /\ (d # 0 <=> n + 1 <= r)
    BY <1>4, <2>1 DEF Packed
  <2> HIDE DEF q
  <2>6. CASE d = 0
    BY <1>4, <2>3, <2>4, <2>5, <2>6 DEF Dim
  <2>7. CASE d # 0
    <3>1. /\ Append(q, d) \in Seq(Int) /\ Len(Append(q, d)) = Len(q) + 1
          /\ \A i \in 1 .. Len(q) : Append(q, d)[i] = q[i]
          /\ Append(q, d)[Len(q) + 1] = d
      BY <2>3, <2>5, AppendProperties
    <3>2. Len(q) = n /\ n + 1 <= r
      BY <1>4, <2>3, <2>5, <2>7 DEF Dim
    <3> QED
      BY <2>3, <2>4, <2>7, <3>1, <3>2
  <2> QED
    BY <2>6, <2>7
<1>7. \A n \in Nat : n \in Good
  <2> HIDE DEF Good
  <2> QED
    BY <1>5, <1>6, Induction
<1>8. Sound(used[TENSOR_MAX_DIMS], TENSOR_MAX_DIMS)
  BY <1>7, MaxDimsIsNat
<1>9. (IF TENSOR_MAX_DIMS <= r THEN TENSOR_MAX_DIMS ELSE r) = r
  BY <1>4, MaxDimsIsNat DEF Dim
<1> QED
  BY <1>1, <1>8, <1>9 DEF r

Magnitudes(dims) ==
  [i \in 1 .. LastUsed(dims) |-> IF dims[i] < 0 THEN -dims[i] ELSE dims[i]]

LEMMA NumelOfPacked ==
  ASSUME NEW dims, Packed(dims)
  PROVE  Numel(dims) = Product(Magnitudes(dims))
<1> DEFINE r == LastUsed(dims)
           unused == {i \in Dim : dims[i] = 0}
           first == CHOOSE i \in unused : \A j \in unused : i <= j
           rank == IF unused = {} THEN TENSOR_MAX_DIMS ELSE first - 1
<1>1. r \in Dim /\ \A i \in Dim : dims[i] # 0 <=> i <= r
  BY LastUsedOfPacked
<1>2. Numel(dims) = Product([i \in 1 .. rank |-> IF dims[i] < 0 THEN -dims[i] ELSE dims[i]])
  BY DEF Numel
<1> HIDE DEF r
<1>3. rank = r
  <2>1. CASE r = TENSOR_MAX_DIMS
    <3>1. unused = {}
      BY <1>1, <2>1, MaxDimsIsNat DEF Dim
    <3> QED
      BY <2>1, <3>1
  <2>2. CASE r # TENSOR_MAX_DIMS
    <3>1. r + 1 \in unused /\ \A j \in unused : r + 1 <= j
      BY <1>1, <2>2, MaxDimsIsNat DEF Dim
    <3>2. first \in unused /\ first <= r + 1
      BY <3>1
    <3>3. r + 1 <= first
      BY <3>1, <3>2
    <3>4. first \in Int /\ r \in Int
      BY <1>1, <3>2 DEF Dim
    <3> HIDE DEF first, unused
    <3>5. first = r + 1
      BY <3>2, <3>3, <3>4
    <3> QED
      BY <3>1, <3>4, <3>5
  <2> QED
    BY <2>1, <2>2
<1> HIDE DEF rank
<1> QED
  BY <1>2, <1>3 DEF Magnitudes, r

LEMMA MagnitudesArePositive ==
  ASSUME NEW dims, Packed(dims)
  PROVE  /\ Magnitudes(dims) \in Seq(Int) /\ Len(Magnitudes(dims)) = LastUsed(dims)
         /\ \A i \in 1 .. LastUsed(dims) :
              /\ Magnitudes(dims)[i] = IF dims[i] = -1 THEN 1 ELSE dims[i]
              /\ Magnitudes(dims)[i] > 0
<1>1. LastUsed(dims) \in Dim /\ \A i \in Dim : dims[i] # 0 <=> i <= LastUsed(dims)
  BY LastUsedOfPacked
<1>2. \A i \in 1 .. LastUsed(dims) : i \in Dim /\ dims[i] \in Int /\ (dims[i] = -1 \/ dims[i] > 0)
  BY <1>1, MaxDimsIsNat DEF Packed, Dim
<1>3. LastUsed(dims) \in Nat /\ Magnitudes(dims) \in [1 .. LastUsed(dims) -> Int]
  BY <1>1, <1>2 DEF Magnitudes, Dim
<1>4. Magnitudes(dims) \in Seq(Int)
  BY <1>3, SeqDef
<1> QED
  BY <1>2, <1>3, <1>4 DEF Magnitudes

(* A shape as calls take and infer it. *)
Shapes ==
  {s \in Seq(Int) : /\ s # <<>> /\ Len(s) <= TENSOR_MAX_DIMS
                    /\ \A i \in 1 .. Len(s) : s[i] = -1 \/ s[i] > 0}

LEMMA PaddedIsPacked ==
  ASSUME NEW s \in Shapes
  PROVE  /\ Packed(Padded(s)) /\ LastUsed(Padded(s)) = Len(s)
         /\ \A i \in 1 .. Len(s) : Padded(s)[i] = s[i]
<1>1. /\ s \in Seq(Int) /\ Len(s) \in 1 .. TENSOR_MAX_DIMS
      /\ \A i \in 1 .. Len(s) : s[i] \in Int /\ (s[i] = -1 \/ s[i] > 0)
  BY MaxDimsIsNat DEF Shapes
<1>2. \A i \in Dim : Padded(s)[i] = IF i <= Len(s) THEN s[i] ELSE 0
  BY DEF Padded
<1>3. Packed(Padded(s))
  <2>1. Padded(s) \in [Dim -> Int]
    BY <1>1, MaxDimsIsNat DEF Padded, Dim
  <2> DEFINE p == Padded(s)
  <2>2. \A i \in Dim : p[i] = IF i <= Len(s) THEN s[i] ELSE 0
    BY <1>2
  <2>3. 1 \in Dim /\ Len(s) >= 1 /\ Len(s) \in Nat /\ \A i \in Dim : i \in Nat /\ i >= 1
    BY <1>1, MaxDimsIsNat DEF Dim
  <2> HIDE DEF p
  <2>4. \A i \in Dim : i <= Len(s) => p[i] \in Int /\ (p[i] = -1 \/ p[i] > 0)
    <3>1. \A i \in Dim : i <= Len(s) => i \in 1 .. Len(s)
      BY <2>3
    <3> QED
      BY <1>1, <2>2, <3>1
  <2>5. \A i \in Dim : ~(i <= Len(s)) => p[i] = 0
    BY <2>2
  <2>6. p[1] # 0 /\ \A i \in Dim : p[i] >= -1
    BY <2>3, <2>4, <2>5
  <2>7. \A i, j \in Dim : i < j /\ p[i] = 0 => p[j] = 0
    <3> SUFFICES ASSUME NEW i \in Dim, NEW j \in Dim, i < j, p[i] = 0 PROVE p[j] = 0
      OBVIOUS
    <3>1. ~(i <= Len(s))
      BY <2>4
    <3>2. ~(j <= Len(s))
      BY <2>3, <3>1
    <3> QED
      BY <2>5, <3>2
  <2> QED
    BY <2>1, <2>6, <2>7 DEF Packed, p
<1>4. \A i \in Dim : Padded(s)[i] # 0 <=> i <= LastUsed(Padded(s))
  BY <1>3, LastUsedOfPacked
<1>5. LastUsed(Padded(s)) = Len(s)
  <2>1. LastUsed(Padded(s)) \in Dim
    BY <1>3, LastUsedOfPacked
  <2>2. \A i \in Dim : i <= Len(s) <=> i <= LastUsed(Padded(s))
    BY <1>1, <1>2, <1>4, MaxDimsIsNat DEF Dim
  <2>3. Len(s) \in Dim
    BY <1>1 DEF Dim
  <2> QED
    BY <2>1, <2>2, <2>3, MaxDimsIsNat DEF Dim
<1> QED
  BY <1>1, <1>2, <1>3, <1>5, MaxDimsIsNat DEF Dim

(* Dimensions in use may change, as long as they stay in use. *)
LEMMA ChangedIsPacked ==
  ASSUME NEW dims, Packed(dims), NEW i \in Dim, i <= LastUsed(dims),
         NEW d \in Int, d = -1 \/ d > 0
  PROVE  /\ Packed([dims EXCEPT ![i] = d])
         /\ LastUsed([dims EXCEPT ![i] = d]) = LastUsed(dims)
<1> DEFINE e == [dims EXCEPT ![i] = d]
<1>1. LastUsed(dims) \in Dim /\ \A j \in Dim : dims[j] # 0 <=> j <= LastUsed(dims)
  BY LastUsedOfPacked
<1>2. /\ e \in [Dim -> Int]
      /\ \A j \in Dim : e[j] = IF j = i THEN d ELSE dims[j]
  BY DEF Packed
<1> HIDE DEF e
<1>3. \A j \in Dim : e[j] # 0 <=> dims[j] # 0
  BY <1>1, <1>2
<1>4. Packed(e)
  BY <1>2, <1>3, MaxDimsIsNat DEF Packed, Dim
<1>5. LastUsed(e) \in Dim /\ \A j \in Dim : e[j] # 0 <=> j <= LastUsed(e)
  BY <1>4, LastUsedOfPacked
<1>6. LastUsed(e) = LastUsed(dims)
  BY <1>1, <1>3, <1>5, MaxDimsIsNat DEF Dim
<1> QED
  BY <1>4, <1>6 DEF e

-----------------------------------------------------------------------------
(* The elements of a shape: the product that reshape verifies, in which a  *)
(* dynamic dimension does not count, is what numel returns.                *)
StaticFactors(s) == [i \in DOMAIN s |-> IF s[i] = -1 THEN 1 ELSE s[i]]

LEMMA StaticFactorsOfShape ==
  ASSUME NEW s \in Shapes
  PROVE  /\ StaticFactors(s) \in Seq(Int) /\ Len(StaticFactors(s)) = Len(s)
         /\ DOMAIN s = 1 .. Len(s)
         /\ \A i \in 1 .. Len(s) : StaticFactors(s)[i] = IF s[i] = -1 THEN 1 ELSE s[i]
         /\ StaticProduct(s) = Product(StaticFactors(s))
         /\ StaticProduct(s) \in Nat \ {0}
<1>1. /\ s \in Seq(Int) /\ Len(s) \in Nat /\ DOMAIN s = 1 .. Len(s)
      /\ \A i \in 1 .. Len(s) : s[i] \in Int /\ (s[i] = -1 \/ s[i] > 0)
  BY DEF Shapes
<1>2. StaticFactors(s) \in [1 .. Len(s) -> Int]
  BY <1>1 DEF StaticFactors
<1>3. StaticFactors(s) \in Seq(Int) /\ Len(StaticFactors(s)) = Len(s)
  BY <1>1, <1>2, SeqDef
<1>4. \A i \in 1 .. Len(s) : StaticFactors(s)[i] = IF s[i] = -1 THEN 1 ELSE s[i]
  BY <1>1 DEF StaticFactors
<1>5. Product(StaticFactors(s)) \in Int /\ Product(StaticFactors(s)) > 0
  BY <1>1, <1>3, <1>4, ProductPositive, ProductType
<1>6. StaticProduct(s) = Product(StaticFactors(s))
  BY DEF StaticProduct, StaticFactors
<1> QED
  BY <1>1, <1>3, <1>4, <1>5, <1>6

LEMMA UsedIsShape ==
  ASSUME NEW dims, Packed(dims)
  PROVE  /\ Used(dims) \in Shapes
         /\ StaticProduct(Used(dims)) = Numel(dims)
         /\ HasDynamic(Used(dims)) <=> HasDynamic(dims)
<1>1. LastUsed(dims) \in Dim /\ \A i \in Dim : dims[i] # 0 <=> i <= LastUsed(dims)
  BY LastUsedOfPacked
<1>2. /\ Used(dims) \in Seq(Int) /\ Len(Used(dims)) = LastUsed(dims)
      /\ \A i \in 1 .. LastUsed(dims) : Used(dims)[i] = dims[i]
  BY UsedOfPacked
<1>3. \A i \in 1 .. LastUsed(dims) : i \in Dim /\ dims[i] \in Int /\ (dims[i] = -1 \/ dims[i] > 0)
  BY <1>1, MaxDimsIsNat DEF Packed, Dim
<1>4. Used(dims) \in Shapes
  <2>1. Used(dims) # <<>>
    BY <1>1, <1>2 DEF Dim
  <2> QED
    BY <1>1, <1>2, <1>3, <2>1, MaxDimsIsNat DEF Shapes, Dim
<1>5. StaticFactors(Used(dims)) = Magnitudes(dims)
  <2>1. DOMAIN Used(dims) = 1 .. LastUsed(dims)
    BY <1>2
  <2>2. StaticFactors(Used(dims)) =
          [i \in 1 .. LastUsed(dims) |-> IF dims[i] = -1 THEN 1 ELSE dims[i]]
    BY <1>2, <2>1 DEF StaticFactors
  <2>3. Magnitudes(dims) =
          [i \in 1 .. LastUsed(dims) |-> IF dims[i] = -1 THEN 1 ELSE dims[i]]
    BY <1>3 DEF Magnitudes
  <2> QED
    BY <2>2, <2>3
<1>6. HasDynamic(Used(dims)) <=> HasDynamic(dims)
  <2>1. DOMAIN Used(dims) = 1 .. LastUsed(dims) /\ DOMAIN dims = Dim
    BY <1>2 DEF Packed
  <2>2. \A i \in Dim : dims[i] = -1 => i \in 1 .. LastUsed(dims)
    BY <1>1, MaxDimsIsNat DEF Dim
  <2> QED
    BY <1>2, <1>3, <2>1, <2>2 DEF HasDynamic
<1> QED
  BY <1>4, <1>5, <1>6, StaticFactorsOfShape, NumelOfPacked

LEMMA NumelOfPadded ==
  ASSUME NEW s \in Shapes
  PROVE  Numel(Padded(s)) = StaticProduct(s)
<1>1. /\ Packed(Padded(s)) /\ LastUsed(Padded(s)) = Len(s)
      /\ \A i \in 1 .. Len(s) : Padded(s)[i] = s[i]
  BY PaddedIsPacked
<1>2. /\ Used(Padded(s)) \in Seq(Int) /\ Len(Used(Padded(s))) = Len(s)
      /\ \A i \in 1 .. Len(s) : Used(Padded(s))[i] = s[i]
  BY <1>1, UsedOfPacked
<1>3. Used(Padded(s)) = s
  <2>1. s \in Seq(Int)
    BY DEF Shapes
  <2> QED
    BY <1>2, <2>1, SeqEqual
<1> QED
  BY <1>1, <1>3, UsedIsShape

(* What reshape infers of a shape it accepts is a shape again, and over a  *)
(* static source it has the elements of the source.                        *)
LEMMA InferredIsShape ==
  ASSUME NEW dims, Packed(dims), NEW shape \in Shapes, ReshapeFits(dims, shape)
  PROVE  /\ Inferred(dims, shape) \in Shapes
         /\ ~HasDynamic(dims) => StaticProduct(Inferred(dims, shape)) = Numel(dims)
<1>1. /\ Used(dims) \in Shapes /\ StaticProduct(Used(dims)) = Numel(dims)
      /\ HasDynamic(Used(dims)) <=> HasDynamic(dims)
  BY UsedIsShape
<1> DEFINE infer == {i \in DOMAIN shape : shape[i] = -1}
           last == CHOOSE i \in infer : \A j \in infer : j <= i
           a == StaticProduct(Used(dims))
           b == StaticProduct(shape)
<1>2. /\ shape \in Seq(Int) /\ Len(shape) \in Nat /\ DOMAIN shape = 1 .. Len(shape)
      /\ \A i \in 1 .. Len(shape) : shape[i] \in Int /\ (shape[i] = -1 \/ shape[i] > 0)
  BY DEF Shapes
<1>3. CASE infer = {} \/ HasDynamic(Used(dims))
  <2>1. Inferred(dims, shape) = shape
    BY <1>3 DEF Inferred
  <2> QED
    BY <1>1, <2>1 DEF ReshapeFits
<1>4. CASE infer # {} /\ ~HasDynamic(Used(dims))
  <2>1. last \in 1 .. Len(shape)
    <3>1. infer \in SUBSET (1 .. Len(shape))
      BY <1>2
    <3>2. \E i \in infer : \A j \in infer : j <= i
      <4> HIDE DEF infer
      <4> QED
        BY <1>2, <1>4, <3>1, GreatestMember
    <3>3. last \in infer
      BY <3>2
    <3> QED
      BY <3>1, <3>3
  <2>2. Inferred(dims, shape) = [shape EXCEPT ![last] = a \div b]
    BY <1>4 DEF Inferred
  <2>3. a \in Nat \ {0} /\ b \in Nat \ {0} /\ a % b = 0
    <3>1. HasDynamic(shape)
      BY <1>4 DEF HasDynamic
    <3> QED
      BY <1>1, <1>4, <3>1, StaticFactorsOfShape DEF ReshapeFits
  <2> HIDE DEF a, b, last, infer
  <2>4. a \div b \in Int /\ a \div b > 0
    <3>1. \A x \in Nat \ {0}, y \in Nat \ {0} :
            x \div y \in Int /\ x = (y * (x \div y)) + (x % y)
      OBVIOUS
    <3>2. \A y \in Nat \ {0}, z \in Int : y * z > 0 => z > 0
      OBVIOUS
    <3>3. a = b * (a \div b) /\ a \div b \in Int
      BY <2>3, <3>1
    <3> QED
      BY <2>3, <3>2, <3>3
  <2>5. Inferred(dims, shape) \in Shapes
    <3> DEFINE s == [shape EXCEPT ![last] = a \div b]
    <3>1. /\ s \in Seq(Int) /\ Len(s) = Len(shape)
          /\ \A i \in 1 .. Len(s) : s[i] = IF i = last THEN a \div b ELSE shape[i]
      BY <1>2, <2>1, <2>4
    <3> HIDE DEF s
    <3>2. s # <<>> /\ Len(s) <= TENSOR_MAX_DIMS
      BY <2>1, <3>1 DEF Shapes
    <3>3. \A i \in 1 .. Len(s) : s[i] = -1 \/ s[i] > 0
      BY <1>2, <2>4, <3>1
    <3>4. s \in Shapes
      BY <3>1, <3>2, <3>3 DEF Shapes
    <3> QED
      BY <2>2, <3>4 DEF s
  <2> QED
    BY <1>1, <1>4, <2>5 DEF ReshapeFits
<1> QED
  BY <1>3, <1>4

(* A permutation of a shape has its elements. *)
PermutedShape(dims, perm) == [i \in DOMAIN perm |-> Used(dims)[perm[i] + 1]]

LEMMA PermutedIsShape ==
  ASSUME NEW dims, Packed(dims), NEW perm \in Perms, PermuteFits(dims, perm)
  PROVE  /\ PermutedShape(dims, perm) \in Shapes
         /\ StaticProduct(PermutedShape(dims, perm)) = Numel(dims)
<1> DEFINE u == Used(dims)
           s == PermutedShape(dims, perm)
           p == [i \in 1 .. Len(u) |-> perm[i] + 1]
<1>1. u \in Shapes /\ StaticProduct(u) = Numel(dims)
  BY UsedIsShape
<1> HIDE DEF u
<1>2. /\ u \in Seq(Int) /\ Len(u) \in Nat /\ u # <<>> /\ Len(u) <= TENSOR_MAX_DIMS
      /\ \A i \in 1 .. Len(u) : u[i] \in Int /\ (u[i] = -1 \/ u[i] > 0)
  BY <1>1 DEF Shapes
<1>3. /\ perm \in Seq(Nat) /\ Len(perm) = Len(u) /\ DOMAIN perm = 1 .. Len(u)
      /\ perm \in Bijection(1 .. Len(u), 0 .. Len(u) - 1)
  BY PermsArePermutations DEF PermuteFits, u
<1>4. IsPermutation(p, Len(u))
  <2>1. /\ perm \in [1 .. Len(u) -> 0 .. Len(u) - 1]
        /\ \A i, j \in 1 .. Len(u) : perm[i] = perm[j] => i = j
        /\ \A m \in 0 .. Len(u) - 1 : \E i \in 1 .. Len(u) : perm[i] = m
    BY <1>3 DEF Bijection, Injection, Surjection, IsInjective
  <2>2. \A i \in 1 .. Len(u) : perm[i] + 1 \in 1 .. Len(u) /\ perm[i] \in Int
    BY <1>2, <2>1
  <2>3. \A i, j \in 1 .. Len(u) : p[i] = p[j] => i = j
    BY <2>1, <2>2
  <2>4. ASSUME NEW m \in 1 .. Len(u) PROVE \E i \in 1 .. Len(u) : p[i] = m
    <3>1. m - 1 \in 0 .. Len(u) - 1
      BY <1>2
    <3>2. PICK i \in 1 .. Len(u) : perm[i] = m - 1
      BY <2>1, <3>1
    <3>3. p[i] = m
      BY <3>2
    <3> QED
      BY <3>3
  <2> QED
    BY <2>2, <2>3, <2>4 DEF IsPermutation
<1>5. \A i \in 1 .. Len(u) : p[i] \in 1 .. Len(u) /\ s[i] = u[p[i]]
  BY <1>3, <1>4 DEF IsPermutation, PermutedShape, u
<1>6. s = [i \in 1 .. Len(u) |-> s[i]]
  BY <1>3 DEF PermutedShape
<1> HIDE DEF p, s
<1>7. s \in Seq(Int) /\ Len(s) = Len(u)
  <2>1. \A i \in 1 .. Len(u) : s[i] \in Int
    BY <1>2, <1>5
  <2>2. s \in [1 .. Len(u) -> Int]
    BY <1>6, <2>1
  <2>3. s \in Seq(Int)
    BY <1>2, <2>2, SeqDef
  <2> QED
    BY <1>2, <2>2, <2>3
<1>8. s \in Shapes
  <2>1. s # <<>> /\ Len(s) <= TENSOR_MAX_DIMS
    BY <1>2, <1>7
  <2>2. \A i \in 1 .. Len(s) : s[i] = -1 \/ s[i] > 0
    BY <1>2, <1>5, <1>7
  <2> QED
    BY <1>7, <2>1, <2>2 DEF Shapes
<1>9. StaticFactors(s) = Rearranged(StaticFactors(u), p)
  <2>1. DOMAIN s = 1 .. Len(u) /\ DOMAIN u = 1 .. Len(u) /\ Len(StaticFactors(u)) = Len(u)
    BY <1>1, <1>2, <1>7, StaticFactorsOfShape
  <2>2. \A i \in 1 .. Len(u) : StaticFactors(u)[p[i]] = IF s[i] = -1 THEN 1 ELSE s[i]
    BY <1>5, <2>1 DEF StaticFactors
  <2> QED
    BY <2>1, <2>2 DEF StaticFactors, Rearranged
<1>10. Product(Rearranged(StaticFactors(u), p)) = Product(StaticFactors(u))
  BY <1>1, <1>4, StaticFactorsOfShape, ProductRearranged
<1> QED
  BY <1>1, <1>8, <1>9, <1>10, StaticFactorsOfShape DEF s

-----------------------------------------------------------------------------
(* Strides.  The arithmetic of a size_t: a factor may be reduced before it *)
(* is multiplied.                                                          *)
LEMMA ReducedFactor ==
  ASSUME NEW x \in Int, NEW d \in Int
  PROVE  ((x % SizeValues) * d) % SizeValues = (x * d) % SizeValues
<1> DEFINE W == SizeValues
           q == x \div W
           r == x % W
           k == (r * d) \div W
           m == (r * d) % W
<1>1. W \in Nat /\ W > 0
  BY SizesAreNat
<1> HIDE DEF W
<1>2. q \in Int /\ r \in Int /\ x = (W * q) + r
  BY <1>1
<1> HIDE DEF q, r
<1>3. r * d \in Int
  BY <1>2
<1>4. k \in Int /\ m \in Int /\ 0 <= m /\ m < W /\ r * d = (W * k) + m
  BY <1>1, <1>3
<1> HIDE DEF k, m
<1>5. x * d = (W * (q * d + k)) + m
  <2>1. x * d = ((W * q) * d) + (r * d)
    BY <1>1, <1>2
  <2>2. (W * q) * d = W * (q * d) /\ W * (q * d + k) = (W * (q * d)) + (W * k)
    BY <1>1, <1>2, <1>4
  <2>3. (W * q) * d \in Int /\ W * k \in Int /\ W * (q * d) \in Int
    BY <1>1, <1>2, <1>4
  <2> QED
    BY <1>1, <1>2, <1>3, <1>4, <2>1, <2>2, <2>3
<1>6. \A y, j, n \in Int : y = (W * j) + n /\ 0 <= n /\ n < W => y % W = n
  BY <1>1
<1>7. x * d \in Int /\ q * d + k \in Int
  BY <1>2, <1>4
<1>8. (x * d) % W = m
  BY <1>4, <1>5, <1>6, <1>7
<1> QED
  BY <1>8 DEF m, r, W

SpanFactors(dims, i) ==
  [n \in 1 .. TENSOR_MAX_DIMS - i |-> IF dims[i + n] = 0 THEN 1 ELSE dims[i + n]]

LEMMA SpanFactorsAre ==
  ASSUME NEW dims, Packed(dims), NEW i \in 0 .. TENSOR_MAX_DIMS
  PROVE  /\ SpanFactors(dims, i) \in Seq(Int)
         /\ Len(SpanFactors(dims, i)) = TENSOR_MAX_DIMS - i
         /\ Span(dims, i) = Product(SpanFactors(dims, i))
         /\ Span(dims, i) \in Int
<1>1. \A n \in 1 .. TENSOR_MAX_DIMS - i : i + n \in Dim /\ dims[i + n] \in Int
  BY MaxDimsIsNat DEF Dim, Packed
<1>2. /\ TENSOR_MAX_DIMS - i \in Nat
      /\ SpanFactors(dims, i) \in [1 .. TENSOR_MAX_DIMS - i -> Int]
  <2>1. \A n \in 1 .. TENSOR_MAX_DIMS - i :
          (IF dims[i + n] = 0 THEN 1 ELSE dims[i + n]) \in Int
    BY <1>1
  <2>2. TENSOR_MAX_DIMS - i \in Nat
    BY MaxDimsIsNat
  <2> QED
    BY <2>1, <2>2 DEF SpanFactors
<1>3. SpanFactors(dims, i) \in Seq(Int) /\ Len(SpanFactors(dims, i)) = TENSOR_MAX_DIMS - i
  BY <1>2, SeqDef
<1> QED
  BY <1>3, ProductType DEF Span, SpanFactors

LEMMA SpanGrows ==
  ASSUME NEW dims, Packed(dims), NEW i \in 1 .. TENSOR_MAX_DIMS, dims[i] # 0
  PROVE  Span(dims, i - 1) = dims[i] * Span(dims, i)
<1> DEFINE s == SpanFactors(dims, i - 1)
<1>1. /\ i - 1 \in 0 .. TENSOR_MAX_DIMS /\ i \in 0 .. TENSOR_MAX_DIMS
      /\ TENSOR_MAX_DIMS - (i - 1) = (TENSOR_MAX_DIMS - i) + 1
      /\ TENSOR_MAX_DIMS - i \in Nat
  BY MaxDimsIsNat
<1>2. /\ s \in Seq(Int) /\ Len(s) = (TENSOR_MAX_DIMS - i) + 1 /\ 1 \in 1 .. Len(s)
      /\ Span(dims, i - 1) = Product(s)
  BY <1>1, SpanFactorsAre
<1>3. s[1] = dims[i]
  <2>1. 1 \in 1 .. TENSOR_MAX_DIMS - (i - 1) /\ (i - 1) + 1 = i
    BY <1>1
  <2> QED
    BY <2>1 DEF SpanFactors
<1>4. Without(s, 1) = SpanFactors(dims, i)
  <2>1. \A n \in 1 .. TENSOR_MAX_DIMS - i :
          ~(n < 1) /\ s[n + 1] = SpanFactors(dims, i)[n]
    <3>1. ASSUME NEW n \in 1 .. TENSOR_MAX_DIMS - i
          PROVE  /\ n + 1 \in 1 .. TENSOR_MAX_DIMS - (i - 1)
                 /\ (i - 1) + (n + 1) = i + n /\ ~(n < 1)
      BY <1>1
    <3> QED
      BY <3>1 DEF SpanFactors
  <2> HIDE DEF s
  <2>2. Len(s) - 1 = TENSOR_MAX_DIMS - i
    BY <1>1, <1>2
  <2>3. SpanFactors(dims, i) = [n \in 1 .. TENSOR_MAX_DIMS - i |-> SpanFactors(dims, i)[n]]
    BY DEF SpanFactors
  <2>4. Without(s, 1) = [n \in 1 .. TENSOR_MAX_DIMS - i |-> s[n + 1]]
    BY <2>1, <2>2 DEF Without
  <2> QED
    BY <2>1, <2>3, <2>4
<1> HIDE DEF s
<1>5. Product(s) = s[1] * Product(Without(s, 1))
  BY <1>2, ProductWithout
<1> QED
  BY <1>1, <1>2, <1>3, <1>4, <1>5, SpanFactorsAre

(* After the last dimension in use there is nothing to walk over, and over *)
(* all dimensions of a static shape there are its elements.                *)
LEMMA SpanEnds ==
  ASSUME NEW dims, Packed(dims)
  PROVE  /\ Span(dims, LastUsed(dims)) = 1
         /\ ~HasDynamic(dims) => Span(dims, 0) = Numel(dims)
<1> DEFINE r == LastUsed(dims)
           s == SpanFactors(dims, r)
           t == SpanFactors(dims, 0)
<1>1. r \in Dim /\ \A i \in Dim : dims[i] # 0 <=> i <= r
  BY LastUsedOfPacked
<1> HIDE DEF r
<1>2. r \in Nat /\ r \in 0 .. TENSOR_MAX_DIMS /\ 0 \in 0 .. TENSOR_MAX_DIMS
  BY <1>1, MaxDimsIsNat DEF Dim
<1>3. Span(dims, r) = 1
  <2>1. s \in Seq(Int) /\ Len(s) = TENSOR_MAX_DIMS - r /\ Span(dims, r) = Product(s)
    BY <1>2, SpanFactorsAre
  <2>2. \A n \in 0 + 1 .. Len(s) : s[n] = 1
    <3>1. ASSUME NEW n \in 1 .. TENSOR_MAX_DIMS - r
          PROVE  r + n \in Dim /\ ~(r + n <= r)
      BY <1>2, MaxDimsIsNat DEF Dim
    <3>2. \A n \in 1 .. TENSOR_MAX_DIMS - r : s[n] = 1
      BY <1>1, <3>1 DEF SpanFactors
    <3> HIDE DEF s
    <3> QED
      BY <2>1, <3>2
  <2> HIDE DEF s
  <2>3. 0 \in 0 .. Len(s)
    BY <2>1
  <2>4. Product(s) = Product(Prefix(s, 0))
    BY <2>1, <2>2, <2>3, ProductOnesAfter
  <2>5. Prefix(s, 0) \in Seq(Int) /\ Len(Prefix(s, 0)) = 0
    BY <2>1, <2>3, PrefixIsSeq
  <2> QED
    BY <2>1, <2>4, <2>5, ProductOfNone
<1>4. ASSUME ~HasDynamic(dims) PROVE Span(dims, 0) = Numel(dims)
  <2>1. t \in Seq(Int) /\ Len(t) = TENSOR_MAX_DIMS - 0 /\ Span(dims, 0) = Product(t)
    BY <1>2, SpanFactorsAre
  <2>2. \A n \in Dim : t[n] = IF n <= r THEN dims[n] ELSE 1
    <3>1. \A n \in Dim : n \in 1 .. TENSOR_MAX_DIMS - 0 /\ 0 + n = n
      BY MaxDimsIsNat DEF Dim
    <3> QED
      BY <1>1, <3>1 DEF SpanFactors
  <2> HIDE DEF t
  <2>3. Product(t) = Product(Prefix(t, r))
    <3>1. r \in 0 .. Len(t) /\ \A n \in r + 1 .. Len(t) : n \in Dim /\ ~(n <= r)
      BY <1>2, <2>1, MaxDimsIsNat DEF Dim
    <3> QED
      BY <2>1, <2>2, <3>1, ProductOnesAfter
  <2>4. Prefix(t, r) = Magnitudes(dims)
    <3>1. \A n \in 1 .. r : n \in Dim /\ n <= r /\ dims[n] \in Int /\ dims[n] > 0
      <4>1. \A n \in Dim : dims[n] \in Int /\ dims[n] >= -1 /\ dims[n] # -1
        BY <1>4 DEF Packed, HasDynamic
      <4>2. \A n \in 1 .. r : n \in Dim /\ n <= r
        BY <1>2, MaxDimsIsNat DEF Dim
      <4> QED
        BY <1>1, <4>1, <4>2
    <3>2. Prefix(t, r) = [n \in 1 .. r |-> dims[n]]
      BY <2>2, <3>1 DEF Prefix
    <3>3. Magnitudes(dims) = [n \in 1 .. r |-> dims[n]]
      BY <3>1 DEF Magnitudes, r
    <3> QED
      BY <3>2, <3>3
  <2> QED
    BY <2>1, <2>3, <2>4, NumelOfPacked
<1> QED
  BY <1>3, <1>4 DEF r

(* The strides that computeStrides gives a packed shape walk it densely.   *)
LEMMA StridesOfPacked ==
  ASSUME NEW dims, Packed(dims)
  PROVE  /\ Strides(dims) \in [Dim -> 0 .. SizeValues - 1]
         /\ Strides(dims)[LastUsed(dims)] = ElementSize % SizeValues
         /\ \A i \in 1 .. LastUsed(dims) - 1 :
              Strides(dims)[i] = (Strides(dims)[i + 1] * dims[i + 1]) % SizeValues
         /\ ~HasDynamic(dims) =>
              (Strides(dims)[1] * dims[1]) % SizeValues
                = (ElementSize * Numel(dims)) % SizeValues
<1> DEFINE r == LastUsed(dims)
<1>1. r \in Dim /\ \A i \in Dim : dims[i] # 0 <=> i <= r
  BY LastUsedOfPacked
<1> HIDE DEF r
<1>2. \A i \in Dim : /\ i \in 0 .. TENSOR_MAX_DIMS /\ i \in 1 .. TENSOR_MAX_DIMS
                     /\ dims[i] \in Int /\ Span(dims, i) \in Int
                     /\ ElementSize * Span(dims, i) \in Int
  <2>1. \A i \in Dim : i \in 0 .. TENSOR_MAX_DIMS /\ i \in 1 .. TENSOR_MAX_DIMS
    BY MaxDimsIsNat DEF Dim
  <2>2. \A i \in Dim : Span(dims, i) \in Int
    BY <2>1, SpanFactorsAre
  <2> QED
    BY <2>1, <2>2, SizesAreNat DEF Packed
<1>3. \A i \in Dim : Strides(dims)[i] =
        IF dims[i] = 0 THEN 0 ELSE (ElementSize * Span(dims, i)) % SizeValues
  BY DEF Strides
<1>4. Strides(dims) \in [Dim -> 0 .. SizeValues - 1]
  <2>1. \A x \in Int : x % SizeValues \in 0 .. SizeValues - 1
    BY SizesAreNat
  <2>2. 0 \in 0 .. SizeValues - 1
    BY SizesAreNat
  <2> QED
    BY <1>2, <2>1, <2>2 DEF Strides
<1>5. ASSUME NEW i \in Dim, dims[i] # 0
      PROVE  (Strides(dims)[i] * dims[i]) % SizeValues
               = (ElementSize * Span(dims, i - 1)) % SizeValues
  <2>1. Span(dims, i - 1) = dims[i] * Span(dims, i)
    BY <1>2, <1>5, SpanGrows
  <2>2. Strides(dims)[i] = (ElementSize * Span(dims, i)) % SizeValues
    BY <1>3, <1>5
  <2>3. (Strides(dims)[i] * dims[i]) % SizeValues
          = ((ElementSize * Span(dims, i)) * dims[i]) % SizeValues
    BY <1>2, <2>2, ReducedFactor
  <2>4. (ElementSize * Span(dims, i)) * dims[i] = ElementSize * (dims[i] * Span(dims, i))
    <3>1. \A a, b, c \in Int : (a * b) * c = a * (c * b)
      OBVIOUS
    <3> QED
      BY <1>2, <3>1, SizesAreNat
  <2> QED
    BY <2>1, <2>3, <2>4
<1>6. Strides(dims)[r] = ElementSize % SizeValues
  BY <1>1, <1>3, SpanEnds, SizesAreNat DEF r, Dim
<1>7. ASSUME NEW i \in 1 .. r - 1
      PROVE  Strides(dims)[i] = (Strides(dims)[i + 1] * dims[i + 1]) % SizeValues
  <2>1. i \in Dim /\ i + 1 \in Dim /\ i <= r /\ i + 1 <= r /\ (i + 1) - 1 = i
    BY <1>1, MaxDimsIsNat DEF Dim
  <2>2. Strides(dims)[i] = (ElementSize * Span(dims, i)) % SizeValues
    BY <1>1, <1>3, <2>1
  <2>3. dims[i + 1] # 0
    BY <1>1, <2>1
  <2> QED
    BY <1>5, <2>1, <2>2, <2>3
<1>8. ASSUME ~HasDynamic(dims)
      PROVE  (Strides(dims)[1] * dims[1]) % SizeValues
               = (ElementSize * Numel(dims)) % SizeValues
  <2>1. 1 \in Dim /\ 1 - 1 = 0 /\ dims[1] # 0
    BY MaxDimsIsNat DEF Dim, Packed
  <2> QED
    BY <1>5, <1>8, <2>1, SpanEnds
<1> QED
  BY <1>4, <1>6, <1>7, <1>8 DEF r

-----------------------------------------------------------------------------
(* The invariant.  T is the list a tensor is in: what is said of a tensor  *)
(* stays true when the list grows.                                         *)
Ops ==
  {"PLACEHOLDER", "WEIGHT", "LINEAR", "EMBEDDING", "RMS_NORM", "CAUSAL_CONV1D", "SILU",
   "SIGMOID", "ADD", "MUL", "NARROW", "ROPE_CACHE", "RESHAPE", "PERMUTE", "SDPA",
   "APPLY_ROPE", "SSM_SCAN"}

Records ==
  [op : Ops, dims : [Dim -> Int], strides : [Dim -> Int], src : Seq(Nat),
   params : Seq(Int \cup BOOLEAN)]

ShapeAndStrides(x) ==
  /\ Packed(x.dims)
  /\ x.strides \in [Dim -> 0 .. SizeValues - 1]
  /\ x.op # "WEIGHT" => x.strides = Strides(x.dims)

SourcesIn(x, t, T) == \A i \in DOMAIN x.src : x.src[i] \in DOMAIN T \ {t}

ViewKeepsElements(x, T) ==
  x.op \in {"RESHAPE", "PERMUTE"} =>
    /\ 1 \in DOMAIN x.src
    /\ ~HasDynamic(T[x.src[1]].dims) => Numel(x.dims) = Numel(T[x.src[1]].dims)

LinearMatches(x, T) ==
  x.op = "LINEAR" =>
    LET in        == T[x.src[1]].dims
        w         == T[x.src[2]].dims
        transpose == x.params[1]
        sum       == IF transpose THEN w[2] ELSE w[1]
        free      == IF transpose THEN w[1] ELSE w[2]
    IN  /\ 1 \in DOMAIN x.src /\ 2 \in DOMAIN x.src
        /\ in[LastUsed(in)] \in {-1, sum}
        /\ x.dims[LastUsed(x.dims)] = free
        /\ LastUsed(x.dims) = LastUsed(in)

Good(x, t, T) ==
  /\ ShapeAndStrides(x)
  /\ SourcesIn(x, t, T)
  /\ ViewKeepsElements(x, T)
  /\ LinearMatches(x, T)

FactoryInv ==
  /\ calls \in 0 .. MaxCalls
  /\ outcome \in {"ok", "threw"}
  /\ tensors \in Seq(Records)
  /\ \A t \in DOMAIN tensors : Good(tensors[t], t, tensors)

(* A call that hands out new keeps the invariant when what it hands out is *)
(* good among the tensors there are then.                                  *)
LEMMA ReturnKeeps ==
  ASSUME FactoryInv, calls < MaxCalls, NEW new \in Seq(Records), Return(new),
         \A n \in DOMAIN new : Good(new[n], Len(tensors) + n, tensors \o new)
  PROVE  FactoryInv'
<1> DEFINE T == tensors \o new
<1>1. tensors' = T /\ calls' = calls + 1 /\ outcome' = "ok"
  BY DEF Return
<1>2. /\ T \in Seq(Records) /\ Len(T) = Len(tensors) + Len(new)
      /\ Len(tensors) \in Nat /\ Len(new) \in Nat
      /\ DOMAIN T = 1 .. Len(tensors) + Len(new)
      /\ DOMAIN tensors = 1 .. Len(tensors) /\ DOMAIN new = 1 .. Len(new)
      /\ \A n \in 1 .. Len(tensors) + Len(new) :
           T[n] = IF n <= Len(tensors) THEN tensors[n] ELSE new[n - Len(tensors)]
  BY ConcatProperties DEF FactoryInv
<1> HIDE DEF T
<1>3. \A n \in DOMAIN tensors : n \in DOMAIN T /\ T[n] = tensors[n]
  BY <1>2
<1>4. ASSUME NEW t \in DOMAIN tensors PROVE Good(T[t], t, T)
  <2>1. Good(tensors[t], t, tensors) /\ T[t] = tensors[t]
    BY <1>3 DEF FactoryInv
  <2>2. \A i \in DOMAIN tensors[t].src :
          /\ tensors[t].src[i] \in DOMAIN T \ {t}
          /\ T[tensors[t].src[i]] = tensors[tensors[t].src[i]]
    BY <1>3, <2>1 DEF Good, SourcesIn
  <2>3. ShapeAndStrides(T[t]) /\ SourcesIn(T[t], t, T)
    BY <2>1, <2>2 DEF Good, SourcesIn
  <2>4. ViewKeepsElements(T[t], T)
    BY <2>1, <2>2 DEF Good, ViewKeepsElements
  <2>5. LinearMatches(T[t], T)
    BY <2>1, <2>2 DEF Good, LinearMatches
  <2> QED
    BY <2>3, <2>4, <2>5 DEF Good
<1>5. ASSUME NEW t \in DOMAIN T, t \notin DOMAIN tensors PROVE Good(T[t], t, T)
  <2>1. t - Len(tensors) \in DOMAIN new /\ Len(tensors) + (t - Len(tensors)) = t
          /\ T[t] = new[t - Len(tensors)]
    BY <1>2, <1>5
  <2> QED
    BY <2>1 DEF T
<1>6. calls' \in 0 .. MaxCalls
  BY <1>1, MaxCallsIsNat DEF FactoryInv
<1> QED
  BY <1>1, <1>2, <1>4, <1>5, <1>6 DEF FactoryInv

LEMMA ThrowKeeps ==
  ASSUME FactoryInv, calls < MaxCalls, Throw
  PROVE  FactoryInv'
BY MaxCallsIsNat DEF FactoryInv, Throw

(* The tensors a client may pass. *)
LEMMA HandedAre ==
  ASSUME FactoryInv, NEW x \in Handed
  PROVE  /\ x \in DOMAIN tensors /\ x \in 1 .. Len(tensors) /\ x \in Nat
         /\ Packed(Dims(x)) /\ Dims(x) \in [Dim -> Int]
         /\ tensors[x].strides = Strides(Dims(x))
         /\ Len(tensors) \in Nat
BY DEF FactoryInv, Handed, Dims, Good, ShapeAndStrides, Packed

(* A tensor with fresh strides, or with the strides of one of the same     *)
(* dims, is good but for what its operation promises; so is a weight.      *)
LEMMA FreshIsGood ==
  ASSUME NEW op \in Ops, op # "WEIGHT", NEW dims, Packed(dims), NEW src \in Seq(Nat),
         NEW params \in Seq(Int \cup BOOLEAN)
  PROVE  Tensor(op, dims, src, params) \in Records
         /\ ShapeAndStrides(Tensor(op, dims, src, params))
<1>1. Strides(dims) \in [Dim -> 0 .. SizeValues - 1]
  BY StridesOfPacked
<1>2. 0 .. SizeValues - 1 \subseteq Int
  OBVIOUS
<1>3. Strides(dims) \in [Dim -> Int] /\ dims \in [Dim -> Int]
  BY <1>1, <1>2 DEF Packed
<1> QED
  BY <1>1, <1>3 DEF Tensor, Records, ShapeAndStrides

LEMMA WeightIsGood ==
  ASSUME NEW w \in WeightShapes, NEW t, NEW T
  PROVE  /\ Weight(w) \in Records /\ Good(Weight(w), t, T)
         /\ Weight(w).dims[1] = w[1] /\ Weight(w).dims[2] = w[2]
         /\ w[1] \in Nat \ {0} /\ w[2] \in Nat \ {0}
<1>1. /\ w \in Seq(Nat \ {0}) /\ Len(w) = 2 /\ w[1] \in Nat \ {0} /\ w[2] \in Nat \ {0}
      /\ w # <<>>
  <2>1. w \in Seq(Nat \ {0}) /\ Len(w) = 2
    BY WeightsAreMatrices
  <2> QED
    BY <2>1
<1>2. w \in Shapes
  <2>1. w \in Seq(Int)
    BY <1>1
  <2>2. \A i \in 1 .. Len(w) : w[i] = -1 \/ w[i] > 0
    BY <1>1
  <2>3. Len(w) <= TENSOR_MAX_DIMS
    BY <1>1, MaxDimsIsNat
  <2> QED
    BY <1>1, <2>1, <2>2, <2>3, Zenon DEF Shapes
<1>3. Packed(Padded(w)) /\ Padded(w)[1] = w[1] /\ Padded(w)[2] = w[2]
  <2>1. 1 \in 1 .. Len(w) /\ 2 \in 1 .. Len(w)
    BY <1>1
  <2> QED
    BY <1>2, <2>1, PaddedIsPacked
<1>4. [i \in Dim |-> 0] \in [Dim -> 0 .. SizeValues - 1] /\ [i \in Dim |-> 0] \in [Dim -> Int]
  BY SizesAreNat
<1>5. Weight(w) \in Records
  <2>1. <<>> \in Seq(Nat) /\ <<>> \in Seq(Int \cup BOOLEAN)
    OBVIOUS
  <2>2. Padded(w) \in [Dim -> Int]
    BY <1>3 DEF Packed
  <2>3. "WEIGHT" \in Ops
    BY DEF Ops
  <2> QED
    BY <1>4, <2>1, <2>2, <2>3 DEF Weight, Records
<1>6. Good(Weight(w), t, T)
  BY <1>3, <1>4 DEF Weight, Good, ShapeAndStrides, SourcesIn, ViewKeepsElements, LinearMatches
<1> QED
  BY <1>1, <1>3, <1>5, <1>6 DEF Weight

-----------------------------------------------------------------------------
(* The calls.  First those whose operation promises nothing of its own.    *)
NotPlain == {"RESHAPE", "PERMUTE", "LINEAR"}

LEMMA PlainCallKeeps ==
  ASSUME FactoryInv, calls < MaxCalls, NEW new \in Seq(Records), Return(new),
         \A n \in DOMAIN new :
           /\ ShapeAndStrides(new[n]) /\ new[n].op \notin NotPlain
           /\ \A i \in DOMAIN new[n].src :
                new[n].src[i] \in (1 .. Len(tensors) + Len(new)) \ {Len(tensors) + n}
  PROVE  FactoryInv'
<1> DEFINE T == tensors \o new
<1>1. DOMAIN T = 1 .. Len(tensors) + Len(new)
  <2>1. T \in Seq(Records) /\ Len(T) = Len(tensors) + Len(new)
    BY ConcatProperties DEF FactoryInv
  <2> HIDE DEF T
  <2> QED
    BY <2>1
<1> HIDE DEF T
<1>2. \A n \in DOMAIN new : Good(new[n], Len(tensors) + n, T)
  BY <1>1 DEF Good, SourcesIn, ViewKeepsElements, LinearMatches, NotPlain
<1> QED
  BY <1>2, ReturnKeeps DEF T

LEMMA PlainKeeps ==
  ASSUME FactoryInv, calls < MaxCalls, NEW op \in Ops \ ({"WEIGHT"} \cup NotPlain),
         NEW dims, Packed(dims), NEW src \in Seq(Nat), \A i \in DOMAIN src : src[i] \in DOMAIN tensors,
         NEW params \in Seq(Int \cup BOOLEAN),
         Return(<<Tensor(op, dims, src, params)>>)
  PROVE  FactoryInv'
<1> DEFINE x == Tensor(op, dims, src, params)
<1>1. x \in Records /\ ShapeAndStrides(x)
  BY FreshIsGood
<1>2. x.op \notin NotPlain /\ x.src = src
  BY DEF Tensor
<1> HIDE DEF x
<1>3. /\ <<x>> \in Seq(Records) /\ Len(<<x>>) = 1 /\ DOMAIN <<x>> = {1} /\ <<x>>[1] = x
  BY <1>1
<1>4. Len(tensors) \in Nat /\ DOMAIN tensors = 1 .. Len(tensors)
  BY DEF FactoryInv
<1>5. \A i \in DOMAIN src : src[i] \in (1 .. Len(tensors) + 1) \ {Len(tensors) + 1}
  BY <1>4
<1> QED
  BY <1>1, <1>2, <1>3, <1>5, PlainCallKeeps DEF x

LEMMA PlainWithWeightKeeps ==
  ASSUME FactoryInv, calls < MaxCalls, NEW op \in Ops \ ({"WEIGHT"} \cup NotPlain),
         NEW dims, Packed(dims), NEW x \in Handed, NEW w \in WeightShapes,
         NEW params \in Seq(Int \cup BOOLEAN),
         Return(<<Tensor(op, dims, <<x, Next1 + 1>>, params), Weight(w)>>)
  PROVE  FactoryInv'
<1> DEFINE src == <<x, Next1 + 1>>
           a == Tensor(op, dims, src, params)
           b == Weight(w)
<1>1. /\ x \in 1 .. Len(tensors) /\ Len(tensors) \in Nat /\ Next1 + 1 = Len(tensors) + 2
      /\ x \in Nat
  BY HandedAre DEF Next1
<1>2. src \in Seq(Nat) /\ DOMAIN src = 1 .. 2 /\ src[1] = x /\ src[2] = Len(tensors) + 2
  BY <1>1
<1> HIDE DEF src
<1>3. a \in Records /\ ShapeAndStrides(a) /\ a.op \notin NotPlain /\ a.src = src
  BY <1>2, FreshIsGood DEF Tensor
<1>4. b \in Records /\ ShapeAndStrides(b) /\ b.op \notin NotPlain /\ b.src = <<>>
  BY WeightIsGood DEF Good, Weight, NotPlain
<1> HIDE DEF a, b
<1>5. /\ <<a, b>> \in Seq(Records) /\ Len(<<a, b>>) = 2 /\ DOMAIN <<a, b>> = 1 .. 2
      /\ <<a, b>>[1] = a /\ <<a, b>>[2] = b
  BY <1>3, <1>4
<1>6. \A i \in DOMAIN src : src[i] \in (1 .. Len(tensors) + 2) \ {Len(tensors) + 1}
  BY <1>1, <1>2
<1>7. ASSUME NEW n \in 1 .. 2
      PROVE  /\ ShapeAndStrides(<<a, b>>[n]) /\ <<a, b>>[n].op \notin NotPlain
             /\ \A i \in DOMAIN <<a, b>>[n].src :
                  <<a, b>>[n].src[i] \in (1 .. Len(tensors) + 2) \ {Len(tensors) + n}
  <2>1. n = 1 \/ n = 2
    OBVIOUS
  <2> QED
    BY <1>3, <1>4, <1>5, <1>6, <2>1
<1>8. Return(<<a, b>>)
  BY DEF a, b, src
<1> HIDE DEF src
<1> QED
  BY <1>5, <1>7, <1>8, PlainCallKeeps

LEMMA PlaceHolderKeeps ==
  ASSUME FactoryInv, calls < MaxCalls, NEW shape \in InputShapes, PlaceHolder(shape)
  PROVE  FactoryInv'
<1>1. CASE Len(shape) > TENSOR_MAX_DIMS
  BY <1>1, ThrowKeeps DEF PlaceHolder
<1>2. CASE ~(Len(shape) > TENSOR_MAX_DIMS)
  <2>1. shape \in Shapes
    <3>1. shape \in Seq(Int) /\ shape # <<>> /\ \A i \in DOMAIN shape : shape[i] = -1 \/ shape[i] > 0
      BY ShapesHaveNoZeros
    <3>2. Len(shape) <= TENSOR_MAX_DIMS /\ DOMAIN shape = 1 .. Len(shape)
      BY <1>2, <3>1, MaxDimsIsNat
    <3> QED
      BY <3>1, <3>2 DEF Shapes
  <2>2. Packed(Padded(shape))
    BY <2>1, PaddedIsPacked
  <2>3. Return(<<Tensor("PLACEHOLDER", Padded(shape), <<>>, <<>>)>>)
    BY <1>2 DEF PlaceHolder
  <2>4. "PLACEHOLDER" \in Ops \ ({"WEIGHT"} \cup NotPlain)
    BY DEF Ops, NotPlain
  <2>5. <<>> \in Seq(Nat) /\ <<>> \in Seq(Int \cup BOOLEAN) /\ DOMAIN <<>> = {}
    OBVIOUS
  <2> QED
    BY <2>2, <2>3, <2>4, <2>5, PlainKeeps
<1> QED
  BY <1>1, <1>2

LEMMA UnaryKeeps ==
  ASSUME FactoryInv, calls < MaxCalls, NEW x \in Handed, Silu(x) \/ Sigmoid(x)
  PROVE  FactoryInv'
<1>1. x \in DOMAIN tensors /\ Packed(Dims(x)) /\ x \in Nat
  BY HandedAre
<1>2. {"SILU", "SIGMOID"} \subseteq Ops \ ({"WEIGHT"} \cup NotPlain)
  BY DEF Ops, NotPlain
<1>3. /\ <<x>> \in Seq(Nat) /\ \A i \in DOMAIN <<x>> : <<x>>[i] \in DOMAIN tensors
      /\ <<>> \in Seq(Int \cup BOOLEAN)
  BY <1>1
<1>4. CASE Silu(x)
  BY <1>1, <1>2, <1>3, <1>4, PlainKeeps DEF Silu
<1>5. CASE Sigmoid(x)
  BY <1>1, <1>2, <1>3, <1>5, PlainKeeps DEF Sigmoid
<1> QED
  BY <1>4, <1>5

LEMMA BinaryKeeps ==
  ASSUME FactoryInv, calls < MaxCalls, NEW a \in Handed, NEW b \in Handed, Add(a, b) \/ Mul(a, b)
  PROVE  FactoryInv'
<1>1. /\ a \in DOMAIN tensors /\ Packed(Dims(a)) /\ a \in Nat
      /\ b \in DOMAIN tensors /\ b \in Nat
  BY HandedAre
<1>2. {"ADD", "MUL"} \subseteq Ops \ ({"WEIGHT"} \cup NotPlain)
  BY DEF Ops, NotPlain
<1>3. /\ <<a, b>> \in Seq(Nat) /\ \A i \in DOMAIN <<a, b>> : <<a, b>>[i] \in DOMAIN tensors
      /\ <<>> \in Seq(Int \cup BOOLEAN)
  BY <1>1
<1>4. CASE Return(<<Tensor("ADD", Dims(a), <<a, b>>, <<>>)>>)
  BY <1>1, <1>2, <1>3, <1>4, PlainKeeps
<1>5. CASE Return(<<Tensor("MUL", Dims(a), <<a, b>>, <<>>)>>)
  BY <1>1, <1>2, <1>3, <1>5, PlainKeeps
<1>6. CASE Throw
  BY <1>6, ThrowKeeps
<1> QED
  BY <1>4, <1>5, <1>6 DEF Add, Mul

LEMMA NarrowKeeps ==
  ASSUME FactoryInv, calls < MaxCalls, NEW x \in Handed, NEW dim \in 0 .. TENSOR_MAX_DIMS - 1,
         NEW start \in {0, 1}, NEW size \in InnerSizes, Narrow(x, dim, start, size)
  PROVE  FactoryInv'
<1>1. x \in DOMAIN tensors /\ Packed(Dims(x)) /\ x \in Nat
  BY HandedAre
<1>2. /\ dim + 1 \in Dim /\ dim + 1 <= LastUsed(Dims(x))
      /\ size \in Int /\ size > 0
  <2>1. LastUsed(Dims(x)) \in Nat
    BY <1>1, LastUsedOfPacked, MaxDimsIsNat DEF Dim
  <2> QED
    BY <2>1, InnerSizesArePositive, MaxDimsIsNat DEF Narrow, Dim
<1>3. Packed([Dims(x) EXCEPT ![dim + 1] = size])
  BY <1>1, <1>2, ChangedIsPacked
<1>4. "NARROW" \in Ops \ ({"WEIGHT"} \cup NotPlain)
  BY DEF Ops, NotPlain
<1>5. <<x>> \in Seq(Nat) /\ \A i \in DOMAIN <<x>> : <<x>>[i] \in DOMAIN tensors
  BY <1>1
<1>6. <<dim, start, size>> \in Seq(Int \cup BOOLEAN)
  <2>1. dim \in Int \cup BOOLEAN /\ start \in Int \cup BOOLEAN /\ size \in Int \cup BOOLEAN
    BY <1>2
  <2> QED
    BY <2>1
<1>7. Return(<<Tensor("NARROW", [Dims(x) EXCEPT ![dim + 1] = size], <<x>>,
                     <<dim, start, size>>)>>)
  BY DEF Narrow
<1> QED
  BY <1>3, <1>4, <1>5, <1>6, <1>7, PlainKeeps

LEMMA EmbeddingLookupKeeps ==
  ASSUME FactoryInv, calls < MaxCalls, NEW ids \in Handed, NEW w \in WeightShapes,
         NEW transpose \in BOOLEAN, EmbeddingLookup(ids, w, transpose)
  PROVE  FactoryInv'
<1> DEFINE d == Dims(ids)
           h == IF transpose THEN w[1] ELSE w[2]
           s == <<d[1], d[2], h>>
<1>1. Packed(d) /\ LastUsed(d) = 2
  BY HandedAre DEF EmbeddingLookup
<1>2. h \in Nat \ {0}
  BY WeightIsGood
<1>3. /\ d[1] \in Int /\ (d[1] = -1 \/ d[1] > 0)
      /\ d[2] \in Int /\ (d[2] = -1 \/ d[2] > 0)
  <2>1. 1 \in Dim /\ 2 \in Dim
    BY MaxDimsIsNat DEF Dim
  <2>2. \A i \in Dim : d[i] # 0 <=> i <= 2
    BY <1>1, LastUsedOfPacked
  <2> QED
    BY <1>1, <2>1, <2>2 DEF Packed
<1> HIDE DEF d, h
<1>4. s \in Shapes
  <2>1. s \in Seq(Int) /\ Len(s) = 3 /\ s # <<>>
    BY <1>2, <1>3
  <2>2. \A i \in 1 .. 3 : s[i] = -1 \/ s[i] > 0
    <3>1. s[1] = d[1] /\ s[2] = d[2] /\ s[3] = h
      OBVIOUS
    <3>2. \A i \in 1 .. 3 : i = 1 \/ i = 2 \/ i = 3
      OBVIOUS
    <3> HIDE DEF s
    <3> QED
      BY <1>2, <1>3, <3>1, <3>2
  <2> HIDE DEF s
  <2> QED
    BY <2>1, <2>2, MaxDimsIsNat DEF Shapes
<1>5. Packed(Padded(s))
  BY <1>4, PaddedIsPacked
<1>6. "EMBEDDING" \in Ops \ ({"WEIGHT"} \cup NotPlain)
  BY DEF Ops, NotPlain
<1>7. <<transpose>> \in Seq(Int \cup BOOLEAN)
  OBVIOUS
<1>8. Return(<<Tensor("EMBEDDING", Padded(s), <<ids, Next1 + 1>>, <<transpose>>), Weight(w)>>)
  BY DEF EmbeddingLookup, d, h
<1> HIDE DEF s
<1> QED
  BY <1>5, <1>6, <1>7, <1>8, PlainWithWeightKeeps

LEMMA NormKeeps ==
  ASSUME FactoryInv, calls < MaxCalls, NEW x \in Handed, NEW w \in WeightShapes,
         RmsNorm(x, w) \/ CausalConv1d(x, w)
  PROVE  FactoryInv'
<1>1. Packed(Dims(x))
  BY HandedAre
<1>2. {"RMS_NORM", "CAUSAL_CONV1D"} \subseteq Ops \ ({"WEIGHT"} \cup NotPlain)
  BY DEF Ops, NotPlain
<1>3. <<>> \in Seq(Int \cup BOOLEAN)
  OBVIOUS
<1>4. CASE RmsNorm(x, w)
  BY <1>1, <1>2, <1>3, <1>4, PlainWithWeightKeeps DEF RmsNorm
<1>5. CASE CausalConv1d(x, w)
  BY <1>1, <1>2, <1>3, <1>5, PlainWithWeightKeeps DEF CausalConv1d
<1> QED
  BY <1>4, <1>5

(* Two tensors whose sources were there before. *)
LEMMA PlainPairKeeps ==
  ASSUME FactoryInv, calls < MaxCalls, NEW a \in Records, NEW b \in Records,
         ShapeAndStrides(a), ShapeAndStrides(b), a.op \notin NotPlain, b.op \notin NotPlain,
         \A i \in DOMAIN a.src : a.src[i] \in DOMAIN tensors,
         \A i \in DOMAIN b.src : b.src[i] \in DOMAIN tensors,
         Return(<<a, b>>)
  PROVE  FactoryInv'
<1>1. Len(tensors) \in Nat /\ DOMAIN tensors = 1 .. Len(tensors)
  BY DEF FactoryInv
<1>2. /\ <<a, b>> \in Seq(Records) /\ Len(<<a, b>>) = 2 /\ DOMAIN <<a, b>> = 1 .. 2
      /\ <<a, b>>[1] = a /\ <<a, b>>[2] = b
  OBVIOUS
<1>3. \A k \in DOMAIN tensors, n \in 1 .. 2 : k \in (1 .. Len(tensors) + 2) \ {Len(tensors) + n}
  BY <1>1
<1>4. ASSUME NEW n \in 1 .. 2
      PROVE  /\ ShapeAndStrides(<<a, b>>[n]) /\ <<a, b>>[n].op \notin NotPlain
             /\ \A i \in DOMAIN <<a, b>>[n].src :
                  <<a, b>>[n].src[i] \in (1 .. Len(tensors) + 2) \ {Len(tensors) + n}
  <2>1. n = 1 \/ n = 2
    OBVIOUS
  <2> QED
    BY <1>2, <1>3, <2>1
<1> QED
  BY <1>2, <1>4, PlainCallKeeps

LEMMA RopeCacheKeeps ==
  ASSUME FactoryInv, calls < MaxCalls, NEW m \in InnerSizes, NEW h \in InnerSizes, RopeCache(m, h)
  PROVE  FactoryInv'
<1> DEFINE s == <<m, h>>
           cache == Tensor("ROPE_CACHE", Padded(s), <<>>, <<h, m>>)
<1>1. m \in Nat \ {0} /\ h \in Nat \ {0}
  BY InnerSizesArePositive
<1>2. s \in Shapes
  <2>1. s \in Seq(Int) /\ Len(s) = 2 /\ s # <<>>
    BY <1>1
  <2>2. \A i \in 1 .. 2 : s[i] = -1 \/ s[i] > 0
    <3>1. s[1] = m /\ s[2] = h
      OBVIOUS
    <3>2. \A i \in 1 .. 2 : i = 1 \/ i = 2
      OBVIOUS
    <3> HIDE DEF s
    <3> QED
      BY <1>1, <3>1, <3>2
  <2>3. Len(s) <= TENSOR_MAX_DIMS
    BY <2>1, MaxDimsIsNat
  <2> HIDE DEF s
  <2> QED
    BY <2>1, <2>2, <2>3 DEF Shapes
<1>3. "ROPE_CACHE" \in Ops /\ "ROPE_CACHE" \notin NotPlain
  BY DEF Ops, NotPlain
<1>4. <<>> \in Seq(Nat) /\ <<h, m>> \in Seq(Int \cup BOOLEAN)
  <2>1. h \in Int \cup BOOLEAN /\ m \in Int \cup BOOLEAN
    BY <1>1
  <2> QED
    BY <2>1
<1>5. Packed(Padded(s))
  BY <1>2, PaddedIsPacked
<1> HIDE DEF s
<1>6. /\ cache \in Records /\ ShapeAndStrides(cache)
      /\ cache.op = "ROPE_CACHE" /\ cache.src = <<>>
  BY <1>3, <1>4, <1>5, FreshIsGood DEF Tensor
<1>7. Return(<<cache, cache>>)
  BY DEF RopeCache, s
<1> HIDE DEF cache
<1> QED
  BY <1>3, <1>6, <1>7, PlainPairKeeps

(* Copied strides are the strides of the copied dims. *)
LEMMA LikeFirstIsFresh ==
  ASSUME FactoryInv, NEW x \in Handed, NEW op, NEW src, NEW params
  PROVE  LikeFirst(op, x, src, params) = Tensor(op, Dims(x), src, params)
BY HandedAre DEF LikeFirst, Tensor

LEMMA AttentionKeeps ==
  ASSUME FactoryInv, calls < MaxCalls, NEW q \in Handed, NEW k \in Handed, NEW v \in Handed,
         NEW groups \in {0, 1}, ScaledDotProductAttention(q, k, v, groups)
  PROVE  FactoryInv'
<1> DEFINE n_heads == Dims(q)[2]
           n_kv_heads == Dims(k)[2]
           head == Dims(q)[TENSOR_MAX_DIMS]
           kv == IF groups < 1 THEN n_heads \div n_kv_heads ELSE groups
<1>1. CASE Throw
  BY <1>1, ThrowKeeps
<1>2. CASE Return(<<LikeFirst("SDPA", q, <<q, k, v>>, <<head, kv>>)>>)
  <2>1. /\ q \in DOMAIN tensors /\ q \in Nat /\ Packed(Dims(q))
        /\ k \in DOMAIN tensors /\ k \in Nat /\ Packed(Dims(k))
        /\ v \in DOMAIN tensors /\ v \in Nat
    BY HandedAre
  <2>2. head \in Int /\ n_heads \in Int /\ n_kv_heads \in Int /\ n_kv_heads > 0
    <3>1. 2 \in Dim /\ TENSOR_MAX_DIMS \in Dim
      BY MaxDimsIsNat DEF Dim
    <3> QED
      BY <2>1, <3>1 DEF ScaledDotProductAttention, Packed
  <2>3. kv \in Int
    BY <2>2
  <2> HIDE DEF head, kv
  <2>4. <<head, kv>> \in Seq(Int \cup BOOLEAN)
    <3>1. head \in Int \cup BOOLEAN /\ kv \in Int \cup BOOLEAN
      BY <2>2, <2>3
    <3> QED
      BY <3>1
  <2>5. /\ <<q, k, v>> \in Seq(Nat)
        /\ \A i \in DOMAIN <<q, k, v>> : <<q, k, v>>[i] \in DOMAIN tensors
    BY <2>1
  <2>6. "SDPA" \in Ops \ ({"WEIGHT"} \cup NotPlain)
    BY DEF Ops, NotPlain
  <2>7. Return(<<Tensor("SDPA", Dims(q), <<q, k, v>>, <<head, kv>>)>>)
    BY <1>2, LikeFirstIsFresh
  <2> QED
    BY <2>1, <2>4, <2>5, <2>6, <2>7, PlainKeeps
<1> QED
  BY <1>1, <1>2 DEF ScaledDotProductAttention

LEMMA ApplyRopeKeeps ==
  ASSUME FactoryInv, calls < MaxCalls, NEW q \in Handed, NEW k \in Handed,
         NEW cos \in Handed, NEW sin \in Handed, ApplyRope(q, k, cos, sin)
  PROVE  FactoryInv'
<1> DEFINE head_dim == HeadDim(Dims(q))
           rope_dim == Dims(cos)[2]
           params == <<head_dim, rope_dim>>
           out(x) == LikeFirst("APPLY_ROPE", x, <<x, cos, sin>>, params)
<1>1. CASE Throw
  BY <1>1, ThrowKeeps
<1>2. CASE Return(<<out(q), out(k)>>)
  <2>1. \A x \in Handed : x \in DOMAIN tensors /\ x \in Nat /\ Packed(Dims(x))
    BY HandedAre
  <2>2. rope_dim \in Int
    BY <2>1, MaxDimsIsNat DEF Packed, Dim
  <2>3. head_dim \in Int
    <3> DEFINE positive == {i \in Dim : Dims(q)[i] > 0}
               last == CHOOSE i \in positive : \A j \in positive : j <= i
    <3>1. CASE positive = {}
      BY <3>1 DEF HeadDim
    <3>2. CASE positive # {}
      <4>1. \E i \in positive : \A j \in positive : j <= i
        <5>1. positive \in SUBSET (1 .. TENSOR_MAX_DIMS)
          BY DEF Dim
        <5> HIDE DEF positive
        <5> QED
          BY <3>2, <5>1, GreatestMember, MaxDimsIsNat
      <4>2. last \in positive
        BY <4>1
      <4>3. head_dim = Dims(q)[last]
        BY <3>2 DEF HeadDim
      <4>4. last \in Dim
        BY <4>2
      <4> HIDE DEF last
      <4> QED
        BY <2>1, <4>3, <4>4 DEF Packed
    <3> QED
      BY <3>1, <3>2
  <2> HIDE DEF head_dim, rope_dim
  <2>4. params \in Seq(Int \cup BOOLEAN)
    <3>1. head_dim \in Int \cup BOOLEAN /\ rope_dim \in Int \cup BOOLEAN
      BY <2>2, <2>3
    <3> QED
      BY <3>1
  <2> HIDE DEF params
  <2>5. "APPLY_ROPE" \in Ops /\ "APPLY_ROPE" \notin NotPlain
    BY DEF Ops, NotPlain
  <2>6. ASSUME NEW x \in Handed
        PROVE  /\ out(x) \in Records /\ ShapeAndStrides(out(x)) /\ out(x).op \notin NotPlain
               /\ \A i \in DOMAIN out(x).src : out(x).src[i] \in DOMAIN tensors
    <3>1. out(x) = Tensor("APPLY_ROPE", Dims(x), <<x, cos, sin>>, params)
      BY LikeFirstIsFresh
    <3>2. <<x, cos, sin>> \in Seq(Nat)
      BY <2>1
    <3>3. out(x) \in Records /\ ShapeAndStrides(out(x))
      BY <2>1, <2>4, <2>5, <3>1, <3>2, FreshIsGood
    <3>4. out(x).op = "APPLY_ROPE" /\ out(x).src = <<x, cos, sin>>
      BY <3>1 DEF Tensor
    <3>5. \A i \in DOMAIN <<x, cos, sin>> : <<x, cos, sin>>[i] \in DOMAIN tensors
      BY <2>1
    <3> QED
      BY <2>5, <3>3, <3>4, <3>5
  <2> HIDE DEF out
  <2> QED
    BY <1>2, <2>6, PlainPairKeeps
<1> QED
  BY <1>1, <1>2 DEF ApplyRope

LEMMA SsmScanKeeps ==
  ASSUME FactoryInv, calls < MaxCalls, NEW x \in Handed, NEW w \in WeightShapes,
         NEW size \in InnerSizes \cup {0}, SsmScan(x, w, size)
  PROVE  FactoryInv'
<1> DEFINE dims == WithInnerSize(Dims(x), size)
           src == <<x, Next1 + 1, Next1 + 2, Next1 + 3, Next1 + 4>>
           a == Tensor("SSM_SCAN", dims, src, <<size>>)
           b == Weight(w)
           new == <<a, b, b, b, b>>
<1>1. /\ x \in 1 .. Len(tensors) /\ Len(tensors) \in Nat /\ x \in Nat
      /\ Next1 = Len(tensors) + 1 /\ Packed(Dims(x))
  BY HandedAre DEF Next1
<1>2. Packed(dims)
  <2>1. LastUsed(Dims(x)) \in Dim /\ LastUsed(Dims(x)) <= LastUsed(Dims(x))
    BY <1>1, LastUsedOfPacked, MaxDimsIsNat DEF Dim
  <2>2. size \in Int
    BY InnerSizesArePositive
  <2>3. CASE size > 0
    BY <1>1, <2>1, <2>2, <2>3, ChangedIsPacked DEF WithInnerSize
  <2>4. CASE ~(size > 0)
    BY <1>1, <2>4 DEF WithInnerSize
  <2> QED
    BY <2>3, <2>4
<1>3. /\ src \in Seq(Nat)
      /\ \A i \in DOMAIN src : src[i] \in (1 .. Len(tensors) + 5) \ {Len(tensors) + 1}
  <2>1. /\ \A i \in DOMAIN src : i = 1 \/ i = 2 \/ i = 3 \/ i = 4 \/ i = 5
        /\ src[1] = x /\ src[2] = Len(tensors) + 2 /\ src[3] = Len(tensors) + 3
        /\ src[4] = Len(tensors) + 4 /\ src[5] = Len(tensors) + 5
    BY <1>1
  <2>2. src \in Seq(Nat)
    BY <1>1
  <2>3. \A v \in {x, Len(tensors) + 2, Len(tensors) + 3, Len(tensors) + 4, Len(tensors) + 5} :
          v \in (1 .. Len(tensors) + 5) \ {Len(tensors) + 1}
    BY <1>1 DEF Handed
  <2> HIDE DEF src
  <2> QED
    BY <2>1, <2>2, <2>3
<1> HIDE DEF dims, src
<1>4. "SSM_SCAN" \in Ops /\ "SSM_SCAN" \notin NotPlain /\ "WEIGHT" \notin NotPlain
  BY DEF Ops, NotPlain
<1>5. <<size>> \in Seq(Int \cup BOOLEAN)
  <2>1. size \in Int \cup BOOLEAN
    BY InnerSizesArePositive
  <2> QED
    BY <2>1
<1>6. a \in Records /\ ShapeAndStrides(a) /\ a.op = "SSM_SCAN" /\ a.src = src
  BY <1>2, <1>3, <1>4, <1>5, FreshIsGood DEF Tensor
<1>7. b \in Records /\ ShapeAndStrides(b) /\ b.op = "WEIGHT" /\ b.src = <<>>
  BY WeightIsGood DEF Good, Weight
<1>8. Return(new)
  BY DEF SsmScan, dims, src
<1> HIDE DEF a, b
<1>9. /\ new \in Seq(Records) /\ Len(new) = 5 /\ DOMAIN new = 1 .. 5
      /\ new[1] = a /\ \A n \in 2 .. 5 : new[n] = b
  <2>1. \A n \in 2 .. 5 : n = 2 \/ n = 3 \/ n = 4 \/ n = 5
    OBVIOUS
  <2> QED
    BY <1>6, <1>7, <2>1
<1> HIDE DEF new
<1>10. ASSUME NEW n \in DOMAIN new
       PROVE  /\ ShapeAndStrides(new[n]) /\ new[n].op \notin NotPlain
              /\ \A i \in DOMAIN new[n].src :
                   new[n].src[i] \in (1 .. Len(tensors) + Len(new)) \ {Len(tensors) + n}
  <2>1. n = 1 \/ n \in 2 .. 5
    BY <1>9
  <2>2. CASE n = 1
    BY <1>3, <1>4, <1>6, <1>9, <2>2
  <2>3. CASE n \in 2 .. 5
    BY <1>4, <1>7, <1>9, <2>3
  <2> QED
    BY <2>1, <2>2, <2>3
<1> QED
  BY <1>8, <1>9, <1>10, PlainCallKeeps

-----------------------------------------------------------------------------
(* linear: the weight it hands out with the output is the one it checked   *)
(* the input against.                                                      *)
LEMMA LinearKeeps ==
  ASSUME FactoryInv, calls < MaxCalls, NEW x \in Handed, NEW w \in WeightShapes,
         NEW transpose \in BOOLEAN, Linear(x, w, transpose)
  PROVE  FactoryInv'
<1> DEFINE d == Dims(x)
           r == LastUsed(d)
           in_out == WeightInOut(w, transpose)
           dims == [d EXCEPT ![r] = in_out[2]]
           src == <<x, Next1 + 1>>
           a == Tensor("LINEAR", dims, src, <<transpose>>)
           b == Weight(w)
           T == tensors \o <<a, b>>
<1>1. CASE ~LinearFits(d, in_out[1])
  BY <1>1, ThrowKeeps DEF Linear
<1>2. CASE LinearFits(d, in_out[1])
  <2>1. /\ x \in 1 .. Len(tensors) /\ Len(tensors) \in Nat /\ x \in Nat
        /\ Next1 + 1 = Len(tensors) + 2 /\ Packed(d) /\ d \in [Dim -> Int]
    BY HandedAre DEF Next1
  <2>2. /\ in_out[1] = IF transpose THEN w[2] ELSE w[1]
        /\ in_out[2] = IF transpose THEN w[1] ELSE w[2]
        /\ in_out[1] \in Nat \ {0} /\ in_out[2] \in Nat \ {0}
    <3>1. w[1] \in Nat \ {0} /\ w[2] \in Nat \ {0}
      BY WeightIsGood
    <3> QED
      BY <3>1 DEF WeightInOut
  <2>3. r \in Dim /\ r <= r /\ d[r] \in Int /\ (d[r] = -1 \/ d[r] > 0)
    <3>1. r \in Dim /\ \A i \in Dim : d[i] # 0 <=> i <= r
      BY <2>1, LastUsedOfPacked
    <3> HIDE DEF r
    <3>2. r <= r
      BY <3>1, MaxDimsIsNat DEF Dim
    <3> QED
      BY <2>1, <3>1, <3>2 DEF Packed
  <2>4. Return(<<a, b>>)
    BY <1>2 DEF Linear
  <2>5. Packed(dims) /\ LastUsed(dims) = r /\ dims[r] = in_out[2]
    <3>1. in_out[2] \in Int /\ (in_out[2] = -1 \/ in_out[2] > 0)
      BY <2>2
    <3> HIDE DEF in_out
    <3>2. dims[r] = in_out[2]
      BY <2>1, <2>3
    <3>3. r = LastUsed(d) /\ r \in Dim /\ r <= LastUsed(d)
      BY <2>3
    <3>4. Packed(dims) /\ LastUsed(dims) = LastUsed(d)
      BY <2>1, <3>1, <3>3, ChangedIsPacked
    <3> QED
      BY <3>2, <3>4
  <2>6. d[r] \in {-1, in_out[1]}
    BY <1>2, <2>2, <2>3 DEF LinearFits
  <2> HIDE DEF in_out, dims
  <2>7. src \in Seq(Nat) /\ DOMAIN src = 1 .. 2 /\ src[1] = x /\ src[2] = Len(tensors) + 2
    BY <2>1
  <2> HIDE DEF src
  <2>8. "LINEAR" \in Ops /\ <<transpose>> \in Seq(Int \cup BOOLEAN) /\ <<transpose>>[1] = transpose
    BY DEF Ops
  <2>9. /\ a \in Records /\ ShapeAndStrides(a)
        /\ a.op = "LINEAR" /\ a.src = src /\ a.dims = dims /\ a.params[1] = transpose
    <3>1. a \in Records /\ ShapeAndStrides(a)
      BY <2>5, <2>7, <2>8, FreshIsGood
    <3> QED
      BY <2>8, <3>1 DEF Tensor
  <2>10. /\ b \in Records /\ b.dims[1] = w[1] /\ b.dims[2] = w[2]
         /\ \A t, S : Good(b, t, S)
    BY WeightIsGood
  <2> HIDE DEF a, b
  <2>11. /\ <<a, b>> \in Seq(Records) /\ Len(<<a, b>>) = 2 /\ DOMAIN <<a, b>> = 1 .. 2
         /\ <<a, b>>[1] = a /\ <<a, b>>[2] = b
    BY <2>9, <2>10
  <2>12. /\ DOMAIN T = 1 .. Len(tensors) + 2
         /\ T[x] = tensors[x] /\ T[Len(tensors) + 2] = b
    <3>1. /\ T \in Seq(Records) /\ Len(T) = Len(tensors) + 2
          /\ \A i \in 1 .. Len(tensors) + 2 :
               T[i] = IF i <= Len(tensors) THEN tensors[i] ELSE <<a, b>>[i - Len(tensors)]
      BY <2>11, ConcatProperties DEF FactoryInv
    <3>2. /\ x \in 1 .. Len(tensors) + 2 /\ x <= Len(tensors)
          /\ Len(tensors) + 2 \in 1 .. Len(tensors) + 2
          /\ ~(Len(tensors) + 2 <= Len(tensors))
          /\ (Len(tensors) + 2) - Len(tensors) = 2
      BY <2>1
    <3> HIDE DEF T
    <3> QED
      BY <2>11, <3>1, <3>2
  <2> HIDE DEF T
  <2>13. Good(a, Len(tensors) + 1, T)
    <3>1. SourcesIn(a, Len(tensors) + 1, T)
      <4>1. \A i \in 1 .. 2 : i = 1 \/ i = 2
        OBVIOUS
      <4> QED
        BY <2>1, <2>7, <2>9, <2>12, <4>1 DEF SourcesIn
    <3>2. LinearMatches(a, T)
      <4>1. T[a.src[1]].dims = d /\ T[a.src[2]] = b /\ 1 \in DOMAIN a.src /\ 2 \in DOMAIN a.src
        BY <2>7, <2>9, <2>12 DEF Dims
      <4> QED
        BY <2>2, <2>5, <2>6, <2>9, <2>10, <4>1 DEF LinearMatches
    <3>3. ViewKeepsElements(a, T)
      BY <2>9 DEF ViewKeepsElements
    <3> QED
      BY <2>9, <3>1, <3>2, <3>3 DEF Good
  <2>14. \A n \in DOMAIN <<a, b>> : Good(<<a, b>>[n], Len(tensors) + n, T)
    <3>1. ASSUME NEW n \in DOMAIN <<a, b>> PROVE Good(<<a, b>>[n], Len(tensors) + n, T)
      <4>1. n = 1 \/ n = 2
        BY <2>11
      <4> QED
        BY <2>10, <2>11, <2>13, <4>1
    <3> QED
      BY <3>1
  <2> QED
    BY <2>4, <2>11, <2>14, ReturnKeeps DEF T
<1> QED
  BY <1>1, <1>2

-----------------------------------------------------------------------------
(* reshape and permute: a view whose shape has the elements of its source. *)
ViewShape(s, dims) == s \in Shapes /\ (~HasDynamic(dims) => StaticProduct(s) = Numel(dims))

LEMMA ViewIsGood ==
  ASSUME NEW op \in {"RESHAPE", "PERMUTE"}, NEW dims, NEW s, ViewShape(s, dims), NEW x \in Nat,
         NEW params \in Seq(Int \cup BOOLEAN)
  PROVE  /\ Tensor(op, Padded(s), <<x>>, params) \in Records
         /\ Packed(Padded(s))
         /\ \A T, t : x \in DOMAIN T \ {t} /\ T[x].dims = dims
                        => Good(Tensor(op, Padded(s), <<x>>, params), t, T)
<1> DEFINE v == Tensor(op, Padded(s), <<x>>, params)
<1>1. s \in Shapes /\ (~HasDynamic(dims) => Numel(Padded(s)) = Numel(dims))
  BY NumelOfPadded DEF ViewShape
<1>2. Packed(Padded(s))
  BY <1>1, PaddedIsPacked
<1>3. op \in Ops /\ op # "WEIGHT" /\ op # "LINEAR"
  BY DEF Ops
<1>4. <<x>> \in Seq(Nat) /\ DOMAIN <<x>> = {1} /\ <<x>>[1] = x
  OBVIOUS
<1>5. v \in Records /\ ShapeAndStrides(v)
  BY <1>2, <1>3, <1>4, FreshIsGood
<1>6. v.op = op /\ v.dims = Padded(s) /\ v.src = <<x>>
  BY DEF Tensor
<1> HIDE DEF v
<1>7. ASSUME NEW T, NEW t, x \in DOMAIN T \ {t}, T[x].dims = dims
      PROVE  Good(v, t, T)
  <2>1. SourcesIn(v, t, T)
    BY <1>4, <1>6, <1>7 DEF SourcesIn
  <2>2. ViewKeepsElements(v, T)
    BY <1>1, <1>4, <1>6, <1>7 DEF ViewKeepsElements
  <2>3. LinearMatches(v, T)
    BY <1>3, <1>6 DEF LinearMatches
  <2> QED
    BY <1>5, <2>1, <2>2, <2>3 DEF Good
<1> QED
  BY <1>2, <1>5, <1>7 DEF v

LEMMA ViewKeeps ==
  ASSUME FactoryInv, calls < MaxCalls, NEW x \in Handed, NEW op \in {"RESHAPE", "PERMUTE"},
         NEW s, ViewShape(s, Dims(x)), NEW params \in Seq(Int \cup BOOLEAN),
         Return(<<Tensor(op, Padded(s), <<x>>, params)>>)
  PROVE  FactoryInv'
<1> DEFINE v == Tensor(op, Padded(s), <<x>>, params)
           T == tensors \o <<v>>
<1>1. x \in 1 .. Len(tensors) /\ x \in Nat /\ Len(tensors) \in Nat
  BY HandedAre
<1>2. /\ v \in Records
      /\ \A S, t : x \in DOMAIN S \ {t} /\ S[x].dims = Dims(x) => Good(v, t, S)
  BY <1>1, ViewIsGood
<1>3. Return(<<v>>)
  OBVIOUS
<1> HIDE DEF v
<1>4. <<v>> \in Seq(Records) /\ Len(<<v>>) = 1 /\ DOMAIN <<v>> = {1} /\ <<v>>[1] = v
  BY <1>2
<1>5. x \in DOMAIN T \ {Len(tensors) + 1} /\ T[x].dims = Dims(x)
  <2>1. /\ DOMAIN T = 1 .. Len(tensors) + 1
        /\ \A i \in 1 .. Len(tensors) : T[i] = tensors[i]
    BY <1>4, ConcatProperties DEF FactoryInv
  <2> HIDE DEF T
  <2> QED
    BY <1>1, <2>1 DEF Dims
<1>6. Good(v, Len(tensors) + 1, T)
  BY <1>2, <1>5
<1>7. \A n \in DOMAIN <<v>> : Good(<<v>>[n], Len(tensors) + n, T)
  BY <1>4, <1>6
<1> QED
  BY <1>3, <1>4, <1>7, ReturnKeeps

(* A view of a view: the second has the first one, new too, as source.     *)
LEMMA ViewOfViewKeeps ==
  ASSUME FactoryInv, calls < MaxCalls, NEW x \in Handed,
         NEW op \in {"RESHAPE", "PERMUTE"}, NEW op2 \in {"RESHAPE", "PERMUTE"},
         NEW s, ViewShape(s, Dims(x)), NEW params \in Seq(Int \cup BOOLEAN),
         NEW s2, ViewShape(s2, Padded(s)), NEW params2 \in Seq(Int \cup BOOLEAN),
         Return(<<Tensor(op, Padded(s), <<x>>, params),
                  Tensor(op2, Padded(s2), <<Next1>>, params2)>>)
  PROVE  FactoryInv'
<1> DEFINE v == Tensor(op, Padded(s), <<x>>, params)
           u == Tensor(op2, Padded(s2), <<Next1>>, params2)
           new == <<v, u>>
           T == tensors \o new
<1>1. /\ x \in 1 .. Len(tensors) /\ x \in Nat /\ Len(tensors) \in Nat
      /\ Next1 = Len(tensors) + 1 /\ Next1 \in Nat
  BY HandedAre DEF Next1
<1>2. /\ v \in Records /\ v.dims = Padded(s)
      /\ \A S, t : x \in DOMAIN S \ {t} /\ S[x].dims = Dims(x) => Good(v, t, S)
  BY <1>1, ViewIsGood DEF Tensor
<1>3. /\ u \in Records
      /\ \A S, t : Next1 \in DOMAIN S \ {t} /\ S[Next1].dims = Padded(s) => Good(u, t, S)
  BY <1>1, ViewIsGood
<1>4. Return(new)
  OBVIOUS
<1> HIDE DEF v, u
<1>5. /\ new \in Seq(Records) /\ Len(new) = 2 /\ DOMAIN new = {1, 2}
      /\ new[1] = v /\ new[2] = u
  BY <1>2, <1>3
<1> HIDE DEF new
<1>6. /\ x \in DOMAIN T \ {Len(tensors) + 1} /\ T[x].dims = Dims(x)
      /\ Next1 \in DOMAIN T \ {Len(tensors) + 2} /\ T[Next1].dims = Padded(s)
  <2>1. /\ DOMAIN T = 1 .. Len(tensors) + 2
        /\ \A i \in 1 .. Len(tensors) + 2 :
             T[i] = IF i <= Len(tensors) THEN tensors[i] ELSE new[i - Len(tensors)]
    <3>1. /\ T \in Seq(Records) /\ Len(T) = Len(tensors) + Len(new)
          /\ \A i \in 1 .. Len(T) :
               T[i] = IF i <= Len(tensors) THEN tensors[i] ELSE new[i - Len(tensors)]
      <4>1. tensors \in Seq(Records) /\ new \in Seq(Records)
        BY <1>5 DEF FactoryInv
      <4> QED
        BY <4>1, ConcatProperties
    <3> HIDE DEF T
    <3> QED
      BY <1>5, <3>1
  <2> HIDE DEF T
  <2>2. /\ x \in 1 .. Len(tensors) + 2 /\ x <= Len(tensors)
        /\ Next1 \in 1 .. Len(tensors) + 2 /\ ~(Next1 <= Len(tensors))
        /\ Next1 - Len(tensors) = 1 /\ Next1 # Len(tensors) + 2 /\ x # Len(tensors) + 1
    BY <1>1
  <2> QED
    BY <1>2, <1>5, <2>1, <2>2 DEF Dims
<1>7. Good(v, Len(tensors) + 1, T) /\ Good(u, Len(tensors) + 2, T)
  BY <1>2, <1>3, <1>6
<1>8. \A n \in DOMAIN new : Good(new[n], Len(tensors) + n, T)
  BY <1>5, <1>7
<1> QED
  BY <1>4, <1>5, <1>8, ReturnKeeps

LEMMA ReshapeIsView ==
  ASSUME NEW dims, Packed(dims), NEW shape \in NewShapes, ReshapeFits(dims, shape), NEW x
  PROVE  /\ ViewShape(Inferred(dims, shape), dims)
         /\ Reshaped(x, dims, shape)
              = Tensor("RESHAPE", Padded(Inferred(dims, shape)), <<x>>, <<>>)
         /\ Reshaped(x, dims, shape).dims = Padded(Inferred(dims, shape))
         /\ <<>> \in Seq(Int \cup BOOLEAN)
<1>1. shape \in Shapes
  BY ShapesHaveNoZeros, NewShapesFit DEF Shapes
<1>2. ViewShape(Inferred(dims, shape), dims)
  BY <1>1, InferredIsShape DEF ViewShape
<1> QED
  BY <1>2 DEF Reshaped, Tensor

LEMMA PermuteIsView ==
  ASSUME NEW dims, Packed(dims), NEW perm \in Perms, PermuteFits(dims, perm), NEW x
  PROVE  /\ ViewShape(PermutedShape(dims, perm), dims)
         /\ Permuted(x, dims, perm)
              = Tensor("PERMUTE", Padded(PermutedShape(dims, perm)), <<x>>, perm)
         /\ Permuted(x, dims, perm).dims = Padded(PermutedShape(dims, perm))
         /\ perm \in Seq(Int \cup BOOLEAN)
<1>1. ViewShape(PermutedShape(dims, perm), dims)
  BY PermutedIsShape DEF ViewShape
<1>2. perm \in Seq(Int \cup BOOLEAN)
  <2>1. perm \in Seq(Nat)
    BY PermsArePermutations
  <2> QED
    BY <2>1
<1> QED
  BY <1>1, <1>2 DEF Permuted, PermutedShape, Tensor

LEMMA ReshapeKeeps ==
  ASSUME FactoryInv, calls < MaxCalls, NEW x \in Handed, NEW shape \in NewShapes,
         Reshape(x, shape)
  PROVE  FactoryInv'
<1>1. Packed(Dims(x))
  BY HandedAre
<1>2. CASE ~ReshapeFits(Dims(x), shape)
  BY <1>2, ThrowKeeps DEF Reshape
<1>3. CASE ReshapeFits(Dims(x), shape)
  <2>1. Return(<<Reshaped(x, Dims(x), shape)>>)
    BY <1>3 DEF Reshape
  <2> QED
    BY <1>1, <1>3, <2>1, ReshapeIsView, ViewKeeps
<1> QED
  BY <1>2, <1>3

LEMMA PermuteKeeps ==
  ASSUME FactoryInv, calls < MaxCalls, NEW x \in Handed, NEW perm \in Perms,
         Permute(x, perm)
  PROVE  FactoryInv'
<1>1. Packed(Dims(x))
  BY HandedAre
<1>2. CASE ~PermuteFits(Dims(x), perm)
  BY <1>2, ThrowKeeps DEF Permute
<1>3. CASE PermuteFits(Dims(x), perm)
  <2> DEFINE s == PermutedShape(Dims(x), perm)
  <2>1. Return(<<Permuted(x, Dims(x), perm)>>)
    BY <1>3 DEF Permute
  <2>2. /\ ViewShape(s, Dims(x)) /\ perm \in Seq(Int \cup BOOLEAN)
        /\ Permuted(x, Dims(x), perm) = Tensor("PERMUTE", Padded(s), <<x>>, perm)
    BY <1>1, <1>3, PermuteIsView
  <2> HIDE DEF s
  <2> QED
    BY <2>1, <2>2, ViewKeeps
<1> QED
  BY <1>2, <1>3

LEMMA ReshapePermuteKeeps ==
  ASSUME FactoryInv, calls < MaxCalls, NEW x \in Handed, NEW shape \in NewShapes,
         NEW perm \in Perms, ReshapePermute(x, shape, perm)
  PROVE  FactoryInv'
<1> DEFINE s == Inferred(Dims(x), shape)
           fit == /\ ReshapeFits(Dims(x), shape)
                  /\ PermuteFits(Reshaped(x, Dims(x), shape).dims, perm)
<1>1. Packed(Dims(x))
  BY HandedAre
<1>2. CASE ~fit
  BY <1>2, ThrowKeeps DEF ReshapePermute
<1>3. CASE fit
  <2>1. /\ ViewShape(s, Dims(x))
        /\ Reshaped(x, Dims(x), shape) = Tensor("RESHAPE", Padded(s), <<x>>, <<>>)
        /\ Reshaped(x, Dims(x), shape).dims = Padded(s)
        /\ <<>> \in Seq(Int \cup BOOLEAN)
    BY <1>1, <1>3, ReshapeIsView
  <2>2. Packed(Padded(s)) /\ PermuteFits(Padded(s), perm)
    BY <1>3, <2>1, PaddedIsPacked DEF ViewShape
  <2>3. Return(<<Reshaped(x, Dims(x), shape), Permuted(Next1, Padded(s), perm)>>)
    BY <1>3, <2>1 DEF ReshapePermute
  <2>4. /\ ViewShape(PermutedShape(Padded(s), perm), Padded(s))
        /\ Permuted(Next1, Padded(s), perm)
             = Tensor("PERMUTE", Padded(PermutedShape(Padded(s), perm)), <<Next1>>, perm)
        /\ perm \in Seq(Int \cup BOOLEAN)
    BY <2>2, PermuteIsView
  <2> HIDE DEF s, fit
  <2> QED
    BY <2>1, <2>3, <2>4, ViewOfViewKeeps
<1> QED
  BY <1>2, <1>3

LEMMA PermuteReshapeKeeps ==
  ASSUME FactoryInv, calls < MaxCalls, NEW x \in Handed, NEW shape \in NewShapes,
         NEW perm \in Perms, PermuteReshape(x, perm, shape)
  PROVE  FactoryInv'
<1> DEFINE s == PermutedShape(Dims(x), perm)
           fit == /\ PermuteFits(Dims(x), perm)
                  /\ ReshapeFits(Permuted(x, Dims(x), perm).dims, shape)
<1>1. Packed(Dims(x))
  BY HandedAre
<1>2. CASE ~fit
  BY <1>2, ThrowKeeps DEF PermuteReshape
<1>3. CASE fit
  <2>1. /\ ViewShape(s, Dims(x))
        /\ Permuted(x, Dims(x), perm) = Tensor("PERMUTE", Padded(s), <<x>>, perm)
        /\ Permuted(x, Dims(x), perm).dims = Padded(s)
        /\ perm \in Seq(Int \cup BOOLEAN)
    BY <1>1, <1>3, PermuteIsView
  <2>2. Packed(Padded(s)) /\ ReshapeFits(Padded(s), shape)
    BY <1>3, <2>1, PaddedIsPacked DEF ViewShape
  <2>3. Return(<<Permuted(x, Dims(x), perm), Reshaped(Next1, Padded(s), shape)>>)
    BY <1>3, <2>1 DEF PermuteReshape
  <2>4. /\ ViewShape(Inferred(Padded(s), shape), Padded(s))
        /\ Reshaped(Next1, Padded(s), shape)
             = Tensor("RESHAPE", Padded(Inferred(Padded(s), shape)), <<Next1>>, <<>>)
        /\ <<>> \in Seq(Int \cup BOOLEAN)
    BY <2>2, ReshapeIsView
  <2> HIDE DEF s, fit
  <2> QED
    BY <2>1, <2>3, <2>4, ViewOfViewKeeps
<1> QED
  BY <1>2, <1>3

-----------------------------------------------------------------------------
LEMMA FactoryInvInit == Init => FactoryInv
<1> SUFFICES ASSUME Init PROVE FactoryInv
  OBVIOUS
<1>1. tensors = <<>> /\ calls = 0 /\ outcome = "ok"
  BY DEF Init
<1>2. tensors \in Seq(Records) /\ DOMAIN tensors = {}
  BY <1>1
<1> QED
  BY <1>1, <1>2, MaxCallsIsNat DEF FactoryInv

LEMMA FactoryInvStutter == FactoryInv /\ UNCHANGED vars => FactoryInv'
BY DEF FactoryInv, vars

(* A call, by the tensors it is given: none, one, one and a weight, one    *)
(* and a shape or a permutation, several.                                  *)
LEMMA FactoryInvStep == FactoryInv /\ Next => FactoryInv'
<1> SUFFICES ASSUME FactoryInv, Next PROVE FactoryInv'
  OBVIOUS
<1> USE DEF Next
<1>1. calls < MaxCalls
  OBVIOUS
<1>2. CASE \E shape \in InputShapes : PlaceHolder(shape)
  BY <1>1, <1>2, PlaceHolderKeeps
<1>3. CASE \E x \in InnerSizes, y \in InnerSizes : RopeCache(x, y)
  BY <1>1, <1>3, RopeCacheKeeps
<1>4. ASSUME NEW x \in Handed, Silu(x) \/ Sigmoid(x) PROVE FactoryInv'
  BY <1>1, <1>4, UnaryKeeps
<1>5. ASSUME NEW x \in Handed, NEW w \in WeightShapes,
             \/ \E transpose \in BOOLEAN : Linear(x, w, transpose)
             \/ \E transpose \in BOOLEAN : EmbeddingLookup(x, w, transpose)
             \/ RmsNorm(x, w)
             \/ CausalConv1d(x, w)
             \/ \E size \in InnerSizes \cup {0} : SsmScan(x, w, size)
      PROVE  FactoryInv'
  <2>1. CASE \E transpose \in BOOLEAN : Linear(x, w, transpose)
    BY <1>1, <2>1, LinearKeeps
  <2>2. CASE \E transpose \in BOOLEAN : EmbeddingLookup(x, w, transpose)
    BY <1>1, <2>2, EmbeddingLookupKeeps
  <2>3. CASE RmsNorm(x, w) \/ CausalConv1d(x, w)
    BY <1>1, <2>3, NormKeeps
  <2>4. CASE \E size \in InnerSizes \cup {0} : SsmScan(x, w, size)
    BY <1>1, <2>4, SsmScanKeeps
  <2> QED
    BY <1>5, <2>1, <2>2, <2>3, <2>4
<1>6. ASSUME NEW x \in Handed,
             \E dim \in 0 .. TENSOR_MAX_DIMS - 1, start \in {0, 1}, size \in InnerSizes :
               Narrow(x, dim, start, size)
      PROVE  FactoryInv'
  BY <1>1, <1>6, NarrowKeeps
<1>7. ASSUME NEW x \in Handed, NEW shape \in NewShapes, Reshape(x, shape) PROVE FactoryInv'
  BY <1>1, <1>7, ReshapeKeeps
<1>8. ASSUME NEW x \in Handed, NEW perm \in Perms, Permute(x, perm) PROVE FactoryInv'
  BY <1>1, <1>8, PermuteKeeps
<1>9. ASSUME NEW x \in Handed, NEW shape \in NewShapes, NEW perm \in Perms,
             ReshapePermute(x, shape, perm) \/ PermuteReshape(x, perm, shape)
      PROVE  FactoryInv'
  BY <1>1, <1>9, ReshapePermuteKeeps, PermuteReshapeKeeps
<1>10. ASSUME NEW x \in Handed, NEW y \in Handed, Add(x, y) \/ Mul(x, y) PROVE FactoryInv'
  BY <1>1, <1>10, BinaryKeeps
<1>11. ASSUME NEW x \in Handed, NEW y \in Handed, NEW v \in Handed, NEW groups \in {0, 1},
              ScaledDotProductAttention(x, y, v, groups)
       PROVE  FactoryInv'
  BY <1>1, <1>11, AttentionKeeps
<1>12. ASSUME NEW x \in Handed, NEW y \in Handed,
              NEW cos \in {n \in Handed : tensors[n].op = "ROPE_CACHE"},
              NEW sin \in {n \in Handed : tensors[n].op = "ROPE_CACHE"},
              ApplyRope(x, y, cos, sin)
       PROVE  FactoryInv'
  BY <1>1, <1>12, ApplyRopeKeeps
<1>13. ASSUME NEW x \in Handed, NEW y \in Handed,
              \/ Add(x, y)
              \/ Mul(x, y)
              \/ \E v \in Handed, groups \in {0, 1} : ScaledDotProductAttention(x, y, v, groups)
              \/ \E cos, sin \in {n \in Handed : tensors[n].op = "ROPE_CACHE"} :
                   ApplyRope(x, y, cos, sin)
       PROVE  FactoryInv'
  BY <1>10, <1>11, <1>12, <1>13
<1> QED
  BY <1>2, <1>3, <1>4, <1>5, <1>6, <1>7, <1>8, <1>9, <1>13

LEMMA FactoryInvAlways == Spec => []FactoryInv
<1>1. FactoryInv /\ [Next]_vars => FactoryInv'
  BY FactoryInvStep, FactoryInvStutter
<1> QED
  BY FactoryInvInit, <1>1, PTL DEF Spec

(* The type invariant: every tensor has dims, strides that are values of a *)
(* size_t, and sources that were handed out and are not the tensor itself. *)
THEOREM FactoryType == Spec => []TypeOK
<1>1. FactoryInv => TypeOK
  BY DEF FactoryInv, TypeOK, Good, ShapeAndStrides, SourcesIn, Packed
<1> QED
  BY FactoryInvAlways, <1>1, PTL

(* No chain of calls leaves an unused dimension before one in use.         *)
THEOREM FactoryShapesHaveNoHoles == Spec => []ShapesHaveNoHoles
<1>1. FactoryInv => ShapesHaveNoHoles
  <2> SUFFICES ASSUME FactoryInv, NEW t \in DOMAIN tensors, NEW i \in Dim, NEW j \in Dim,
                      i < j, tensors[t].dims[i] = 0
               PROVE  tensors[t].dims[j] = 0
    BY DEF ShapesHaveNoHoles
  <2>1. Packed(tensors[t].dims)
    BY DEF FactoryInv, Good, ShapeAndStrides
  <2>2. /\ LastUsed(tensors[t].dims) \in Dim
        /\ \A n \in Dim : tensors[t].dims[n] # 0 <=> n <= LastUsed(tensors[t].dims)
    BY <2>1, LastUsedOfPacked
  <2> QED
    BY <2>2, MaxDimsIsNat DEF Dim
<1> QED
  BY FactoryInvAlways, <1>1, PTL

(* A reshape or permute of a static tensor has as many elements as the     *)
(* tensor, for every shape and permutation a client asks for and whatever  *)
(* calls built the tensor.                                                 *)
THEOREM FactoryViewsKeepElements == Spec => []ShapeOpsKeepElements
<1>1. FactoryInv => ShapeOpsKeepElements
  BY DEF FactoryInv, ShapeOpsKeepElements, Operations, Good, ViewKeepsElements
<1> QED
  BY FactoryInvAlways, <1>1, PTL

(* The strides computeStrides writes, and those the attention and rope     *)
(* copy, walk the memory of the tensor densely, wrapping with a size_t.    *)
THEOREM FactoryStridesCoverTensor == Spec => []StridesCoverTensor
<1>1. FactoryInv => StridesCoverTensor
  <2> SUFFICES ASSUME FactoryInv, NEW t \in Operations
               PROVE  LET d == tensors[t].dims
                          s == tensors[t].strides
                          r == LastUsed(d)
                      IN  /\ s[r] = ElementSize % SizeValues
                          /\ \A i \in 1 .. r - 1 : s[i] = (s[i + 1] * d[i + 1]) % SizeValues
                          /\ ~HasDynamic(d) =>
                               (s[1] * d[1]) % SizeValues = (ElementSize * Numel(d)) % SizeValues
    BY DEF StridesCoverTensor
  <2>1. Packed(tensors[t].dims) /\ tensors[t].strides = Strides(tensors[t].dims)
    BY DEF FactoryInv, Operations, Good, ShapeAndStrides
  <2> QED
    BY <2>1, StridesOfPacked
<1> QED
  BY FactoryInvAlways, <1>1, PTL

(* linear hands its output out with the weight it checked the input        *)
(* against, seen through the flag an executor finds in the parameters.     *)
THEOREM FactoryLinearContractsMatching == Spec => []LinearContractsMatching
<1>1. FactoryInv => LinearContractsMatching
  BY DEF FactoryInv, LinearContractsMatching, Operations, Good, LinearMatches
<1> QED
  BY FactoryInvAlways, <1>1, PTL
=============================================================================
