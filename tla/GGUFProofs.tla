------------------------------ MODULE GGUFProofs ------------------------------
(***************************************************************************)
(* Proofs about the parser of GGUF files (module GGUFParser): for every    *)
(* set of documents that keep to the format, however many entries and      *)
(* tensors they have and however deep their arrays nest, and for files cut *)
(* off anywhere.  Then, resting on these, proofs about the configuration a *)
(* model takes from a file (module ModelLoading), for any documents and    *)
(* any model that has parsed files before.                                 *)
(***************************************************************************)
EXTENDS ModelLoading, SequenceTheorems, WellFoundedInduction, TLAPS

-----------------------------------------------------------------------------
(* Recursive functions.  What holds of 0 and is passed on from each number *)
(* to the next holds of all; a function given by its first value and a     *)
(* step exists, and is the only one.                                       *)
LEMMA Induction ==
  ASSUME NEW T, 0 \in T, \A n \in Nat : n \in T => n + 1 \in T
  PROVE  \A n \in Nat : n \in T
<1> SUFFICES ASSUME Nat \ T # {} PROVE FALSE
  OBVIOUS
<1>1. IsWellFoundedOn(OpToRel(<, Nat), Nat)
  BY NatLessThanWellFounded
<1>2. PICK m \in Nat \ T : \A n \in Nat \ T : ~(<<n, m>> \in OpToRel(<, Nat))
  BY <1>1, WFMin
<1>3. \A n \in Nat \ T : ~(n < m)
  BY <1>2 DEF OpToRel
<1>4. m - 1 \in Nat /\ m - 1 \in T
  BY <1>3
<1> QED
  BY <1>4

Steps(f, a, N, base, step) ==
  /\ f[a] = base
  /\ \A n \in a .. N : n # a => f[n] = step[<<f[n - 1], n>>]

LEMMA Recursion ==
  ASSUME NEW a \in Nat, NEW N \in Nat, a <= N, NEW S, NEW base \in S,
         NEW step \in [S \X Nat -> S]
  PROVE  \E f \in [a .. N -> S] : Steps(f, a, N, base, step)
<1> DEFINE Is(f, k) == f \in [a .. a + k -> S] /\ Steps(f, a, a + k, base, step)
           T == {k \in Nat : \E f : Is(f, k)}
<1>1. 0 \in T
  <2>1. Is([n \in a .. a + 0 |-> base], 0)
    BY DEF Steps
  <2> QED
    BY <2>1
<1>2. ASSUME NEW k \in Nat, k \in T PROVE k + 1 \in T
  <2>1. PICK f : Is(f, k)
    BY <1>2
  <2> DEFINE x == step[<<f[a + k], a + k + 1>>]
             g == [n \in a .. a + (k + 1) |-> IF n = a + k + 1 THEN x ELSE f[n]]
  <2>2. x \in S
    BY <2>1
  <2>3. g \in [a .. a + (k + 1) -> S] /\ g[a] = base
    BY <2>1, <2>2 DEF Steps
  <2>4. ASSUME NEW n \in a .. a + (k + 1), n # a PROVE g[n] = step[<<g[n - 1], n>>]
    <3>1. n - 1 \in a .. a + k /\ n - 1 \in a .. a + (k + 1)
      BY <2>4
    <3>2. g[n - 1] = f[n - 1]
      BY <3>1
    <3>3. CASE n = a + k + 1
      BY <3>1, <3>2, <3>3
    <3>4. CASE n # a + k + 1
      <4>1. n \in a .. a + k
        BY <3>4
      <4> QED
        BY <2>1, <2>4, <3>1, <3>2, <3>4, <4>1 DEF Steps
    <3> QED
      BY <3>3, <3>4
  <2>5. Is(g, k + 1)
    BY <2>3, <2>4 DEF Steps
  <2> HIDE DEF g, Is
  <2> QED
    BY <2>5
<1>3. N - a \in T
  <2> HIDE DEF T
  <2> QED
    BY <1>1, <1>2, Induction
<1>4. a + (N - a) = N
  OBVIOUS
<1> QED
  BY <1>3, <1>4

(* There is one such function.                                             *)
Passed(f, g, a, N) ==
  /\ f[a] = g[a]
  /\ \A n \in a .. N : n # a /\ f[n - 1] = g[n - 1] => f[n] = g[n]

LEMMA SameFunction ==
  ASSUME NEW a \in Nat, NEW N \in Nat, NEW f, NEW g, Passed(f, g, a, N)
  PROVE  \A n \in a .. N : f[n] = g[n]
<1> DEFINE T == {k \in Nat : a + k <= N => f[a + k] = g[a + k]}
<1>1. 0 \in T
  BY DEF Passed
<1>2. ASSUME NEW k \in Nat, k \in T PROVE k + 1 \in T
  <2> SUFFICES ASSUME a + (k + 1) <= N PROVE f[a + (k + 1)] = g[a + (k + 1)]
    OBVIOUS
  <2>1. /\ a + (k + 1) \in a .. N /\ a + (k + 1) # a
        /\ (a + (k + 1)) - 1 = a + k /\ a + k <= N
    OBVIOUS
  <2> QED
    BY <1>2, <2>1 DEF Passed
<1>3. \A k \in Nat : k \in T
  <2> HIDE DEF T
  <2> QED
    BY <1>1, <1>2, Induction
<1> SUFFICES ASSUME NEW n \in a .. N PROVE f[n] = g[n]
  OBVIOUS
<1>4. n - a \in Nat /\ a + (n - a) = n /\ a + (n - a) <= N
  OBVIOUS
<1> QED
  BY <1>3, <1>4

-----------------------------------------------------------------------------
(* Fields and their bytes. *)
FieldTypes == Signed \cup Unsigned \cup Floating \cup {"BOOL", "STRING", "MAGIC"}

AnyField ==
  {f \in [type : FieldTypes,
          value : STRING \cup Int \cup ValueTypes \cup DataTypes] :
     f.type = "STRING" => Len(f.value) \in Nat}

LEMMA FieldBytesType == ASSUME NEW f \in AnyField PROVE FieldBytes(f) \in Nat
<1>1. CASE f.type = "STRING"
  BY <1>1 DEF AnyField, FieldBytes
<1>2. CASE f.type # "STRING"
  <2>1. f.type \in FieldTypes \ {"STRING"}
    BY <1>2 DEF AnyField
  <2>2. ScalarBytes[f.type] \in Nat
    BY <2>1 DEF FieldTypes, Signed, Unsigned, Floating, ScalarBytes
  <2> QED
    BY <1>2, <2>2 DEF FieldBytes
<1> QED
  BY <1>1, <1>2

(* The bytes up to each field. *)
UpTo(g, s) ==
  /\ g \in [0 .. Len(s) -> Nat]
  /\ g[0] = 0
  /\ \A n \in 1 .. Len(s) : g[n] = g[n - 1] + FieldBytes(s[n])

LEMMA BytesAre ==
  ASSUME NEW s \in Seq(AnyField)
  PROVE  \E g : UpTo(g, s) /\ Bytes(s) = g[Len(s)]
<1> DEFINE L == Len(s)
           Eq(f) == f = [n \in 0 .. L |-> IF n = 0 THEN 0 ELSE f[n - 1] + FieldBytes(s[n])]
           p == CHOOSE f : Eq(f)
           step == [x \in Nat \X Nat |-> IF x[2] \in 1 .. L THEN x[1] + FieldBytes(s[x[2]]) ELSE 0]
<1>1. Bytes(s) = p[L]
  BY DEF Bytes
<1>2. L \in Nat /\ \A n \in 1 .. L : FieldBytes(s[n]) \in Nat
  BY FieldBytesType
<1>3. step \in [Nat \X Nat -> Nat]
  BY <1>2
<1>4. 0 \in Nat /\ 0 <= L
  BY <1>2
<1> HIDE DEF step, L
<1>5. PICK g \in [0 .. L -> Nat] : Steps(g, 0, L, 0, step)
  BY <1>2, <1>3, <1>4, Recursion
<1>6. \A n \in 1 .. L : g[n] = g[n - 1] + FieldBytes(s[n])
  <2> SUFFICES ASSUME NEW n \in 1 .. L PROVE g[n] = g[n - 1] + FieldBytes(s[n])
    OBVIOUS
  <2>1. n \in 0 .. L /\ n # 0 /\ n - 1 \in 0 .. L /\ n \in Nat /\ g[n - 1] \in Nat
    BY <1>2
  <2>2. g[n] = step[<<g[n - 1], n>>]
    BY <1>5, <2>1 DEF Steps
  <2> QED
    BY <2>1, <2>2 DEF step
<1>7. g[0] = 0
  BY <1>5 DEF Steps
<1>8. Eq(g)
  BY <1>2, <1>6, <1>7
<1>9. Eq(p)
  BY <1>8
<1> HIDE DEF p
<1>10. Passed(p, g, 0, L)
  <2>1. p[0] = g[0]
    BY <1>2, <1>7, <1>9
  <2> SUFFICES ASSUME NEW n \in 0 .. L, n # 0, p[n - 1] = g[n - 1] PROVE p[n] = g[n]
    BY <2>1 DEF Passed
  <2>2. n \in 1 .. L
    BY <1>2
  <2> QED
    BY <1>6, <1>9, <2>2
<1>11. \A n \in 0 .. L : p[n] = g[n]
  BY <1>2, <1>4, <1>10, SameFunction
<1>12. Bytes(s) = g[L]
  BY <1>1, <1>2, <1>11
<1>13. UpTo(g, s)
  BY <1>6, <1>7 DEF UpTo, L
<1> QED
  BY <1>12, <1>13 DEF L

LEMMA BytesType ==
  ASSUME NEW s \in Seq(AnyField)
  PROVE  Bytes(s) \in Nat
<1>1. PICK g : UpTo(g, s) /\ Bytes(s) = g[Len(s)]
  BY BytesAre
<1>2. Len(s) \in 0 .. Len(s)
  OBVIOUS
<1> QED
  BY <1>1, <1>2 DEF UpTo

LEMMA BytesOfNothing == Bytes(<<>>) = 0
<1>1. <<>> \in Seq(AnyField) /\ Len(<<>>) = 0
  OBVIOUS
<1>2. PICK g : UpTo(g, <<>>) /\ Bytes(<<>>) = g[Len(<<>>)]
  BY <1>1, BytesAre
<1> QED
  BY <1>1, <1>2 DEF UpTo

LEMMA BytesOfConcat ==
  ASSUME NEW s \in Seq(AnyField), NEW t \in Seq(AnyField)
  PROVE  Bytes(s \o t) = Bytes(s) + Bytes(t)
<1> DEFINE c == s \o t
           M == Len(s)
           N == Len(t)
<1>1. /\ c \in Seq(AnyField) /\ Len(c) = M + N /\ M \in Nat /\ N \in Nat
      /\ \A n \in 1 .. M : c[n] = s[n]
      /\ \A n \in 1 .. N : c[M + n] = t[n]
  OBVIOUS
<1>2. PICK gs : UpTo(gs, s) /\ Bytes(s) = gs[M]
  BY BytesAre
<1>3. PICK gt : UpTo(gt, t) /\ Bytes(t) = gt[N]
  BY BytesAre
<1> HIDE DEF c
<1>4. PICK gc : UpTo(gc, c) /\ Bytes(c) = gc[Len(c)]
  BY <1>1, BytesAre
<1> HIDE DEF M, N
<1>5. \A n \in 1 .. M : gs[n] = gs[n - 1] + FieldBytes(s[n])
  BY <1>2 DEF UpTo, M
<1>6. \A n \in 1 .. N : gt[n] = gt[n - 1] + FieldBytes(t[n])
  BY <1>3 DEF UpTo, N
<1>7. \A n \in 1 .. M + N : gc[n] = gc[n - 1] + FieldBytes(c[n])
  BY <1>1, <1>4 DEF UpTo
<1>8. \A n \in 0 .. M : gc[n] = gs[n]
  <2>1. Passed(gc, gs, 0, M)
    <3>1. gc[0] = gs[0]
      BY <1>2, <1>4 DEF UpTo
    <3> SUFFICES ASSUME NEW n \in 0 .. M, n # 0, gc[n - 1] = gs[n - 1] PROVE gc[n] = gs[n]
      BY <3>1 DEF Passed
    <3>2. n \in 1 .. M /\ n \in 1 .. M + N
      BY <1>1
    <3> QED
      BY <1>1, <1>5, <1>7, <3>2
  <2>2. 0 \in Nat /\ M \in Nat
    BY <1>1
  <2> QED
    BY <2>1, <2>2, SameFunction
<1> DEFINE k == [n \in 0 .. N |-> gc[M + n]]
           h == [n \in 0 .. N |-> gs[M] + gt[n]]
<1>9. \A n \in 0 .. N : k[n] = h[n]
  <2>1. Passed(k, h, 0, N)
    <3>1. gc[M + 0] = gs[M] + gt[0]
      <4>1. gt[0] = 0 /\ gs[M] \in Nat /\ M \in 0 .. M
        <5>1. M \in 0 .. M
          BY <1>1
        <5>2. gs[M] \in Nat
          BY <1>2, <5>1 DEF UpTo, M
        <5>3. gt[0] = 0
          BY <1>3 DEF UpTo
        <5> QED
          BY <5>1, <5>2, <5>3
      <4> QED
        BY <1>1, <1>8, <4>1
    <3>2. ASSUME NEW n \in 0 .. N, n # 0, k[n - 1] = h[n - 1] PROVE k[n] = h[n]
      <4>1. n \in 1 .. N /\ n - 1 \in 0 .. N /\ M + n \in 1 .. M + N /\ (M + n) - 1 = M + (n - 1)
        BY <1>1, <3>2
      <4>2. gc[M + (n - 1)] = gs[M] + gt[n - 1]
        BY <3>2, <4>1
      <4>3. gc[M + n] = gc[M + (n - 1)] + FieldBytes(t[n])
        BY <1>1, <1>7, <4>1
      <4>4. gt[n] = gt[n - 1] + FieldBytes(t[n])
        BY <1>6, <4>1
      <4>5. gs[M] \in Nat /\ gt[n - 1] \in Nat
        <5>1. gs \in [0 .. M -> Nat] /\ gt \in [0 .. N -> Nat] /\ M \in 0 .. M
          BY <1>1, <1>2, <1>3 DEF UpTo, M, N
        <5> QED
          BY <4>1, <5>1
      <4>6. t[n] \in AnyField
        BY <4>1 DEF N
      <4>7. FieldBytes(t[n]) \in Nat
        BY <4>6, FieldBytesType
      <4> QED
        BY <4>1, <4>2, <4>3, <4>4, <4>5, <4>7
    <3>3. k[0] = h[0]
      BY <1>1, <3>1
    <3> HIDE DEF k, h
    <3> QED
      BY <3>2, <3>3 DEF Passed
  <2>2. 0 \in Nat /\ N \in Nat
    BY <1>1
  <2> HIDE DEF k, h
  <2> QED
    BY <2>1, <2>2, SameFunction
<1>10. N \in 0 .. N
  BY <1>1
<1>11. gc[M + N] = gs[M] + gt[N]
  BY <1>9, <1>10
<1> QED
  BY <1>1, <1>2, <1>3, <1>4, <1>11 DEF c, M, N

-----------------------------------------------------------------------------
(* The product of a list does not depend on its direction. *)
Products(g, s) ==
  /\ g \in [0 .. Len(s) -> Int]
  /\ g[0] = 1
  /\ \A n \in 1 .. Len(s) : g[n] = g[n - 1] * s[n]

LEMMA ProductIs ==
  ASSUME NEW s \in Seq(Int)
  PROVE  \E g : Products(g, s) /\ Product(s) = g[Len(s)]
<1> DEFINE L == Len(s)
           Eq(f) == f = [n \in 0 .. L |-> IF n = 0 THEN 1 ELSE f[n - 1] * s[n]]
           p == CHOOSE f : Eq(f)
           step == [x \in Int \X Nat |-> IF x[2] \in 1 .. L THEN x[1] * s[x[2]] ELSE 0]
<1>1. Product(s) = p[L]
  BY DEF Product
<1>2. L \in Nat /\ \A n \in 1 .. L : s[n] \in Int
  OBVIOUS
<1>3. step \in [Int \X Nat -> Int]
  BY <1>2
<1>4. 0 \in Nat /\ 0 <= L /\ 1 \in Int
  BY <1>2
<1> HIDE DEF step, L
<1>5. PICK g \in [0 .. L -> Int] : Steps(g, 0, L, 1, step)
  BY <1>2, <1>3, <1>4, Recursion
<1>6. \A n \in 1 .. L : g[n] = g[n - 1] * s[n]
  <2> SUFFICES ASSUME NEW n \in 1 .. L PROVE g[n] = g[n - 1] * s[n]
    OBVIOUS
  <2>1. n \in 0 .. L /\ n # 0 /\ n - 1 \in 0 .. L /\ n \in Nat /\ g[n - 1] \in Int
    BY <1>2
  <2>2. g[n] = step[<<g[n - 1], n>>]
    BY <1>5, <2>1 DEF Steps
  <2> QED
    BY <2>1, <2>2 DEF step
<1>7. g[0] = 1
  BY <1>5 DEF Steps
<1>8. Eq(g)
  <2> SUFFICES ASSUME NEW n \in 0 .. L PROVE g[n] = IF n = 0 THEN 1 ELSE g[n - 1] * s[n]
    OBVIOUS
  <2>1. n # 0 => n \in 1 .. L
    BY <1>2
  <2> QED
    BY <1>6, <1>7, <2>1
<1>9. Eq(p)
  BY <1>8
<1> HIDE DEF p
<1>10. Passed(p, g, 0, L)
  <2>1. p[0] = g[0]
    BY <1>2, <1>7, <1>9
  <2> SUFFICES ASSUME NEW n \in 0 .. L, n # 0, p[n - 1] = g[n - 1] PROVE p[n] = g[n]
    BY <2>1 DEF Passed
  <2>2. n \in 1 .. L
    BY <1>2
  <2> QED
    BY <1>6, <1>9, <2>2
<1>11. \A n \in 0 .. L : p[n] = g[n]
  BY <1>2, <1>4, <1>10, SameFunction
<1>12. Product(s) = g[L]
  BY <1>1, <1>2, <1>11
<1>13. Products(g, s)
  BY <1>6, <1>7 DEF Products, L
<1> QED
  BY <1>12, <1>13 DEF L

LEMMA ProductOfReverse ==
  ASSUME NEW s \in Seq(Int)
  PROVE  Product(Reverse(s)) = Product(s)
<1> DEFINE r == Reverse(s)
           L == Len(s)
<1>1. /\ r \in Seq(Int) /\ Len(r) = L /\ L \in Nat
      /\ \A n \in 1 .. L : r[n] = s[L - n + 1] /\ s[n] \in Int
  BY DEF Reverse
<1>2. PICK g : Products(g, s) /\ Product(s) = g[L]
  BY ProductIs
<1> HIDE DEF r
<1>3. PICK h : Products(h, r) /\ Product(r) = h[L]
  BY <1>1, ProductIs
<1> DEFINE f == [n \in 0 .. L |-> h[n] * g[L - n]]
           e == [n \in 0 .. L |-> h[0] * g[L]]
<1>4. \A n \in 0 .. L : f[n] = e[n]
  <2>1. f[0] = e[0]
    BY <1>1
  <2>2. ASSUME NEW n \in 0 .. L, n # 0, f[n - 1] = e[n - 1] PROVE f[n] = e[n]
    <3>1. /\ n \in 1 .. L /\ n - 1 \in 0 .. L /\ L - n + 1 \in 1 .. L
          /\ (L - n + 1) - 1 = L - n /\ L - (n - 1) = L - n + 1
      BY <1>1, <2>2
    <3>2. h[n] = h[n - 1] * s[L - n + 1]
      BY <1>1, <1>3, <3>1 DEF Products
    <3>3. g[L - n + 1] = g[L - n] * s[L - n + 1]
      BY <1>1, <1>2, <3>1 DEF Products
    <3>4. h[n - 1] * g[L - n + 1] = h[0] * g[L]
      BY <2>2, <3>1
    <3>5. h[n - 1] \in Int /\ g[L - n] \in Int /\ s[L - n + 1] \in Int
      <4>1. L - n \in 0 .. L
        BY <1>1, <3>1
      <4>2. h \in [0 .. L -> Int] /\ g \in [0 .. L -> Int]
        BY <1>1, <1>2, <1>3 DEF Products
      <4> QED
        BY <1>1, <3>1, <4>1, <4>2
    <3>6. \A x, y, z \in Int : (x * z) * y = x * (y * z)
      OBVIOUS
    <3>7. h[n] * g[L - n] = h[0] * g[L]
      BY <3>2, <3>3, <3>4, <3>5, <3>6
    <3> QED
      BY <3>7
  <2>3. 0 \in Nat /\ L \in Nat
    BY <1>1
  <2> HIDE DEF f, e
  <2>4. Passed(f, e, 0, L)
    BY <2>1, <2>2 DEF Passed
  <2> QED
    BY <2>3, <2>4, SameFunction
<1>5. h[L] * g[0] = h[0] * g[L]
  <2>1. L \in 0 .. L /\ L - L = 0
    BY <1>1
  <2> QED
    BY <1>4, <2>1
<1>6. g[0] = 1 /\ h[0] = 1 /\ g[L] \in Int /\ h[L] \in Int
  <2>1. g[0] = 1 /\ \A n \in 0 .. L : g[n] \in Int
    BY <1>2 DEF Products
  <2>2. h[0] = 1 /\ \A n \in 0 .. L : h[n] \in Int
    BY <1>1, <1>3 DEF Products
  <2> QED
    BY <1>1, <2>1, <2>2
<1> QED
  BY <1>2, <1>3, <1>5, <1>6 DEF r

LEMMA ProductType ==
  ASSUME NEW s \in Seq(Nat)
  PROVE  Product(s) \in Nat
<1> DEFINE L == Len(s)
<1>1. s \in Seq(Int) /\ L \in Nat /\ \A n \in 1 .. L : s[n] \in Nat
  OBVIOUS
<1>2. PICK g : Products(g, s) /\ Product(s) = g[L]
  BY <1>1, ProductIs
<1> DEFINE T == {n \in Nat : n <= L => g[n] \in Nat}
<1>3. 0 \in T
  BY <1>2 DEF Products
<1>4. ASSUME NEW n \in Nat, n \in T PROVE n + 1 \in T
  <2> SUFFICES ASSUME n + 1 <= L PROVE g[n + 1] \in Nat
    OBVIOUS
  <2>1. n + 1 \in 1 .. L /\ (n + 1) - 1 = n /\ g[n] \in Nat
    BY <1>1, <1>4
  <2>2. g[n + 1] = g[n] * s[n + 1]
    BY <1>2, <2>1 DEF Products
  <2>3. \A x, y \in Nat : x * y \in Nat
    OBVIOUS
  <2> QED
    BY <1>1, <2>1, <2>2, <2>3
<1>5. L \in T
  <2> HIDE DEF T, L
  <2> QED
    BY <1>1, <1>3, <1>4, Induction
<1> QED
  BY <1>1, <1>2, <1>5

-----------------------------------------------------------------------------
(* A list of lists of fields in a row, and what is left of it from each on.*)
Rests(r, parts) ==
  /\ r \in [1 .. Len(parts) + 1 -> Seq(AnyField)]
  /\ r[1] = FlattenSeq(parts)
  /\ r[Len(parts) + 1] = <<>>
  /\ \A k \in 1 .. Len(parts) : r[k] = parts[k] \o r[k + 1]

From(parts, k) == (CHOOSE r : Rests(r, parts))[k]

LEMMA Associative ==
  \A s, t, u \in Seq(AnyField) : (s \o t) \o u = s \o (t \o u)
BY ConcatAssociative

LEMMA RestsExist ==
  ASSUME NEW parts \in Seq(Seq(AnyField))
  PROVE  \E r : Rests(r, parts)
<1> DEFINE L == Len(parts)
<1>1. L \in Nat /\ \A n \in 1 .. L : parts[n] \in Seq(AnyField)
  OBVIOUS
<1>2. CASE L = 0
  <2>1. parts = <<>> /\ FlattenSeq(parts) = parts
    BY <1>2 DEF FlattenSeq
  <2>2. FlattenSeq(parts) = <<>>
    BY <2>1
  <2> DEFINE r == [k \in 1 .. L + 1 |-> <<>>]
  <2>3. r \in [1 .. L + 1 -> Seq(AnyField)] /\ r[1] = <<>> /\ r[L + 1] = <<>>
    BY <1>2
  <2>4. 1 .. L = {}
    BY <1>2
  <2> HIDE DEF r
  <2>5. Rests(r, parts)
    BY <2>2, <2>3, <2>4 DEF Rests
  <2> QED
    BY <2>5
<1>3. CASE L # 0
  <2> DEFINE Eq(f) == f = [n \in 1 .. L |-> IF n = 1 THEN parts[n] ELSE f[n - 1] \o parts[n]]
             p == CHOOSE f : Eq(f)
             ahead == [x \in Seq(AnyField) \X Nat |->
                         IF x[2] \in 1 .. L THEN x[1] \o parts[x[2]] ELSE <<>>]
             behind == [x \in Seq(AnyField) \X Nat |->
                          IF x[2] \in 1 .. L THEN parts[L - x[2] + 1] \o x[1] ELSE <<>>]
  <2>1. FlattenSeq(parts) = p[L]
    BY <1>3 DEF FlattenSeq
  <2>2. ahead \in [Seq(AnyField) \X Nat -> Seq(AnyField)]
    BY <1>1
  <2>3. behind \in [Seq(AnyField) \X Nat -> Seq(AnyField)]
    <3>1. \A n \in 1 .. L : L - n + 1 \in 1 .. L
      BY <1>1
    <3> QED
      BY <1>1, <3>1
  <2>4. /\ 1 \in Nat /\ 0 \in Nat /\ 1 <= L /\ 0 <= L /\ <<>> \in Seq(AnyField)
        /\ parts[1] \in Seq(AnyField)
    BY <1>1, <1>3
  <2> HIDE DEF ahead, behind, L
  <2>5. PICK g \in [1 .. L -> Seq(AnyField)] : Steps(g, 1, L, parts[1], ahead)
    BY <1>1, <2>2, <2>4, Recursion
  <2>6. PICK b \in [0 .. L -> Seq(AnyField)] : Steps(b, 0, L, <<>>, behind)
    BY <1>1, <2>3, <2>4, Recursion
  <2>7. ASSUME NEW n \in 1 .. L, n # 1 PROVE g[n] = g[n - 1] \o parts[n]
    <3>1. n - 1 \in 1 .. L /\ n \in Nat /\ g[n - 1] \in Seq(AnyField)
      BY <1>1, <2>7
    <3>2. g[n] = ahead[<<g[n - 1], n>>]
      BY <2>5, <2>7 DEF Steps
    <3> QED
      BY <3>1, <3>2 DEF ahead
  <2>8. g[1] = parts[1]
    BY <2>5 DEF Steps
  <2>9. Eq(g)
    BY <2>7, <2>8
  <2>10. Eq(p)
    BY <2>9
  <2> HIDE DEF p
  <2>11. \A n \in 1 .. L : p[n] = g[n]
    <3>1. p[1] = g[1]
      BY <2>4, <2>8, <2>10
    <3>2. ASSUME NEW n \in 1 .. L, n # 1, p[n - 1] = g[n - 1] PROVE p[n] = g[n]
      BY <2>7, <2>10, <3>2
    <3>3. Passed(p, g, 1, L)
      BY <3>1, <3>2 DEF Passed
    <3> QED
      BY <1>1, <2>4, <3>3, SameFunction
  <2> DEFINE r == [k \in 1 .. L + 1 |-> b[L + 1 - k]]
  <2>12. /\ r \in [1 .. L + 1 -> Seq(AnyField)]
         /\ r[L + 1] = <<>>
    <3>1. \A k \in 1 .. L + 1 : L + 1 - k \in 0 .. L
      BY <1>1
    <3>2. b[0] = <<>> /\ L + 1 \in 1 .. L + 1 /\ L + 1 - (L + 1) = 0
      BY <1>1, <2>6 DEF Steps
    <3> QED
      BY <3>1, <3>2
  <2>13. ASSUME NEW k \in 1 .. L PROVE r[k] = parts[k] \o r[k + 1]
    <3> DEFINE j == L + 1 - k
    <3>1. /\ j \in 0 .. L /\ j \in 1 .. L /\ j \in Nat /\ j # 0 /\ j - 1 \in 0 .. L
          /\ L - j + 1 = k /\ L + 1 - (k + 1) = j - 1 /\ k \in 1 .. L + 1 /\ k + 1 \in 1 .. L + 1
      BY <1>1
    <3>2. r[k] = b[j] /\ r[k + 1] = b[j - 1]
      BY <3>1
    <3> HIDE DEF j, r
    <3>3. b[j] = behind[<<b[j - 1], j>>] /\ b[j - 1] \in Seq(AnyField)
      BY <2>6, <3>1 DEF Steps
    <3>4. behind[<<b[j - 1], j>>] = parts[L - j + 1] \o b[j - 1]
      BY <3>1, <3>3 DEF behind
    <3> QED
      BY <3>1, <3>2, <3>3, <3>4
  <2> HIDE DEF r
  <2> DEFINE f == [n \in 1 .. L |-> g[n] \o r[n + 1]]
             e == [n \in 1 .. L |-> r[1]]
  <2>14. \A n \in 1 .. L : f[n] = e[n]
    <3>1. f[1] = e[1]
      <4>1. 1 \in 1 .. L /\ f[1] = g[1] \o r[1 + 1]
        BY <1>1, <2>4
      <4>2. r[1] = parts[1] \o r[1 + 1]
        BY <2>13, <4>1
      <4> QED
        BY <2>8, <4>1, <4>2
    <3>2. ASSUME NEW n \in 1 .. L, n # 1, f[n - 1] = e[n - 1] PROVE f[n] = e[n]
      <4>1. n - 1 \in 1 .. L /\ (n - 1) + 1 = n /\ n \in 1 .. L + 1 /\ n + 1 \in 1 .. L + 1
        BY <1>1, <3>2
      <4>2. g[n - 1] \in Seq(AnyField) /\ parts[n] \in Seq(AnyField) /\ r[n + 1] \in Seq(AnyField)
        BY <1>1, <2>12, <4>1
      <4>3. g[n] \o r[n + 1] = (g[n - 1] \o parts[n]) \o r[n + 1]
        BY <2>7, <3>2
      <4>4. (g[n - 1] \o parts[n]) \o r[n + 1] = g[n - 1] \o (parts[n] \o r[n + 1])
        BY <4>2, Associative
      <4>5. parts[n] \o r[n + 1] = r[n]
        BY <2>13
      <4>6. g[n - 1] \o r[n] = r[1]
        BY <3>2, <4>1
      <4> QED
        BY <4>3, <4>4, <4>5, <4>6
    <3> HIDE DEF f, e
    <3>3. Passed(f, e, 1, L)
      BY <3>1, <3>2 DEF Passed
    <3> QED
      BY <1>1, <2>4, <3>3, SameFunction
  <2>15. r[1] = FlattenSeq(parts)
    <3>1. L \in 1 .. L
      BY <1>1, <2>4
    <3>2. g[L] \o r[L + 1] = r[1]
      BY <2>14, <3>1
    <3>3. g[L] \in Seq(AnyField)
      BY <2>5, <3>1
    <3>4. g[L] \o <<>> = g[L]
      BY <3>3, ConcatEmptySeq
    <3> QED
      BY <2>1, <2>11, <2>12, <3>1, <3>2, <3>4
  <2>16. Rests(r, parts)
    BY <2>12, <2>13, <2>15 DEF Rests, L
  <2> QED
    BY <2>16
<1> QED
  BY <1>2, <1>3

LEMMA FromIs ==
  ASSUME NEW parts \in Seq(Seq(AnyField))
  PROVE  /\ From(parts, 1) = FlattenSeq(parts)
         /\ From(parts, Len(parts) + 1) = <<>>
         /\ \A k \in 1 .. Len(parts) + 1 : From(parts, k) \in Seq(AnyField)
         /\ \A k \in 1 .. Len(parts) : From(parts, k) = parts[k] \o From(parts, k + 1)
<1>1. Rests(CHOOSE r : Rests(r, parts), parts)
  BY RestsExist
<1> QED
  BY <1>1 DEF Rests, From

LEMMA FlattenedType ==
  ASSUME NEW parts \in Seq(Seq(AnyField))
  PROVE  FlattenSeq(parts) \in Seq(AnyField)
<1>1. 1 \in 1 .. Len(parts) + 1
  OBVIOUS
<1> QED
  BY <1>1, FromIs

-----------------------------------------------------------------------------
(* Values.  What the encoding of an array is depends on its items only, so *)
(* that the function which Encoding recurses on exists: it is glued from   *)
(* the functions on sets of values that hold their items.                  *)
ItemsIn(v, S) == v.type = "ARRAY" => \A n \in DOMAIN v.items : v.items[n] \in S

AgreeOnItems(f, g, v) ==
  v.type = "ARRAY" => \A n \in DOMAIN v.items : f[v.items[n]] = g[v.items[n]]

LEMMA EncodedByItems ==
  ASSUME NEW f, NEW g, NEW v, AgreeOnItems(f, g, v)
  PROVE  Encoded(v, f) = Encoded(v, g)
<1>1. CASE v.type # "ARRAY"
  BY <1>1, Zenon DEF Encoded
<1>2. CASE v.type = "ARRAY"
  <2>1. \A n \in DOMAIN v.items : f[v.items[n]] = g[v.items[n]]
    BY <1>2 DEF AgreeOnItems
  <2>2. [n \in DOMAIN v.items |-> f[v.items[n]].fields] = [n \in DOMAIN v.items |-> g[v.items[n]].fields]
    BY <2>1
  <2>3. [n \in DOMAIN v.items |-> f[v.items[n]].json] = [n \in DOMAIN v.items |-> g[v.items[n]].json]
    BY <2>1
  <2>4. (\A n \in DOMAIN v.items : f[v.items[n]].readable) = (\A n \in DOMAIN v.items : g[v.items[n]].readable)
    BY <2>1
  <2>5. /\ Encoded(v, f) =
             [fields   |-> <<Field("UINT32", v.elem), Field("UINT64", Len(v.items))>>
                             \o FlattenSeq([n \in DOMAIN v.items |-> f[v.items[n]].fields]),
              json     |-> <<"array", [n \in DOMAIN v.items |-> f[v.items[n]].json]>>,
              readable |-> \A n \in DOMAIN v.items : f[v.items[n]].readable]
        /\ Encoded(v, g) =
             [fields   |-> <<Field("UINT32", v.elem), Field("UINT64", Len(v.items))>>
                             \o FlattenSeq([n \in DOMAIN v.items |-> g[v.items[n]].fields]),
              json     |-> <<"array", [n \in DOMAIN v.items |-> g[v.items[n]].json]>>,
              readable |-> \A n \in DOMAIN v.items : g[v.items[n]].readable]
    BY <1>2 DEF Encoded
  <2> QED
    BY <2>2, <2>3, <2>4, <2>5
<1> QED
  BY <1>1, <1>2

(* A function on a set of values with their items.                         *)
Closed(f) ==
  /\ DOMAIN f \subseteq Values
  /\ \A v \in DOMAIN f : ItemsIn(v, DOMAIN f) /\ f[v] = Encoded(v, f)

LEMMA ClosedAgree ==
  ASSUME NEW f, NEW g, Closed(f), Closed(g), NEW w \in DOMAIN f, w \in DOMAIN g
  PROVE  f[w] = g[w]
<1> DEFINE S == {v \in DOMAIN f \cap DOMAIN g : f[v] # g[v]}
<1> SUFFICES ASSUME f[w] # g[w] PROVE FALSE
  OBVIOUS
<1>1. S # {} /\ S \in SUBSET Values
  BY DEF Closed
<1>2. PICK v \in S : v.type = "ARRAY" => \A n \in DOMAIN v.items : v.items[n] \notin S
  BY <1>1, ValuesAreFinite
<1>3. ItemsIn(v, DOMAIN f) /\ ItemsIn(v, DOMAIN g)
  BY <1>2 DEF Closed
<1>4. AgreeOnItems(f, g, v)
  BY <1>2, <1>3 DEF ItemsIn, AgreeOnItems
<1>5. f[v] = Encoded(v, f) /\ g[v] = Encoded(v, g)
  BY <1>2 DEF Closed
<1>6. f[v] = g[v]
  BY <1>4, <1>5, EncodedByItems
<1> QED
  BY <1>2, <1>6

LEMMA EncodingExists == \E e : e = [v \in Values |-> Encoded(v, e)]
<1> DEFINE Known == {v \in Values : \E f : Closed(f) /\ v \in DOMAIN f}
           For(v) == CHOOSE f : Closed(f) /\ v \in DOMAIN f
           h == [v \in Known |-> For(v)[v]]
<1>1. \A v \in Known : Closed(For(v)) /\ v \in DOMAIN For(v)
  OBVIOUS
<1>2. \A v \in Known : DOMAIN For(v) \subseteq Known
  BY <1>1 DEF Closed
<1>3. Known \subseteq Values
  OBVIOUS
<1> HIDE DEF For
<1>4. ASSUME NEW v \in Known PROVE ItemsIn(v, Known) /\ h[v] = Encoded(v, h)
  <2>1. Closed(For(v)) /\ v \in DOMAIN For(v) /\ DOMAIN For(v) \subseteq Known
    BY <1>1, <1>2
  <2>2. ASSUME NEW w \in DOMAIN For(v) PROVE h[w] = For(v)[w]
    <3>1. w \in Known
      BY <2>1, <2>2
    <3>2. Closed(For(w)) /\ w \in DOMAIN For(w)
      BY <1>1, <3>1
    <3>3. For(w)[w] = For(v)[w]
      BY <2>1, <2>2, <3>2, ClosedAgree
    <3> QED
      BY <3>1, <3>3
  <2>3. ItemsIn(v, DOMAIN For(v)) /\ For(v)[v] = Encoded(v, For(v))
    BY <2>1 DEF Closed
  <2>4. AgreeOnItems(h, For(v), v)
    BY <2>2, <2>3 DEF ItemsIn, AgreeOnItems
  <2>5. Encoded(v, h) = Encoded(v, For(v))
    BY <2>4, EncodedByItems
  <2>6. ItemsIn(v, Known)
    BY <2>1, <2>3 DEF ItemsIn
  <2> QED
    BY <2>1, <2>2, <2>3, <2>5, <2>6
<1>5. Values \subseteq Known
  <2> SUFFICES ASSUME Values \ Known # {} PROVE FALSE
    OBVIOUS
  <2>1. PICK v \in Values \ Known :
          v.type = "ARRAY" => \A n \in DOMAIN v.items : v.items[n] \notin Values \ Known
    BY ValuesAreFinite
  <2>2. ItemsIn(v, Known)
    <3>1. v.type = "ARRAY" => \A n \in DOMAIN v.items : v.items[n] \in Values
      BY ValuesAreTyped DEF IsValue, Signed, Unsigned, Floating
    <3> HIDE DEF Known
    <3> QED
      BY <2>1, <3>1 DEF ItemsIn
  <2> HIDE DEF Known, h
  <2> DEFINE k == [w \in Known \cup {v} |-> IF w = v THEN Encoded(v, h) ELSE h[w]]
  <2>3. ASSUME NEW w \in DOMAIN k PROVE ItemsIn(w, DOMAIN k) /\ k[w] = Encoded(w, k)
    <3>1. ItemsIn(w, Known) /\ k[w] = Encoded(w, h)
      BY <1>4, <2>2, <2>3
    <3>2. AgreeOnItems(k, h, w)
      BY <2>1, <3>1 DEF ItemsIn, AgreeOnItems
    <3>3. Encoded(w, k) = Encoded(w, h)
      BY <3>2, EncodedByItems
    <3> QED
      BY <3>1, <3>3 DEF ItemsIn
  <2>4. DOMAIN k = Known \cup {v}
    OBVIOUS
  <2> HIDE DEF k
  <2>5. Closed(k) /\ v \in DOMAIN k
    BY <1>3, <2>1, <2>3, <2>4 DEF Closed
  <2>6. v \in Known
    BY <2>1, <2>5 DEF Known
  <2> QED
    BY <2>1, <2>6
<1>6. Known = Values
  BY <1>3, <1>5
<1>7. h = [v \in Values |-> Encoded(v, h)]
  <2>1. DOMAIN h = Values /\ h = [v \in Known |-> h[v]]
    BY <1>6
  <2> HIDE DEF h, Known
  <2> QED
    BY <1>4, <1>6, <2>1
<1> QED
  BY <1>7

LEMMA EncodingIs == \A v \in Values : Encoding[v] = Encoded(v, Encoding)
<1> DEFINE Is(e) == e = [v \in Values |-> Encoded(v, e)]
<1>1. Encoding = CHOOSE e : Is(e)
  BY DEF Encoding
<1>2. \E e : Is(e)
  BY EncodingExists
<1>3. Is(Encoding)
  <2> HIDE DEF Is
  <2> QED
    BY <1>1, <1>2
<1> QED
  BY <1>3

(* What is passed on from the items of every array to it holds of all.     *)
LEMMA ValueInduction ==
  ASSUME NEW T, \A v \in Values : ItemsIn(v, T) => v \in T
  PROVE  Values \subseteq T
<1> SUFFICES ASSUME Values \ T # {} PROVE FALSE
  OBVIOUS
<1>1. PICK v \in Values \ T :
        v.type = "ARRAY" => \A n \in DOMAIN v.items : v.items[n] \notin Values \ T
  BY ValuesAreFinite
<1>2. v.type = "ARRAY" => \A n \in DOMAIN v.items : v.items[n] \in Values
  BY <1>1, ValuesAreTyped DEF IsValue, Signed, Unsigned, Floating
<1>3. ItemsIn(v, T)
  BY <1>1, <1>2 DEF ItemsIn
<1> QED
  BY <1>1, <1>3

ScalarField(v) ==
  IF v.type = "STRING" THEN Field("STRING", v.text) ELSE Field(v.type, Raw(v.type, v.num))

LEMMA SignBits == \A type \in Signed : SignBit(type) \in Int
<1>1. \A type \in Signed : 8 * ScalarBytes[type] - 1 \in Nat
  BY DEF Signed, ScalarBytes
<1>2. \A n \in Nat : 2 ^ n \in Int
  OBVIOUS
<1> QED
  BY <1>1, <1>2 DEF SignBit

LEMMA JsonOfText ==
  ASSUME NEW type, type = "STRING", NEW raw
  PROVE  JsonOf(type, raw) = <<"string", raw>>
<1>1. type # "BOOL" /\ type \notin Signed /\ type \notin Floating
  BY DEF Signed, Floating
<1> QED
  BY <1>1, Zenon DEF JsonOf

LEMMA JsonOfBool ==
  ASSUME NEW type, type = "BOOL", NEW raw
  PROVE  JsonOf(type, raw) = <<"boolean", raw # 0>>
<1>1. type # "STRING" /\ type \notin Signed /\ type \notin Floating
  BY DEF Signed, Floating
<1> QED
  BY <1>1, Zenon DEF JsonOf

LEMMA JsonOfNegative ==
  ASSUME NEW type \in Signed, NEW raw, raw >= SignBit(type)
  PROVE  JsonOf(type, raw) = <<"number", raw - 2 * SignBit(type)>>
<1>1. type # "STRING" /\ type # "BOOL" /\ type \notin Floating
  BY DEF Signed, Floating
<1> QED
  BY <1>1, Zenon DEF JsonOf

LEMMA JsonOfNumber ==
  ASSUME NEW type, type # "STRING", type # "BOOL", type \notin Floating, NEW raw,
         ~(type \in Signed /\ raw >= SignBit(type))
  PROVE  JsonOf(type, raw) = <<"number", raw>>
BY Zenon DEF JsonOf

LEMMA JsonOfFloat ==
  ASSUME NEW type \in Floating, NEW raw
  PROVE  JsonOf(type, raw) = <<"float", raw>>
<1>1. type # "STRING" /\ type # "BOOL" /\ type \notin Signed
  BY DEF Signed, Floating
<1> QED
  BY <1>1, Zenon DEF JsonOf

(* A number of the type, the sign of which is a bit of its own, is read    *)
(* back.                                                                   *)
LEMMA SignedReadBack ==
  ASSUME NEW type \in Signed, NEW num \in -SignBit(type) .. SignBit(type) - 1
  PROVE  /\ Raw(type, num) \in Nat
         /\ JsonOf(type, Raw(type, num)) = <<"number", num>>
<1>1. SignBit(type) \in Int
  BY SignBits
<1>2. type # "STRING" /\ type # "BOOL" /\ type \notin Floating
  BY DEF Signed, Floating
<1>3. CASE num < 0
  <2>1. Raw(type, num) = num + 2 * SignBit(type)
    BY <1>3 DEF Raw
  <2>2. num + 2 * SignBit(type) >= SignBit(type) /\ num + 2 * SignBit(type) \in Nat
    BY <1>1
  <2>3. (num + 2 * SignBit(type)) - 2 * SignBit(type) = num
    BY <1>1
  <2> QED
    BY <2>1, <2>2, <2>3, JsonOfNegative
<1>4. CASE num >= 0
  <2>1. Raw(type, num) = num /\ ~(num >= SignBit(type)) /\ num \in Nat
    BY <1>1, <1>4 DEF Raw
  <2> QED
    BY <1>2, <2>1, JsonOfNumber
<1> QED
  BY <1>1, <1>3, <1>4

LEMMA EncodedText ==
  ASSUME NEW v, v.type = "STRING", NEW e
  PROVE  Encoded(v, e) = [fields   |-> <<Field("STRING", v.text)>>,
                          json     |-> <<"string", v.text>>,
                          readable |-> TRUE]
BY Zenon DEF Encoded

LEMMA EncodedArray ==
  ASSUME NEW v, v.type = "ARRAY", NEW e
  PROVE  Encoded(v, e) =
           [fields   |-> <<Field("UINT32", v.elem), Field("UINT64", Len(v.items))>>
                           \o FlattenSeq([n \in DOMAIN v.items |-> e[v.items[n]].fields]),
            json     |-> <<"array", [n \in DOMAIN v.items |-> e[v.items[n]].json]>>,
            readable |-> \A n \in DOMAIN v.items : e[v.items[n]].readable]
<1>1. v.type # "STRING"
  OBVIOUS
<1> QED
  BY <1>1, Zenon DEF Encoded

LEMMA EncodedNumber ==
  ASSUME NEW v, v.type # "STRING", v.type # "ARRAY", NEW e
  PROVE  Encoded(v, e) =
           [fields   |-> <<Field(v.type, Raw(v.type, v.num))>>,
            json     |-> IF v.type = "BOOL" THEN <<"boolean", v.num # 0>>
                         ELSE IF v.type \in Floating THEN <<"float", v.num>>
                         ELSE <<"number", v.num>>,
            readable |-> v.type # "BFLOAT16"]
BY Zenon DEF Encoded

LEMMA ScalarEncoding ==
  ASSUME NEW v \in Values, v.type # "ARRAY"
  PROVE  /\ Encoding[v].fields = <<ScalarField(v)>>
         /\ ScalarField(v) \in AnyField
         /\ v.type \in ValueTypes
         /\ Encoding[v].readable <=> v.type \in Scalars
         /\ v.type \in Scalars => JsonOf(v.type, ScalarField(v).value) = Encoding[v].json
         /\ Encoding[v].json[1] \in {"string", "boolean", "number", "float"}
<1>1. Encoding[v] = Encoded(v, Encoding) /\ IsValue(v)
  BY EncodingIs, ValuesAreTyped
<1>2. CASE v.type = "STRING"
  <2>1. Encoding[v] = [fields |-> <<Field("STRING", v.text)>>,
                       json |-> <<"string", v.text>>, readable |-> TRUE]
    BY <1>1, <1>2, EncodedText
  <2>2. v.text \in STRING /\ Len(v.text) \in Nat
    BY <1>1, <1>2 DEF IsValue, IsText, Signed, Unsigned, Floating
  <2>3. ScalarField(v) = Field("STRING", v.text)
    BY <1>2 DEF ScalarField
  <2>4. Field("STRING", v.text) \in AnyField
    BY <2>2 DEF Field, AnyField, FieldTypes
  <2>5. JsonOf("STRING", v.text) = <<"string", v.text>> /\ Field("STRING", v.text).value = v.text
    BY JsonOfText DEF Field
  <2> QED
    BY <1>2, <2>1, <2>3, <2>4, <2>5 DEF ValueTypes, Scalars
<1>3. CASE v.type # "STRING"
  <2> DEFINE raw == Raw(v.type, v.num)
  <2>1. Encoding[v] = [fields   |-> <<Field(v.type, raw)>>,
                       json     |-> IF v.type = "BOOL" THEN <<"boolean", v.num # 0>>
                                    ELSE IF v.type \in Floating THEN <<"float", v.num>>
                                    ELSE <<"number", v.num>>,
                       readable |-> v.type # "BFLOAT16"]
    BY <1>1, <1>3, EncodedNumber
  <2>2. v.type \in Signed \cup Unsigned \cup Floating \cup {"BOOL"}
    BY <1>1, <1>3 DEF IsValue
  <2>3. v.type \in ValueTypes /\ v.type \in FieldTypes
    BY <2>2 DEF ValueTypes, FieldTypes
  <2>4. /\ raw \in Int
        /\ v.type \in Scalars => JsonOf(v.type, raw) = Encoding[v].json
    <3>1. CASE v.type \in Signed
      <4>1. v.num \in -SignBit(v.type) .. SignBit(v.type) - 1
        BY <1>1, <3>1 DEF IsValue, Signed, Unsigned, Floating
      <4>2. v.type # "BOOL" /\ v.type \notin Floating
        BY <3>1 DEF Signed, Floating
      <4> QED
        BY <2>1, <3>1, <4>1, <4>2, SignedReadBack
    <3>2. CASE v.type \in Unsigned
      <4>1. v.num \in Nat
        BY <1>1, <3>2 DEF IsValue, Signed, Unsigned, Floating
      <4>2. raw = v.num
        BY <4>1 DEF Raw
      <4>3. v.type # "BOOL" /\ v.type # "STRING" /\ v.type \notin Signed /\ v.type \notin Floating
        BY <3>2 DEF Signed, Unsigned, Floating
      <4> QED
        BY <2>1, <4>1, <4>2, <4>3, JsonOfNumber
    <3>4. CASE v.type \in Floating
      <4>1. v.num \in Int
        BY <1>1, <3>4 DEF IsValue, Signed, Unsigned, Floating
      <4>2. v.type # "BOOL" /\ v.type \notin Signed
        BY <3>4 DEF Signed, Floating
      <4>3. raw = v.num
        BY <4>2 DEF Raw
      <4> QED
        BY <2>1, <3>4, <4>1, <4>2, <4>3, JsonOfFloat
    <3>3. CASE v.type = "BOOL"
      <4>1. v.num \in {0, 1}
        BY <1>1, <3>3 DEF IsValue, Signed, Unsigned, Floating
      <4>2. raw = v.num
        BY <4>1 DEF Raw
      <4> QED
        BY <2>1, <3>3, <4>1, <4>2, JsonOfBool
    <3> QED
      BY <2>2, <3>1, <3>2, <3>3, <3>4
  <2>5. ScalarField(v) = Field(v.type, raw)
    BY <1>3 DEF ScalarField
  <2> HIDE DEF raw
  <2>6. Field(v.type, raw) \in AnyField /\ Field(v.type, raw).value = raw
    BY <1>3, <2>3, <2>4 DEF Field, AnyField
  <2>7. v.type # "BFLOAT16" <=> v.type \in Scalars
    BY <2>2 DEF Scalars, Signed, Unsigned, Floating
  <2>8. Encoding[v].readable <=> v.type \in Scalars
    <3> DEFINE json == IF v.type = "BOOL" THEN <<"boolean", v.num # 0>>
                       ELSE IF v.type \in Floating THEN <<"float", v.num>> ELSE <<"number", v.num>>
               known == v.type # "BFLOAT16"
    <3>1. known \in BOOLEAN /\ Encoding[v] = [fields |-> <<Field(v.type, raw)>>, json |-> json, readable |-> known]
      BY <2>1
    <3> HIDE DEF json, known
    <3>2. Encoding[v].readable = known
      BY <3>1
    <3> QED
      BY <2>7, <3>2 DEF known
  <2>9. Encoding[v].json[1] \in {"string", "boolean", "number", "float"}
    BY <2>1
  <2>10. Encoding[v].fields = <<Field(v.type, raw)>>
    BY <2>1
  <2> QED
    BY <2>3, <2>4, <2>5, <2>6, <2>8, <2>9, <2>10
<1> QED
  BY <1>2, <1>3

ItemParts(v) == [n \in DOMAIN v.items |-> Encoding[v.items[n]].fields]

LEMMA ArrayIs ==
  ASSUME NEW v \in Values, v.type = "ARRAY"
  PROVE  /\ v.items \in Seq(Values) /\ v.elem \in ValueTypes
         /\ \A n \in DOMAIN v.items : v.items[n].type = v.elem
         /\ Encoding[v].fields = <<Field("UINT32", v.elem), Field("UINT64", Len(v.items))>>
                                   \o FlattenSeq(ItemParts(v))
         /\ Encoding[v].json = <<"array", [n \in DOMAIN v.items |-> Encoding[v.items[n]].json]>>
         /\ Encoding[v].readable <=> \A n \in DOMAIN v.items : Encoding[v.items[n]].readable
<1>1. Encoding[v] = Encoded(v, Encoding) /\ IsValue(v)
  BY EncodingIs, ValuesAreTyped
<1>2. /\ v.items \in Seq(Values) /\ v.elem \in ValueTypes
      /\ \A n \in DOMAIN v.items : v.items[n].type = v.elem
  BY <1>1 DEF IsValue, Signed, Unsigned, Floating
<1> DEFINE f == <<Field("UINT32", v.elem), Field("UINT64", Len(v.items))>>
                  \o FlattenSeq(ItemParts(v))
           j == <<"array", [n \in DOMAIN v.items |-> Encoding[v.items[n]].json]>>
           r == \A n \in DOMAIN v.items : Encoding[v.items[n]].readable
<1>3. r \in BOOLEAN /\ Encoding[v] = [fields |-> f, json |-> j, readable |-> r]
  BY <1>1, EncodedArray DEF ItemParts
<1> HIDE DEF f, j, r
<1>4. Encoding[v].fields = f /\ Encoding[v].json = j /\ Encoding[v].readable = r
  BY <1>3
<1> QED
  BY <1>2, <1>4, Zenon DEF f, j, r

LEMMA ArrayHead ==
  ASSUME NEW v \in Values, v.type = "ARRAY"
  PROVE  /\ Field("UINT32", v.elem) \in AnyField
         /\ Field("UINT64", Len(v.items)) \in AnyField
         /\ Field("UINT32", v.elem).value = v.elem
         /\ Field("UINT64", Len(v.items)).value = Len(v.items)
<1>1. v.elem \in ValueTypes /\ v.items \in Seq(Values)
  BY ArrayIs
<1> QED
  BY <1>1 DEF Field, AnyField, FieldTypes, Unsigned

LEMMA EncodingType == \A v \in Values : Encoding[v].fields \in Seq(AnyField)
<1> DEFINE T == {v \in Values : Encoding[v].fields \in Seq(AnyField)}
<1>1. ASSUME NEW v \in Values, ItemsIn(v, T) PROVE v \in T
  <2>1. CASE v.type # "ARRAY"
    <3>1. Encoding[v].fields = <<ScalarField(v)>> /\ ScalarField(v) \in AnyField
      BY <2>1, ScalarEncoding
    <3>2. <<ScalarField(v)>> \in Seq(AnyField)
      BY <3>1
    <3> QED
      BY <3>1, <3>2, Zenon
  <2>2. CASE v.type = "ARRAY"
    <3>1. /\ v.items \in Seq(Values)
          /\ \A n \in DOMAIN v.items : Encoding[v.items[n]].fields \in Seq(AnyField)
      BY <1>1, <2>2, ArrayIs DEF ItemsIn
    <3>2. ItemParts(v) \in Seq(Seq(AnyField))
      <4>1. DOMAIN v.items = 1 .. Len(v.items) /\ Len(v.items) \in Nat
        BY <3>1
      <4>2. ItemParts(v) \in [1 .. Len(v.items) -> Seq(AnyField)]
        BY <3>1, <4>1 DEF ItemParts
      <4> QED
        BY <4>1, <4>2
    <3>3. FlattenSeq(ItemParts(v)) \in Seq(AnyField)
      BY <3>2, FlattenedType
    <3>4. <<Field("UINT32", v.elem), Field("UINT64", Len(v.items))>> \in Seq(AnyField)
      BY <2>2, ArrayHead
    <3>5. Encoding[v].fields = <<Field("UINT32", v.elem), Field("UINT64", Len(v.items))>>
                                 \o FlattenSeq(ItemParts(v))
      BY <2>2, ArrayIs
    <3>6. <<Field("UINT32", v.elem), Field("UINT64", Len(v.items))>>
            \o FlattenSeq(ItemParts(v)) \in Seq(AnyField)
      BY <3>3, <3>4
    <3> QED
      BY <3>5, <3>6, Zenon
  <2> QED
    BY <2>1, <2>2
<1>2. Values \subseteq T
  <2> HIDE DEF T
  <2> QED
    BY <1>1, ValueInduction
<1> QED
  BY <1>2

ItemsFrom(v, k) == From(ItemParts(v), k)

LEMMA ArrayEncoding ==
  ASSUME NEW v \in Values, v.type = "ARRAY"
  PROVE  /\ Encoding[v].fields = <<Field("UINT32", v.elem), Field("UINT64", Len(v.items))>>
                                   \o ItemsFrom(v, 1)
         /\ ItemsFrom(v, Len(v.items) + 1) = <<>>
         /\ \A k \in 1 .. Len(v.items) + 1 : ItemsFrom(v, k) \in Seq(AnyField)
         /\ \A k \in 1 .. Len(v.items) :
              ItemsFrom(v, k) = Encoding[v.items[k]].fields \o ItemsFrom(v, k + 1)
<1>1. v.items \in Seq(Values)
  BY ArrayIs
<1>2. DOMAIN v.items = 1 .. Len(v.items) /\ Len(v.items) \in Nat
  BY <1>1
<1>3. ItemParts(v) \in [1 .. Len(v.items) -> Seq(AnyField)]
  BY <1>1, <1>2, EncodingType DEF ItemParts
<1>4. ItemParts(v) \in Seq(Seq(AnyField)) /\ Len(ItemParts(v)) = Len(v.items)
  BY <1>2, <1>3
<1>5. \A k \in 1 .. Len(v.items) : ItemParts(v)[k] = Encoding[v.items[k]].fields
  BY <1>2 DEF ItemParts
<1> QED
  BY <1>4, <1>5, FromIs, ArrayIs DEF ItemsFrom

LEMMA ValueKinds ==
  ASSUME NEW v \in Values
  PROVE  /\ v.type \in ValueTypes
         /\ Encoding[v].json[1] \in {"string", "array"} \cup Numbers
<1>1. CASE v.type # "ARRAY"
  <2>1. v.type \in ValueTypes /\ Encoding[v].json[1] \in {"string", "boolean", "number", "float"}
    BY <1>1, ScalarEncoding
  <2> QED
    BY <2>1 DEF Numbers
<1>2. CASE v.type = "ARRAY"
  <2>1. Encoding[v].json = <<"array", [n \in DOMAIN v.items |-> Encoding[v.items[n]].json]>>
    BY <1>2, ArrayIs
  <2> QED
    BY <1>2, <2>1 DEF ValueTypes
<1> QED
  BY <1>1, <1>2


-----------------------------------------------------------------------------
(* Rounding up, as the writer does it and as the parser does it. *)
LEMMA Division ==
  ASSUME NEW A \in Nat \ {0}, NEW n \in Int, NEW q \in Int, NEW r \in 0 .. A - 1,
         n = q * A + r
  PROVE  n \div A = q /\ n % A = r
OBVIOUS

LEMMA RoundedUpType ==
  ASSUME NEW A \in Nat \ {0}, NEW n \in Nat
  PROVE  RoundedUp(n, A) \in Nat
<1>1. (n + A - 1) \div A \in Nat
  OBVIOUS
<1>2. \A x, y \in Nat : x * y \in Nat
  OBVIOUS
<1> QED
  BY <1>1, <1>2 DEF RoundedUp

LEMMA PaddingRoundsUp ==
  ASSUME NEW A \in Nat \ {0}, NEW n \in Nat
  PROVE  n + ((A - (n % A)) % A) = RoundedUp(n, A)
<1> DEFINE q == n \div A
           r == n % A
<1>1. q \in Int /\ r \in 0 .. A - 1 /\ n = q * A + r
  BY SMT
<1> HIDE DEF q, r
<1>2. q * A \in Int /\ (q + 1) * A = q * A + A
  BY <1>1
<1>3. CASE r = 0
  <2>1. (A - r) % A = 0
    <3>1. A - r = 1 * A + 0 /\ 0 \in 0 .. A - 1
      BY <1>3
    <3> QED
      BY <1>1, <3>1, Division
  <2>2. (n + A - 1) \div A = q
    <3>1. n + A - 1 = q * A + (A - 1) /\ A - 1 \in 0 .. A - 1
      BY <1>1, <1>2, <1>3
    <3> QED
      BY <1>1, <3>1, Division
  <2>3. q * A = n
    BY <1>1, <1>2, <1>3
  <2>4. n + ((A - (n % A)) % A) = n
    BY <2>1 DEF r
  <2> QED
    BY <2>2, <2>3, <2>4 DEF RoundedUp
<1>4. CASE r # 0
  <2>1. (A - r) % A = A - r
    <3>1. A - r = 0 * A + (A - r) /\ A - r \in 0 .. A - 1
      BY <1>1, <1>4
    <3> QED
      BY <1>1, <3>1, Division
  <2>2. (n + A - 1) \div A = q + 1
    <3>1. n + A - 1 = (q + 1) * A + (r - 1) /\ r - 1 \in 0 .. A - 1
      BY <1>1, <1>2, <1>4
    <3> QED
      BY <1>1, <3>1, Division
  <2> QED
    BY <1>1, <1>2, <2>1, <2>2 DEF RoundedUp, r
<1> QED
  BY <1>3, <1>4

(* Documents.  The fields of the header, cut into those of the entries and *)
(* those of the tensors.                                                   *)
LEMMA DocumentIs ==
  ASSUME NEW d \in Documents
  PROVE  /\ IsText(d.magic) /\ d.version \in Nat
         /\ d.kvs \in Seq(STRING \X Values)
         /\ \A n \in DOMAIN d.kvs : IsText(d.kvs[n][1])
         /\ d.tensors \in Seq([name : STRING, dims : Seq(Nat), dtype : DataTypes])
         /\ \A i \in DOMAIN d.tensors : IsText(d.tensors[i].name)
         /\ d.alignment \in 1 .. Uint32Values - 1
         /\ d.alignment \in Nat \ {0}
<1>1. /\ IsText(d.magic) /\ d.version \in Nat
      /\ d.kvs \in Seq(STRING \X Values)
      /\ \A n \in DOMAIN d.kvs : IsText(d.kvs[n][1])
      /\ d.tensors \in Seq([name : STRING, dims : Seq(Nat), dtype : DataTypes])
      /\ \A i \in DOMAIN d.tensors : IsText(d.tensors[i].name)
      /\ d.alignment \in 1 .. Uint32Values - 1
  BY DocumentsAreWritten, Zenon
<1>2. d.alignment \in Nat \ {0}
  BY <1>1, Uint32ValuesIsNat
<1> QED
  BY <1>1, <1>2, Zenon

(* The sizes of the data types. *)
LEMMA TableSizes ==
  /\ \A type \in DOMAIN ElementBytes : ElementBytes[type] \in Nat
  /\ \A type \in DOMAIN BlockBytes : BlockBytes[type] \in Nat
  /\ \A type \in DOMAIN SuperBlockBytes : SuperBlockBytes[type] \in Nat
<1>1. \A type \in DOMAIN ElementBytes : ElementBytes[type] \in Nat
  BY DEF ElementBytes
<1>2. \A type \in DOMAIN BlockBytes : BlockBytes[type] \in Nat
  BY DEF BlockBytes
<1>3. \A type \in DOMAIN SuperBlockBytes : SuperBlockBytes[type] \in Nat
  BY DEF SuperBlockBytes
<1> QED
  BY <1>1, <1>2, <1>3

LEMMA TypesApart ==
  ASSUME NEW type \in DOMAIN ElementBytes
  PROVE  /\ type \notin DOMAIN BlockBytes /\ type \notin DOMAIN SuperBlockBytes
         /\ type \notin {"IQ4_NL", "MXFP4", "Q4_0", "Q4_1", "Q5_0", "Q5_1", "Q8_0", "Q8_1"}
<1>1. type \in {"F64", "I64", "F32", "I32", "F16", "BF16", "I16", "I8"}
  BY DEF ElementBytes
<1>2. type \notin DOMAIN BlockBytes
  BY <1>1 DEF BlockBytes
<1>3. type \notin DOMAIN SuperBlockBytes
  BY <1>1 DEF SuperBlockBytes
<1>4. type \notin {"IQ4_NL", "MXFP4", "Q4_0", "Q4_1", "Q5_0", "Q5_1", "Q8_0", "Q8_1"}
  BY <1>1
<1> QED
  BY <1>2, <1>3, <1>4

LEMMA DataBytesType ==
  ASSUME NEW t, t.dims \in Seq(Nat), t.dtype \in DataTypes
  PROVE  DataBytes(t) \in Nat
<1> DEFINE elements == Product(t.dims)
<1>1. elements \in Nat /\ elements \div 32 \in Nat /\ elements \div 256 \in Nat
  BY ProductType
<1> HIDE DEF elements
<1>2. \A x, y \in Nat : x * y \in Nat
  OBVIOUS
<1>3. CASE t.dtype \in DOMAIN ElementBytes
  <2>1. DataBytes(t) = elements * ElementBytes[t.dtype]
    BY <1>3, TypesApart, Zenon DEF DataBytes, elements
  <2> QED
    BY <1>1, <1>2, <1>3, <2>1, TableSizes
<1>4. CASE t.dtype \notin DOMAIN ElementBytes /\ t.dtype \in DOMAIN BlockBytes
  <2>1. DataBytes(t) = (elements \div 32) * BlockBytes[t.dtype]
    BY <1>4, Zenon DEF DataBytes, elements
  <2> QED
    BY <1>1, <1>2, <1>4, <2>1, TableSizes
<1>5. CASE t.dtype \notin DOMAIN ElementBytes /\ t.dtype \notin DOMAIN BlockBytes
  <2>1. DataBytes(t) = (elements \div 256) * SuperBlockBytes[t.dtype]
    BY <1>5, Zenon DEF DataBytes, elements
  <2>2. t.dtype \in DOMAIN SuperBlockBytes
    BY <1>5, Zenon DEF DataTypes
  <2> QED
    BY <1>1, <1>2, <2>1, <2>2, TableSizes
<1> QED
  BY <1>3, <1>4, <1>5

LEMMA EntryIs ==
  ASSUME NEW d \in Documents, NEW n \in 1 .. Len(d.kvs)
  PROVE  d.kvs[n][1] \in STRING /\ Len(d.kvs[n][1]) \in Nat /\ d.kvs[n][2] \in Values
<1>1. d.kvs \in Seq(STRING \X Values) /\ \A m \in DOMAIN d.kvs : IsText(d.kvs[m][1])
  BY DocumentIs
<1>2. n \in DOMAIN d.kvs /\ d.kvs[n] \in STRING \X Values
  BY <1>1
<1> QED
  BY <1>1, <1>2 DEF IsText

LEMMA TensorIs ==
  ASSUME NEW d \in Documents, NEW i \in 1 .. Len(d.tensors)
  PROVE  /\ d.tensors[i].name \in STRING /\ Len(d.tensors[i].name) \in Nat
         /\ d.tensors[i].dims \in Seq(Nat) /\ d.tensors[i].dtype \in DataTypes
         /\ DataBytes(d.tensors[i]) \in Nat
<1>1. /\ d.tensors \in Seq([name : STRING, dims : Seq(Nat), dtype : DataTypes])
      /\ \A m \in DOMAIN d.tensors : IsText(d.tensors[m].name)
  BY DocumentIs
<1> DEFINE T == [name : STRING, dims : Seq(Nat), dtype : DataTypes]
<1>2. i \in DOMAIN d.tensors /\ d.tensors[i] \in T
  <2> HIDE DEF T
  <2>1. d.tensors \in Seq(T)
    BY <1>1, Zenon DEF T
  <2> QED
    BY <2>1
<1>3. DataBytes(d.tensors[i]) \in Nat
  BY <1>2, DataBytesType
<1> QED
  BY <1>1, <1>2, <1>3 DEF IsText

LEMMA DataOffsetType ==
  ASSUME NEW d \in Documents, NEW i \in 1 .. Len(d.tensors)
  PROVE  DataOffset(d, i) \in Nat
<1> DEFINE NextOffset(x, n) == RoundedUp(x + DataBytes(d.tensors[n - 1]), d.alignment)
           Eq(f) == f = [n \in 1 .. i |-> IF n = 1 THEN 0 ELSE NextOffset(f[n - 1], n)]
           p == CHOOSE f : Eq(f)
           step == [x \in Nat \X Nat |-> IF x[2] \in 2 .. i THEN NextOffset(x[1], x[2]) ELSE 0]
<1>1. DataOffset(d, i) = p[i]
  BY DEF DataOffset
<1>2. Len(d.tensors) \in Nat /\ i \in Nat /\ 1 <= i
  BY DocumentIs
<1>3. \A n \in 2 .. i : \A x \in Nat : NextOffset(x, n) \in Nat
  <2> SUFFICES ASSUME NEW n \in 2 .. i, NEW x \in Nat PROVE NextOffset(x, n) \in Nat
    OBVIOUS
  <2>1. n - 1 \in 1 .. Len(d.tensors)
    BY <1>2
  <2>2. DataBytes(d.tensors[n - 1]) \in Nat
    BY <2>1, TensorIs
  <2>3. x + DataBytes(d.tensors[n - 1]) \in Nat /\ d.alignment \in Nat \ {0}
    BY <2>2, DocumentIs
  <2> QED
    BY <2>3, RoundedUpType
<1> HIDE DEF NextOffset
<1>4. step \in [Nat \X Nat -> Nat] /\ 0 \in Nat /\ 1 \in Nat
  BY <1>3
<1> HIDE DEF step
<1>5. PICK g \in [1 .. i -> Nat] : Steps(g, 1, i, 0, step)
  BY <1>2, <1>4, Recursion
<1>6. ASSUME NEW n \in 1 .. i, n # 1 PROVE g[n] = NextOffset(g[n - 1], n)
  <2>1. n \in 2 .. i /\ n - 1 \in 1 .. i /\ n \in Nat /\ g[n - 1] \in Nat
    BY <1>2, <1>6
  <2>2. g[n] = step[<<g[n - 1], n>>]
    BY <1>5, <1>6 DEF Steps
  <2> QED
    BY <2>1, <2>2 DEF step
<1>7. g[1] = 0
  BY <1>5 DEF Steps
<1>8. Eq(g)
  <2> SUFFICES ASSUME NEW n \in 1 .. i PROVE g[n] = IF n = 1 THEN 0 ELSE NextOffset(g[n - 1], n)
    OBVIOUS
  <2> QED
    BY <1>6, <1>7
<1>9. Eq(p)
  BY <1>8
<1> HIDE DEF p
<1>10. Passed(p, g, 1, i)
  <2>1. p[1] = g[1]
    BY <1>2, <1>7, <1>9
  <2> SUFFICES ASSUME NEW n \in 1 .. i, n # 1, p[n - 1] = g[n - 1] PROVE p[n] = g[n]
    BY <2>1 DEF Passed
  <2> QED
    BY <1>6, <1>9
<1>11. p[i] = g[i] /\ g[i] \in Nat
  BY <1>2, <1>4, <1>10, SameFunction
<1> QED
  BY <1>1, <1>11


EntryParts(d) == [n \in DOMAIN d.kvs |-> EntryFields(d.kvs[n])]

TensorParts(d) == [i \in DOMAIN d.tensors |-> TensorFields(d, i)]

TensorsFrom(d, i) == From(TensorParts(d), i)

EntriesFrom(d, n) == From(EntryParts(d), n) \o TensorsFrom(d, 1)

KeyFields(kv) == <<Field("STRING", kv[1]), Field("UINT32", kv[2].type)>>

TensorHead(t) == <<Field("STRING", t.name), Field("UINT32", Len(t.dims))>>

DimsFields(t) == [k \in DOMAIN t.dims |-> Field("UINT64", t.dims[k])]

TensorTail(d, i) ==
  <<Field("UINT32", d.tensors[i].dtype), Field("UINT64", DataOffset(d, i))>>

CountFields(d) ==
  <<Field("MAGIC", d.magic), Field("UINT32", d.version),
    Field("UINT64", Len(d.tensors)), Field("UINT64", Len(d.kvs))>>

LEMMA KeyFieldsType ==
  ASSUME NEW d \in Documents, NEW n \in 1 .. Len(d.kvs)
  PROVE  /\ KeyFields(d.kvs[n]) \in Seq(AnyField)
         /\ Encoding[d.kvs[n][2]].fields \in Seq(AnyField)
         /\ EntryFields(d.kvs[n]) = KeyFields(d.kvs[n]) \o Encoding[d.kvs[n][2]].fields
         /\ EntryFields(d.kvs[n]) \in Seq(AnyField)
<1> DEFINE key_ == d.kvs[n][1]
           v == d.kvs[n][2]
<1>1. key_ \in STRING /\ Len(key_) \in Nat /\ v \in Values
  BY EntryIs
<1>2. v.type \in ValueTypes
  BY <1>1, ValueKinds
<1>3. Field("STRING", key_) \in AnyField
  BY <1>1 DEF Field, AnyField, FieldTypes
<1>4. Field("UINT32", v.type) \in AnyField
  BY <1>2 DEF Field, AnyField, FieldTypes, Unsigned
<1>5. Encoding[v].fields \in Seq(AnyField)
  BY <1>1, EncodingType
<1>6. KeyFields(d.kvs[n]) \in Seq(AnyField)
  BY <1>3, <1>4 DEF KeyFields
<1>7. EntryFields(d.kvs[n]) = KeyFields(d.kvs[n]) \o Encoding[v].fields
  BY DEF EntryFields, KeyFields
<1>8. KeyFields(d.kvs[n]) \o Encoding[v].fields \in Seq(AnyField)
  BY <1>5, <1>6
<1> QED
  BY <1>5, <1>6, <1>7, <1>8

LEMMA TensorFieldsType ==
  ASSUME NEW d \in Documents, NEW i \in 1 .. Len(d.tensors)
  PROVE  /\ TensorHead(d.tensors[i]) \in Seq(AnyField)
         /\ DimsFields(d.tensors[i]) \in Seq(AnyField)
         /\ Len(DimsFields(d.tensors[i])) = Len(d.tensors[i].dims)
         /\ TensorTail(d, i) \in Seq(AnyField)
         /\ TensorFields(d, i) =
              (TensorHead(d.tensors[i]) \o DimsFields(d.tensors[i])) \o TensorTail(d, i)
         /\ TensorFields(d, i) \in Seq(AnyField)
<1> DEFINE t == d.tensors[i]
<1>1. t.name \in STRING /\ Len(t.name) \in Nat /\ t.dims \in Seq(Nat) /\ t.dtype \in DataTypes
  BY TensorIs
<1>2. DataOffset(d, i) \in Nat
  BY DataOffsetType
<1>3. Field("STRING", t.name) \in AnyField
  BY <1>1 DEF Field, AnyField, FieldTypes
<1>4. Field("UINT32", Len(t.dims)) \in AnyField
  <2>1. Len(t.dims) \in Int
    BY <1>1
  <2> QED
    BY <2>1 DEF Field, AnyField, FieldTypes, Unsigned
<1>5. Field("UINT32", t.dtype) \in AnyField
  BY <1>1 DEF Field, AnyField, FieldTypes, Unsigned
<1>6. Field("UINT64", DataOffset(d, i)) \in AnyField
  BY <1>2 DEF Field, AnyField, FieldTypes, Unsigned
<1>7. \A k \in DOMAIN t.dims : Field("UINT64", t.dims[k]) \in AnyField
  BY <1>1 DEF Field, AnyField, FieldTypes, Unsigned
<1>8. DimsFields(t) \in Seq(AnyField) /\ Len(DimsFields(t)) = Len(t.dims)
  <2>1. DOMAIN t.dims = 1 .. Len(t.dims) /\ Len(t.dims) \in Nat
    BY <1>1
  <2>2. DimsFields(t) \in [1 .. Len(t.dims) -> AnyField]
    BY <1>7, <2>1 DEF DimsFields
  <2> QED
    BY <2>1, <2>2
<1>9. TensorHead(t) \in Seq(AnyField)
  BY <1>3, <1>4 DEF TensorHead
<1>10. TensorTail(d, i) \in Seq(AnyField)
  BY <1>5, <1>6 DEF TensorTail
<1>11. TensorFields(d, i) = (TensorHead(t) \o DimsFields(t)) \o TensorTail(d, i)
  BY Zenon DEF TensorFields, TensorHead, DimsFields, TensorTail
<1>12. (TensorHead(t) \o DimsFields(t)) \o TensorTail(d, i) \in Seq(AnyField)
  BY <1>8, <1>9, <1>10
<1> QED
  BY <1>8, <1>9, <1>10, <1>11, <1>12

LEMMA FunctionIsSequence ==
  ASSUME NEW n \in Nat, NEW S, NEW f \in [1 .. n -> S]
  PROVE  f \in Seq(S) /\ Len(f) = n
OBVIOUS

LEMMA PartsTypes ==
  ASSUME NEW d \in Documents
  PROVE  /\ EntryParts(d) \in Seq(Seq(AnyField)) /\ Len(EntryParts(d)) = Len(d.kvs)
         /\ TensorParts(d) \in Seq(Seq(AnyField)) /\ Len(TensorParts(d)) = Len(d.tensors)
         /\ Len(d.kvs) \in Nat /\ Len(d.tensors) \in Nat
<1>1. /\ DOMAIN d.kvs = 1 .. Len(d.kvs) /\ Len(d.kvs) \in Nat
      /\ DOMAIN d.tensors = 1 .. Len(d.tensors) /\ Len(d.tensors) \in Nat
  BY DocumentIs
<1>2. EntryParts(d) \in [1 .. Len(d.kvs) -> Seq(AnyField)]
  BY <1>1, KeyFieldsType DEF EntryParts
<1>3. TensorParts(d) \in [1 .. Len(d.tensors) -> Seq(AnyField)]
  BY <1>1, TensorFieldsType DEF TensorParts
<1>4. EntryParts(d) \in Seq(Seq(AnyField)) /\ Len(EntryParts(d)) = Len(d.kvs)
  BY <1>1, <1>2, FunctionIsSequence
<1>5. TensorParts(d) \in Seq(Seq(AnyField)) /\ Len(TensorParts(d)) = Len(d.tensors)
  BY <1>1, <1>3, FunctionIsSequence
<1> QED
  BY <1>1, <1>4, <1>5

LEMMA TensorsFromIs ==
  ASSUME NEW d \in Documents
  PROVE  /\ TensorsFrom(d, 1) = FlattenSeq(TensorParts(d))
         /\ \A i \in 1 .. Len(d.tensors) + 1 : TensorsFrom(d, i) \in Seq(AnyField)
         /\ TensorsFrom(d, Len(d.tensors) + 1) = <<>>
         /\ \A i \in 1 .. Len(d.tensors) :
              TensorsFrom(d, i) = TensorFields(d, i) \o TensorsFrom(d, i + 1)
<1>1. TensorParts(d) \in Seq(Seq(AnyField)) /\ Len(TensorParts(d)) = Len(d.tensors)
  BY PartsTypes
<1>2. \A i \in 1 .. Len(d.tensors) : TensorParts(d)[i] = TensorFields(d, i)
  BY DocumentIs DEF TensorParts
<1> QED
  BY <1>1, <1>2, FromIs DEF TensorsFrom

LEMMA EntriesFromIs ==
  ASSUME NEW d \in Documents
  PROVE  /\ \A n \in 1 .. Len(d.kvs) + 1 : EntriesFrom(d, n) \in Seq(AnyField)
         /\ EntriesFrom(d, Len(d.kvs) + 1) = TensorsFrom(d, 1)
         /\ \A n \in 1 .. Len(d.kvs) :
              EntriesFrom(d, n) =
                KeyFields(d.kvs[n]) \o (Encoding[d.kvs[n][2]].fields \o EntriesFrom(d, n + 1))
<1>1. EntryParts(d) \in Seq(Seq(AnyField)) /\ Len(EntryParts(d)) = Len(d.kvs) /\ Len(d.kvs) \in Nat
  BY PartsTypes
<1>2. TensorsFrom(d, 1) \in Seq(AnyField)
  <2>1. 1 \in 1 .. Len(d.tensors) + 1
    BY PartsTypes
  <2> QED
    BY <2>1, TensorsFromIs
<1>3. \A n \in 1 .. Len(d.kvs) + 1 : From(EntryParts(d), n) \in Seq(AnyField)
  BY <1>1, FromIs
<1>4. \A n \in 1 .. Len(d.kvs) + 1 : EntriesFrom(d, n) \in Seq(AnyField)
  BY <1>2, <1>3 DEF EntriesFrom
<1>5. EntriesFrom(d, Len(d.kvs) + 1) = TensorsFrom(d, 1)
  <2>1. From(EntryParts(d), Len(d.kvs) + 1) = <<>>
    BY <1>1, FromIs
  <2>2. <<>> \o TensorsFrom(d, 1) = TensorsFrom(d, 1)
    BY <1>2, ConcatEmptySeq
  <2> QED
    BY <2>1, <2>2 DEF EntriesFrom
<1>6. ASSUME NEW n \in 1 .. Len(d.kvs)
      PROVE  EntriesFrom(d, n) =
               KeyFields(d.kvs[n]) \o (Encoding[d.kvs[n][2]].fields \o EntriesFrom(d, n + 1))
  <2> DEFINE k == KeyFields(d.kvs[n])
             e == Encoding[d.kvs[n][2]].fields
             f == From(EntryParts(d), n + 1)
             t == TensorsFrom(d, 1)
  <2>1. k \in Seq(AnyField) /\ e \in Seq(AnyField) /\ EntryFields(d.kvs[n]) = k \o e
    BY KeyFieldsType
  <2>2. EntryParts(d)[n] = EntryFields(d.kvs[n])
    BY DocumentIs DEF EntryParts
  <2>3. From(EntryParts(d), n) = (k \o e) \o f
    BY <1>1, <2>1, <2>2, FromIs
  <2>4. n + 1 \in 1 .. Len(d.kvs) + 1 /\ f \in Seq(AnyField)
    BY <1>1, <1>3
  <2> HIDE DEF k, e, f, t
  <2>5. k \o e \in Seq(AnyField) /\ e \o f \in Seq(AnyField) /\ t \in Seq(AnyField)
    BY <1>2, <2>1, <2>4 DEF t
  <2>6. ((k \o e) \o f) \o t = (k \o e) \o (f \o t) /\ f \o t \in Seq(AnyField)
    <3>1. ((k \o e) \o f) \o t = (k \o e) \o (f \o t)
      BY ONLY <2>4, <2>5, Associative, Zenon
    <3>2. f \o t \in Seq(AnyField)
      BY ONLY <2>4, <2>5
    <3> QED
      BY <3>1, <3>2
  <2>7. (k \o e) \o (f \o t) = k \o (e \o (f \o t))
    BY <2>1, <2>6, Associative
  <2> QED
    BY <2>3, <2>6, <2>7, Zenon DEF EntriesFrom, k, e, f, t
<1> QED
  BY <1>4, <1>5, <1>6

LEMMA HeaderIs ==
  ASSUME NEW d \in Documents
  PROVE  /\ CountFields(d) \in Seq(AnyField)
         /\ HeaderFields(d) = CountFields(d) \o EntriesFrom(d, 1)
         /\ HeaderFields(d) \in Seq(AnyField)
<1>1. d.magic \in STRING /\ Len(d.magic) \in Nat /\ d.version \in Nat
  BY DocumentIs DEF IsText
<1>2. Len(d.kvs) \in Nat /\ Len(d.tensors) \in Nat
  BY PartsTypes
<1>3. Field("MAGIC", d.magic) \in AnyField
  BY <1>1 DEF Field, AnyField, FieldTypes
<1>4. \A n \in Nat : Field("UINT32", n) \in AnyField /\ Field("UINT64", n) \in AnyField
  BY DEF Field, AnyField, FieldTypes, Unsigned
<1>5. CountFields(d) \in Seq(AnyField)
  BY <1>1, <1>2, <1>3, <1>4 DEF CountFields
<1>6. EntryParts(d) \in Seq(Seq(AnyField)) /\ TensorParts(d) \in Seq(Seq(AnyField))
  BY PartsTypes
<1> DEFINE e == FlattenSeq(EntryParts(d))
           t == FlattenSeq(TensorParts(d))
<1>7. e \in Seq(AnyField) /\ t \in Seq(AnyField)
  BY <1>6, FlattenedType
<1>8. EntriesFrom(d, 1) = e \o t
  <2>1. From(EntryParts(d), 1) = e
    BY <1>6, FromIs
  <2>2. TensorsFrom(d, 1) = t
    BY TensorsFromIs
  <2> QED
    BY <2>1, <2>2 DEF EntriesFrom
<1>9. HeaderFields(d) = (CountFields(d) \o e) \o t
  BY Zenon DEF HeaderFields, CountFields, EntryParts, TensorParts
<1> HIDE DEF e, t
<1>10. (CountFields(d) \o e) \o t = CountFields(d) \o (e \o t)
  BY <1>5, <1>7, Associative
<1>11. CountFields(d) \o (e \o t) \in Seq(AnyField)
  BY <1>5, <1>7
<1> QED
  BY <1>5, <1>8, <1>9, <1>10, <1>11


-----------------------------------------------------------------------------
(* Reading on.  When the fields that are left begin with s, the next reads *)
(* give s and leave the others.                                            *)
LEMMA Reading ==
  ASSUME NEW f \in Seq(AnyField), NEW p \in 1 .. Len(f) + 1,
         NEW s \in Seq(AnyField), NEW t \in Seq(AnyField),
         SubSeq(f, p, Len(f)) = s \o t
  PROVE  /\ p + Len(s) \in 1 .. Len(f) + 1
         /\ SubSeq(f, p, p + Len(s) - 1) = s
         /\ SubSeq(f, p + Len(s), Len(f)) = t
         /\ \A k \in 1 .. Len(s) : f[p + k - 1] = s[k]
<1> DEFINE r == SubSeq(f, p, Len(f))
           L == Len(f)
           M == Len(s)
           N == Len(t)
<1>1. L \in Nat /\ M \in Nat /\ N \in Nat
  OBVIOUS
<1>2. /\ Len(r) = L - p + 1
      /\ \A k \in 1 .. L - p + 1 : r[k] = f[p + k - 1]
  BY <1>1
<1>3. /\ Len(r) = M + N
      /\ \A k \in 1 .. M : r[k] = s[k]
      /\ \A k \in 1 .. N : r[M + k] = t[k]
  BY <1>1
<1>4. \A k \in 1 .. L : f[k] \in AnyField
  OBVIOUS
<1> HIDE DEF r, L, M, N
<1>5. \A k \in 1 .. M : f[p + k - 1] = s[k]
  BY <1>1, <1>2, <1>3
<1>6. p + M \in 1 .. L + 1
  BY <1>1, <1>2, <1>3 DEF L
<1>7. SubSeq(f, p, p + M - 1) = s
  <2> DEFINE a == SubSeq(f, p, p + M - 1)
  <2>1. \A k \in p .. p + M - 1 : f[k] \in AnyField
    BY <1>1, <1>4, <1>6
  <2>2. /\ a \in Seq(AnyField)
        /\ Len(a) = IF p <= p + M - 1 THEN (p + M - 1) - p + 1 ELSE 0
        /\ \A k \in 1 .. (p + M - 1) - p + 1 : a[k] = f[p + k - 1]
    <3>1. p \in Int /\ p + M - 1 \in Int
      BY <1>1
    <3> QED
      BY <2>1, <3>1, SubSeqProperties
  <2>3. Len(a) = M
    BY <1>1, <2>2
  <2>4. \A k \in 1 .. M : a[k] = s[k]
    BY <1>1, <1>5, <2>2
  <2> HIDE DEF a
  <2>5. a = s
    BY <2>2, <2>3, <2>4, SeqEqual DEF M
  <2> QED
    BY <2>5 DEF a
<1>8. SubSeq(f, p + M, L) = t
  <2> DEFINE b == SubSeq(f, p + M, L)
  <2>1. \A k \in p + M .. L : f[k] \in AnyField
    BY <1>1, <1>4, <1>6
  <2>2. /\ b \in Seq(AnyField)
        /\ Len(b) = IF p + M <= L THEN L - (p + M) + 1 ELSE 0
        /\ \A k \in 1 .. L - (p + M) + 1 : b[k] = f[(p + M) + k - 1]
    <3>1. p + M \in Int /\ L \in Int
      BY <1>1
    <3> QED
      BY <2>1, <3>1, SubSeqProperties
  <2>3. Len(b) = N
    BY <1>1, <1>2, <1>3, <2>2
  <2>4. \A k \in 1 .. N : b[k] = t[k]
    <3> SUFFICES ASSUME NEW k \in 1 .. N PROVE b[k] = t[k]
      OBVIOUS
    <3>1. M + k \in 1 .. L - p + 1 /\ k \in 1 .. L - (p + M) + 1
      BY <1>1, <1>2, <1>3
    <3>2. b[k] = f[(p + M) + k - 1] /\ r[M + k] = f[p + (M + k) - 1] /\ r[M + k] = t[k]
      BY <1>2, <1>3, <2>2, <3>1
    <3>3. (p + M) + k - 1 = p + (M + k) - 1
      BY <1>1
    <3> QED
      BY <3>2, <3>3
  <2> HIDE DEF b
  <2>5. b = t
    BY <2>2, <2>3, <2>4, SeqEqual DEF N
  <2> QED
    BY <2>5 DEF b
<1> QED
  BY <1>5, <1>6, <1>7, <1>8 DEF L, M

-----------------------------------------------------------------------------
(* The last entry of a key, one entry after the other. *)
Updated(meta, k, json) ==
  [x \in DOMAIN meta \cup {k} |-> IF x = k THEN json ELSE meta[x]]

LEMMA MeantUpToNone == ASSUME NEW kvs PROVE MeantUpTo(kvs, 0) = <<>>
<1>1. 1 .. 0 = {}
  OBVIOUS
<1>2. {kvs[i][1] : i \in 1 .. 0} = {}
  BY <1>1
<1>3. DOMAIN MeantUpTo(kvs, 0) = {}
  BY <1>2 DEF MeantUpTo
<1> QED
  BY <1>2, <1>3 DEF MeantUpTo

LEMMA MeantUpToNext ==
  ASSUME NEW kvs, NEW n \in Nat
  PROVE  MeantUpTo(kvs, n + 1) =
           Updated(MeantUpTo(kvs, n), kvs[n + 1][1], Encoding[kvs[n + 1][2]].json)
<1> DEFINE places(m, k) == {i \in 1 .. m : kvs[i][1] = k}
           latest(m, k) == CHOOSE i \in places(m, k) : \A j \in places(m, k) : j <= i
           keys(m) == {kvs[i][1] : i \in 1 .. m}
           json(i) == Encoding[kvs[i][2]].json
<1>1. \A m : MeantUpTo(kvs, m) = [k \in keys(m) |-> json(latest(m, k))]
  BY DEF MeantUpTo
<1>2. 1 .. n + 1 = 1 .. n \cup {n + 1}
  OBVIOUS
<1>3. keys(n + 1) = keys(n) \cup {kvs[n + 1][1]}
  BY <1>2
<1>4. latest(n + 1, kvs[n + 1][1]) = n + 1
  <2>1. n + 1 \in places(n + 1, kvs[n + 1][1]) /\ \A j \in places(n + 1, kvs[n + 1][1]) : j <= n + 1 /\ j \in Int
    OBVIOUS
  <2> HIDE DEF places
  <2>2. \A i \in places(n + 1, kvs[n + 1][1]) :
          (\A j \in places(n + 1, kvs[n + 1][1]) : j <= i) => i = n + 1
    BY <2>1
  <2> QED
    BY <2>1, <2>2
<1>5. ASSUME NEW k, k # kvs[n + 1][1] PROVE latest(n + 1, k) = latest(n, k)
  <2>1. places(n + 1, k) = places(n, k)
    BY <1>2, <1>5
  <2> HIDE DEF places
  <2> QED
    BY <2>1
<1> HIDE DEF latest, keys, json
<1>6. DOMAIN MeantUpTo(kvs, n) = keys(n)
  BY <1>1
<1>7. MeantUpTo(kvs, n + 1) = [k \in keys(n + 1) |-> json(latest(n + 1, k))]
  BY <1>1
<1>8. \A k \in keys(n + 1) :
        json(latest(n + 1, k)) = IF k = kvs[n + 1][1] THEN json(n + 1) ELSE MeantUpTo(kvs, n)[k]
  BY <1>1, <1>3, <1>4, <1>5
<1>9. MeantUpTo(kvs, n + 1) =
        [k \in keys(n) \cup {kvs[n + 1][1]} |->
           IF k = kvs[n + 1][1] THEN json(n + 1) ELSE MeantUpTo(kvs, n)[k]]
  BY <1>3, <1>7, <1>8
<1> QED
  BY <1>6, <1>9, Zenon DEF Updated, json

Meanings == {Encoding[v].json : v \in Values}

LEMMA MeantUpToMeanings ==
  ASSUME NEW d \in Documents
  PROVE  \A k \in DOMAIN MeantUpTo(d.kvs, Len(d.kvs)) :
           MeantUpTo(d.kvs, Len(d.kvs))[k] \in Meanings
<1> DEFINE m(n) == MeantUpTo(d.kvs, n)
           T == {n \in Nat : n <= Len(d.kvs) => \A k \in DOMAIN m(n) : m(n)[k] \in Meanings}
<1>0. Len(d.kvs) \in Nat
  BY PartsTypes
<1>1. 0 \in T
  <2>1. DOMAIN m(0) = {}
    BY MeantUpToNone
  <2> HIDE DEF m
  <2> QED
    BY <2>1
<1>2. ASSUME NEW n \in Nat, n \in T PROVE n + 1 \in T
  <2> SUFFICES ASSUME n + 1 <= Len(d.kvs)
               PROVE  \A k \in DOMAIN m(n + 1) : m(n + 1)[k] \in Meanings
    BY <1>0
  <2> DEFINE json == Encoding[d.kvs[n + 1][2]].json
             k1 == d.kvs[n + 1][1]
  <2>1. m(n + 1) = Updated(m(n), k1, json)
    BY MeantUpToNext
  <2>2. json \in Meanings
    <3>1. n + 1 \in 1 .. Len(d.kvs)
      BY <1>0
    <3>2. d.kvs[n + 1][2] \in Values
      BY <3>1, EntryIs
    <3> QED
      BY <3>2 DEF Meanings
  <2>3. \A k \in DOMAIN m(n) : m(n)[k] \in Meanings
    BY <1>0, <1>2
  <2> HIDE DEF json, m, k1
  <2>4. DOMAIN m(n + 1) = DOMAIN m(n) \cup {k1}
    BY <2>1 DEF Updated
  <2> SUFFICES ASSUME NEW k \in DOMAIN m(n + 1) PROVE m(n + 1)[k] \in Meanings
    OBVIOUS
  <2>5. m(n + 1)[k] = IF k = k1 THEN json ELSE m(n)[k]
    BY <2>1, <2>4 DEF Updated
  <2> QED
    BY <2>2, <2>3, <2>4, <2>5
<1>3. Len(d.kvs) \in T
  <2> HIDE DEF T
  <2> QED
    BY <1>0, <1>1, <1>2, Induction
<1> QED
  BY <1>0, <1>3

LEMMA MeantUpToKinds ==
  ASSUME NEW d \in Documents
  PROVE  \A k \in DOMAIN MeantUpTo(d.kvs, Len(d.kvs)) :
           MeantUpTo(d.kvs, Len(d.kvs))[k][1] \in {"string", "array"} \cup Numbers
BY MeantUpToMeanings, ValueKinds DEF Meanings

(* A meaning that is a number converts to an integer, and an array can be  *)
(* counted.                                                                *)
LEMMA MeaningIs ==
  ASSUME NEW json \in Meanings
  PROVE  /\ json[1] \in Numbers => Whole(json) \in Int
         /\ json[1] = "array" => Len(json[2]) \in Nat
<1>1. PICK v \in Values : json = Encoding[v].json
  BY DEF Meanings
<1>2. Encoding[v] = Encoded(v, Encoding) /\ IsValue(v)
  BY EncodingIs, ValuesAreTyped
<1>3. CASE v.type = "STRING"
  <2>1. json = <<"string", v.text>>
    BY <1>1, <1>2, <1>3, EncodedText
  <2> QED
    BY <2>1 DEF Numbers
<1>4. CASE v.type = "ARRAY"
  <2>1. json = <<"array", [n \in DOMAIN v.items |-> Encoding[v.items[n]].json]>> /\ v.items \in Seq(Values)
    BY <1>1, <1>4, ArrayIs
  <2>2. json[1] = "array" /\ json[2] = [n \in 1 .. Len(v.items) |-> Encoding[v.items[n]].json]
    BY <2>1
  <2>3. Len(v.items) \in Nat
    BY <2>1
  <2>4. Len(json[2]) = Len(v.items)
    BY <2>2, <2>3
  <2> QED
    BY <2>2, <2>3, <2>4 DEF Numbers
<1>5. CASE v.type # "STRING" /\ v.type # "ARRAY"
  <2>1. v.num \in Int
    BY <1>2, <1>5, SignBits DEF IsValue
  <2>2. json = IF v.type = "BOOL" THEN <<"boolean", v.num # 0>>
               ELSE IF v.type \in Floating THEN <<"float", v.num>> ELSE <<"number", v.num>>
    BY <1>1, <1>2, <1>5, EncodedNumber
  <2>3. CASE v.type = "BOOL"
    <3>1. json[1] = "boolean"
      BY <2>2, <2>3
    <3> QED
      BY <3>1 DEF Whole
  <2>4. CASE v.type # "BOOL" /\ v.type \in Floating
    <3>1. json[1] = "float" /\ json[2] = v.num
      BY <2>2, <2>4
    <3>2. v.num \div FloatUnits \in Int /\ -((-v.num) \div FloatUnits) \in Int
      BY <2>1, FloatUnitsIsNat
    <3> QED
      BY <3>1, <3>2 DEF Whole
  <2>5. CASE v.type # "BOOL" /\ v.type \notin Floating
    <3>1. json[1] = "number" /\ json[2] = v.num
      BY <2>2, <2>5
    <3> QED
      BY <2>1, <3>1 DEF Whole
  <2> QED
    BY <2>3, <2>4, <2>5
<1> QED
  BY <1>3, <1>4, <1>5

-----------------------------------------------------------------------------
(* Nested arrays.  The arrays being read are in the document: w holds them *)
(* and a the fields after each of them.  Due is the value that is read     *)
(* next inside the first i arrays, After are the fields that follow it.    *)
Frame == [elem : ValueTypes, left : Nat, items : Seq(Meanings)]

AsRead(f, v) ==
  /\ v \in Values /\ v.type = "ARRAY"
  /\ f.elem = v.elem
  /\ Len(f.items) + f.left = Len(v.items)
  /\ \A n \in 1 .. Len(f.items) :
       Encoding[v.items[n]].readable /\ f.items[n] = Encoding[v.items[n]].json

Due(fr, w, val, i) == IF i = 0 THEN val ELSE w[i].items[Len(fr[i].items) + 1]

After(fr, w, a, rest, i) ==
  IF i = 0 THEN rest ELSE ItemsFrom(w[i], Len(fr[i].items) + 2) \o a[i]

Nested(fr, w, a, val, rest, i) ==
  /\ w[i] = Due(fr, w, val, i - 1) /\ a[i] = After(fr, w, a, rest, i - 1)
  /\ a[i] \in Seq(AnyField)
  /\ AsRead(fr[i], w[i])
  /\ i < Len(fr) => fr[i].left > 0
  /\ Encoding[val].readable => Encoding[w[i]].readable

Nesting(fr, w, a, val, rest) ==
  /\ fr \in Seq(Frame)
  /\ val \in Values /\ rest \in Seq(AnyField)
  /\ \A i \in 1 .. Len(fr) : Nested(fr, w, a, val, rest, i)

Waits(fr) == fr = <<>> \/ fr[Len(fr)].left > 0

Ahead(fr, w, a, val, rest) ==
  IF Waits(fr)
  THEN Encoding[Due(fr, w, val, Len(fr))].fields \o After(fr, w, a, rest, Len(fr))
  ELSE a[Len(fr)]

LEMMA FrameIs ==
  ASSUME NEW fr \in Seq(Frame), NEW i \in 1 .. Len(fr)
  PROVE  /\ fr[i] \in Frame /\ fr[i].elem \in ValueTypes /\ fr[i].left \in Nat
         /\ fr[i].items \in Seq(Meanings) /\ Len(fr[i].items) \in Nat
<1>1. fr[i] \in Frame
  OBVIOUS
<1> QED
  BY <1>1 DEF Frame

LEMMA DueIs ==
  ASSUME NEW fr, NEW w, NEW a, NEW val, NEW rest,
         Nesting(fr, w, a, val, rest), Waits(fr)
  PROVE  LET v == Due(fr, w, val, Len(fr))
         IN  /\ v \in Values /\ Encoding[v].fields \in Seq(AnyField)
             /\ After(fr, w, a, rest, Len(fr)) \in Seq(AnyField)
             /\ Encoding[val].readable => Encoding[v].readable
             /\ v.type = (IF fr = <<>> THEN val.type ELSE fr[Len(fr)].elem)
<1>1. fr \in Seq(Frame) /\ val \in Values /\ rest \in Seq(AnyField)
  BY DEF Nesting
<1>2. CASE fr = <<>>
  <2>1. Len(fr) = 0
    BY <1>2
  <2>2. Encoding[val].fields \in Seq(AnyField)
    BY <1>1, EncodingType
  <2> QED
    BY <1>1, <1>2, <2>1, <2>2 DEF Due, After
<1>3. CASE fr # <<>>
  <2> DEFINE L == Len(fr)
             n == Len(fr[L].items) + 1
             v == w[L].items[n]
  <2>1. L \in 1 .. Len(fr) /\ L # 0
    BY <1>1, <1>3
  <2>2. Nested(fr, w, a, val, rest, L) /\ fr[L].left > 0
    BY <1>3, <2>1 DEF Nesting, Waits
  <2>3. /\ fr[L].left \in Nat /\ Len(fr[L].items) \in Nat
    BY <1>1, <2>1, FrameIs
  <2>4. AsRead(fr[L], w[L]) /\ a[L] \in Seq(AnyField) /\ (Encoding[val].readable => Encoding[w[L]].readable)
    BY <2>2 DEF Nested
  <2>5. w[L] \in Values /\ w[L].type = "ARRAY" /\ w[L].elem = fr[L].elem /\ Len(fr[L].items) + fr[L].left = Len(w[L].items)
    BY <2>4 DEF AsRead
  <2> HIDE DEF L
  <2>6. /\ n \in 1 .. Len(w[L].items) /\ n + 1 \in 1 .. Len(w[L].items) + 1 /\ n + 1 = Len(fr[L].items) + 2
    <3>1. \A x, y, z : x \in Nat /\ y \in Nat /\ y > 0 /\ x + y = z =>
            x + 1 \in 1 .. z /\ (x + 1) + 1 \in 1 .. z + 1 /\ (x + 1) + 1 = x + 2
      OBVIOUS
    <3> QED
      BY <2>2, <2>3, <2>5, <3>1, Zenon
  <2>7. /\ w[L].items \in Seq(Values)
        /\ \A m \in DOMAIN w[L].items : w[L].items[m].type = w[L].elem
        /\ Encoding[w[L]].readable <=> \A m \in DOMAIN w[L].items : Encoding[w[L].items[m]].readable
    BY <2>5, ArrayIs
  <2>8. ItemsFrom(w[L], n + 1) \in Seq(AnyField)
    BY <2>5, <2>6, ArrayEncoding
  <2> HIDE DEF n
  <2>9. n \in DOMAIN w[L].items /\ v \in Values
    BY <2>6, <2>7
  <2>10. v.type = fr[L].elem /\ (Encoding[val].readable => Encoding[v].readable)
    BY <2>4, <2>5, <2>7, <2>9
  <2>11. Encoding[v].fields \in Seq(AnyField)
    BY <2>9, EncodingType
  <2>12. ItemsFrom(w[L], n + 1) \o a[L] \in Seq(AnyField)
    BY <2>4, <2>8
  <2>13. Due(fr, w, val, L) = v /\ After(fr, w, a, rest, L) = ItemsFrom(w[L], n + 1) \o a[L]
    BY <2>1, <2>6 DEF Due, After, n
  <2> HIDE DEF v
  <2> QED
    BY <1>3, <2>9, <2>10, <2>11, <2>12, <2>13 DEF L
<1> QED
  BY <1>2, <1>3


(* Only what is above an array depends on the state of its frame. *)
LEMMA SameNesting ==
  ASSUME NEW fr, NEW fr2, NEW w, NEW w2, NEW a, NEW a2, NEW val, NEW rest,
         NEW i \in Nat \ {0}, Nested(fr, w, a, val, rest, i),
         w2[i] = w[i], a2[i] = a[i],
         i # 1 => fr2[i - 1] = fr[i - 1] /\ w2[i - 1] = w[i - 1] /\ a2[i - 1] = a[i - 1],
         AsRead(fr2[i], w2[i]), i < Len(fr2) => fr2[i].left > 0
  PROVE  Nested(fr2, w2, a2, val, rest, i)
<1>0. i - 1 = 0 <=> i = 1
  OBVIOUS
<1>1. Due(fr2, w2, val, i - 1) = Due(fr, w, val, i - 1)
  BY <1>0, Zenon DEF Due
<1>2. After(fr2, w2, a2, rest, i - 1) = After(fr, w, a, rest, i - 1)
  BY <1>0, Zenon DEF After
<1> QED
  BY <1>1, <1>2 DEF Nested

LEMMA Replaced ==
  ASSUME NEW S, NEW s \in Seq(S), s # <<>>, NEW x \in S
  PROVE  LET r == Append(Front(s), x)
         IN  /\ r \in Seq(S) /\ Len(r) = Len(s) /\ r[Len(s)] = x
             /\ \A i \in 1 .. Len(s) - 1 : r[i] = s[i]
<1>1. Len(s) \in Nat \ {0}
  OBVIOUS
<1>2. /\ Front(s) \in Seq(S) /\ Len(Front(s)) = Len(s) - 1
      /\ \A i \in 1 .. Len(s) - 1 : Front(s)[i] = s[i]
  <2>1. \A i \in 1 .. Len(s) - 1 : s[i] \in S
    BY <1>1
  <2>2. 1 \in Int /\ Len(s) - 1 \in Int /\ (Len(s) - 1) - 1 + 1 = Len(s) - 1
    BY <1>1
  <2>3. /\ SubSeq(s, 1, Len(s) - 1) \in Seq(S)
        /\ Len(SubSeq(s, 1, Len(s) - 1)) = IF 1 <= Len(s) - 1 THEN (Len(s) - 1) - 1 + 1 ELSE 0
        /\ \A i \in 1 .. (Len(s) - 1) - 1 + 1 : SubSeq(s, 1, Len(s) - 1)[i] = s[1 + i - 1]
    BY <2>1, <2>2, SubSeqProperties
  <2>4. \A i \in 1 .. Len(s) - 1 : 1 + i - 1 = i
    OBVIOUS
  <2> QED
    BY <1>1, <2>2, <2>3, <2>4 DEF Front
<1> QED
  BY <1>1, <1>2

LEMMA ItemDelivered ==
  ASSUME NEW fr, NEW w, NEW a, NEW val, NEW rest,
         Nesting(fr, w, a, val, rest), Waits(fr), fr # <<>>,
         NEW json, json = Encoding[Due(fr, w, val, Len(fr))].json,
         Encoding[Due(fr, w, val, Len(fr))].readable
  PROVE  LET fr2 == Append(Front(fr), [Last(fr) EXCEPT !.left = @ - 1, !.items = Append(@, json)])
         IN  /\ Nesting(fr2, w, a, val, rest)
             /\ Ahead(fr2, w, a, val, rest) = After(fr, w, a, rest, Len(fr))
<1> DEFINE L == Len(fr)
           f == fr[L]
           g == [Last(fr) EXCEPT !.left = @ - 1, !.items = Append(@, json)]
           fr2 == Append(Front(fr), g)
           c == Len(f.items)
           v == Due(fr, w, val, L)
<1>1. /\ fr \in Seq(Frame) /\ val \in Values /\ rest \in Seq(AnyField)
      /\ L \in 1 .. L /\ L \in Nat \ {0}
  BY DEF Nesting
<1>2. /\ f \in Frame /\ f.left \in Nat /\ f.left > 0 /\ f.items \in Seq(Meanings) /\ c \in Nat
  BY <1>1, FrameIs DEF Waits
<1>3. v \in Values /\ json \in Meanings
  BY DueIs DEF Meanings
<1>4. g \in Frame /\ g.elem = f.elem /\ g.left = f.left - 1 /\ g.items = Append(f.items, json)
  <2>1. Append(f.items, json) \in Seq(Meanings) /\ f.left - 1 \in Nat
    BY <1>2, <1>3
  <2>2. g = [f EXCEPT !.left = f.left - 1, !.items = Append(f.items, json)]
    BY DEF Last
  <2> HIDE DEF f, g
  <2> QED
    BY <1>2, <2>1, <2>2 DEF Frame
<1>5. /\ fr2 \in Seq(Frame) /\ Len(fr2) = L /\ fr2[L] = g
      /\ \A i \in 1 .. L - 1 : fr2[i] = fr[i]
  BY <1>1, <1>4, Replaced
<1>6. \A i \in 1 .. L : Nested(fr, w, a, val, rest, i)
  BY DEF Nesting
<1>7. AsRead(f, w[L]) /\ a[L] \in Seq(AnyField)
  BY <1>1, <1>6 DEF Nested
<1>8. v = w[L].items[c + 1]
  BY <1>1 DEF Due
<1>9. /\ w[L] \in Values /\ w[L].type = "ARRAY" /\ f.elem = w[L].elem /\ c + f.left = Len(w[L].items)
      /\ \A n \in 1 .. c :
           Encoding[w[L].items[n]].readable /\ f.items[n] = Encoding[w[L].items[n]].json
  BY <1>7 DEF AsRead
<1> HIDE DEF L, f, g, fr2, c, v
<1>10. /\ Len(g.items) = c + 1 /\ g.items[c + 1] = json
       /\ \A n \in 1 .. c : g.items[n] = f.items[n]
  BY <1>2, <1>3, <1>4 DEF c
<1>11. AsRead(g, w[L])
  <2>1. Len(g.items) + g.left = Len(w[L].items)
    BY <1>2, <1>4, <1>9, <1>10
  <2>2. ASSUME NEW n \in 1 .. Len(g.items)
        PROVE  Encoding[w[L].items[n]].readable /\ g.items[n] = Encoding[w[L].items[n]].json
    <3>1. CASE n = c + 1
      <4>1. json = Encoding[w[L].items[c + 1]].json /\ Encoding[w[L].items[c + 1]].readable
        BY <1>8 DEF v, L
      <4> QED
        BY <1>10, <3>1, <4>1
    <3>2. CASE n # c + 1
      <4>1. n \in 1 .. c
        BY <1>2, <1>10, <3>2
      <4> QED
        BY <1>9, <1>10, <4>1
    <3> QED
      BY <3>1, <3>2
  <2> QED
    BY <1>4, <1>9, <2>1, <2>2 DEF AsRead
<1>12. ASSUME NEW i \in 1 .. L PROVE Nested(fr2, w, a, val, rest, i)
  <2>1. i \in Nat \ {0} /\ Nested(fr, w, a, val, rest, i)
    BY <1>1, <1>6
  <2>2. i # 1 => fr2[i - 1] = fr[i - 1]
    BY <1>1, <1>5
  <2>3. AsRead(fr2[i], w[i]) /\ (i < Len(fr2) => fr2[i].left > 0)
    <3>1. CASE i = L
      BY <1>1, <1>5, <1>11, <3>1
    <3>2. CASE i # L
      <4>1. i \in 1 .. L - 1 /\ i < L
        BY <1>1, <3>2
      <4>2. AsRead(fr[i], w[i]) /\ fr[i].left > 0
        BY <2>1, <4>1 DEF Nested, L
      <4> QED
        BY <1>5, <4>1, <4>2
    <3> QED
      BY <3>1, <3>2
  <2> QED
    BY <2>1, <2>2, <2>3, SameNesting
<1>13. Nesting(fr2, w, a, val, rest)
  BY <1>1, <1>5, <1>12 DEF Nesting
<1>14. After(fr, w, a, rest, L) = ItemsFrom(w[L], c + 2) \o a[L]
  BY <1>1 DEF After, L, f, c
<1>15. Ahead(fr2, w, a, val, rest) = ItemsFrom(w[L], c + 2) \o a[L]
  <2>0. fr2 # <<>>
    BY <1>1, <1>5
  <2>1. CASE g.left > 0
    <3>1. Waits(fr2)
      BY <1>5, <2>1 DEF Waits
    <3>2. Due(fr2, w, val, L) = w[L].items[c + 2]
      <4>1. Len(fr2[L].items) + 1 = c + 2
        BY <1>2, <1>5, <1>10
      <4> QED
        BY <1>1, <4>1 DEF Due
    <3>3. After(fr2, w, a, rest, L) = ItemsFrom(w[L], c + 3) \o a[L]
      <4>1. Len(fr2[L].items) + 2 = c + 3
        BY <1>2, <1>5, <1>10
      <4> QED
        BY <1>1, <4>1 DEF After
    <3> DEFINE e == Encoding[w[L].items[c + 2]].fields
    <3>4. c + 2 \in 1 .. Len(w[L].items) /\ (c + 2) + 1 = c + 3
      BY <1>2, <1>4, <1>9, <2>1
    <3>5. ItemsFrom(w[L], c + 2) = e \o ItemsFrom(w[L], c + 3)
      BY <1>9, <3>4, ArrayEncoding
    <3>6. e \in Seq(AnyField) /\ ItemsFrom(w[L], c + 3) \in Seq(AnyField)
      <4>1. c + 3 \in 1 .. Len(w[L].items) + 1
        BY <1>2, <3>4
      <4>2. w[L].items \in Seq(Values)
        BY <1>9, ArrayIs
      <4>3. w[L].items[c + 2] \in Values
        BY <3>4, <4>2
      <4> QED
        BY <1>9, <4>1, <4>3, ArrayEncoding, EncodingType
    <3> HIDE DEF e
    <3>7. (e \o ItemsFrom(w[L], c + 3)) \o a[L] = e \o (ItemsFrom(w[L], c + 3) \o a[L])
      BY <1>7, <3>6, Associative
    <3>8. Ahead(fr2, w, a, val, rest) = e \o (ItemsFrom(w[L], c + 3) \o a[L])
      BY <1>5, <3>1, <3>2, <3>3, Zenon DEF Ahead, e
    <3> QED
      BY <3>5, <3>7, <3>8
  <2>2. CASE ~(g.left > 0)
    <3>1. ~Waits(fr2)
      BY <1>5, <2>0, <2>2 DEF Waits
    <3>2. c + 2 = Len(w[L].items) + 1
      <4>1. f.left = 1
        BY <1>2, <1>4, <2>2
      <4> QED
        BY <1>2, <1>9, <4>1
    <3>3. ItemsFrom(w[L], c + 2) = <<>>
      BY <1>9, <3>2, ArrayEncoding
    <3>4. <<>> \o a[L] = a[L]
      BY <1>7, ConcatEmptySeq
    <3> QED
      BY <1>5, <3>1, <3>3, <3>4 DEF Ahead
  <2> QED
    BY <2>1, <2>2
<1> QED
  BY <1>13, <1>14, <1>15 DEF fr2, g, L


Leads(fr, val, rest, u) ==
  \E w, a : Nesting(fr, w, a, val, rest) /\ Ahead(fr, w, a, val, rest) = u

LEMMA ArrayOpened ==
  ASSUME NEW fr, NEW w, NEW a, NEW val, NEW rest,
         Nesting(fr, w, a, val, rest), Waits(fr),
         Due(fr, w, val, Len(fr)).type = "ARRAY",
         NEW g, g = [elem  |-> Due(fr, w, val, Len(fr)).elem,
                     left  |-> Len(Due(fr, w, val, Len(fr)).items),
                     items |-> <<>>]
  PROVE  Leads(Append(fr, g), val, rest,
               ItemsFrom(Due(fr, w, val, Len(fr)), 1) \o After(fr, w, a, rest, Len(fr)))
<1> DEFINE L == Len(fr)
           v == Due(fr, w, val, L)
           t == After(fr, w, a, rest, L)
           fr2 == Append(fr, g)
           w2 == [i \in 1 .. L + 1 |-> IF i = L + 1 THEN v ELSE w[i]]
           a2 == [i \in 1 .. L + 1 |-> IF i = L + 1 THEN t ELSE a[i]]
<1>1. fr \in Seq(Frame) /\ val \in Values /\ rest \in Seq(AnyField) /\ L \in Nat
  BY DEF Nesting
<1>2. v \in Values /\ t \in Seq(AnyField) /\ (Encoding[val].readable => Encoding[v].readable)
  BY DueIs
<1>3. v.type = "ARRAY" /\ g = [elem |-> v.elem, left |-> Len(v.items), items |-> <<>>]
  OBVIOUS
<1> HIDE DEF v, t
<1>4. v.items \in Seq(Values) /\ v.elem \in ValueTypes /\ Len(v.items) \in Nat
  <2>1. v.items \in Seq(Values) /\ v.elem \in ValueTypes
    BY <1>2, <1>3, ArrayIs
  <2> QED
    BY <2>1
<1>5. g \in Frame /\ g.elem = v.elem /\ g.left = Len(v.items) /\ g.items = <<>>
  BY <1>3, <1>4 DEF Frame
<1>6. /\ fr2 \in Seq(Frame) /\ Len(fr2) = L + 1 /\ fr2[L + 1] = g
      /\ \A i \in 1 .. L : fr2[i] = fr[i]
  BY <1>1, <1>5
<1>7. \A i \in 1 .. L : Nested(fr, w, a, val, rest, i)
  BY DEF Nesting
<1>8. w2[L + 1] = v /\ a2[L + 1] = t /\ \A i \in 1 .. L : w2[i] = w[i] /\ a2[i] = a[i]
  BY <1>1
<1>9. AsRead(g, v)
  BY <1>2, <1>3, <1>4, <1>5 DEF AsRead
<1> HIDE DEF L, fr2, w2, a2
<1>10. ASSUME NEW i \in 1 .. L PROVE Nested(fr2, w2, a2, val, rest, i)
  <2>1. i \in Nat \ {0} /\ Nested(fr, w, a, val, rest, i)
    BY <1>1, <1>7
  <2>2. i # 1 => fr2[i - 1] = fr[i - 1] /\ w2[i - 1] = w[i - 1] /\ a2[i - 1] = a[i - 1]
    BY <1>1, <1>6, <1>8
  <2>3. fr2[i] = fr[i] /\ w2[i] = w[i] /\ a2[i] = a[i]
    BY <1>6, <1>8
  <2>4. AsRead(fr[i], w[i]) /\ (i < L => fr[i].left > 0)
    BY <2>1 DEF Nested, L
  <2>5. i = L => fr[i].left > 0
    BY <1>1 DEF Waits, L
  <2>6. fr[i].left > 0
    BY <1>1, <2>4, <2>5
  <2> QED
    BY <2>1, <2>2, <2>3, <2>4, <2>6, SameNesting
<1>11. Nested(fr2, w2, a2, val, rest, L + 1)
  <2>1. (L + 1) - 1 = L /\ ~(L + 1 < Len(fr2))
    BY <1>1, <1>6
  <2>2. L # 0 => L \in 1 .. L
    BY <1>1
  <2>3. Due(fr2, w2, val, L) = v
    BY <1>6, <1>8, <2>2 DEF Due, v
  <2>4. After(fr2, w2, a2, rest, L) = t
    BY <1>6, <1>8, <2>2 DEF After, t
  <2> QED
    BY <1>2, <1>6, <1>8, <1>9, <2>1, <2>3, <2>4 DEF Nested
<1>12. Nesting(fr2, w2, a2, val, rest)
  <2>1. ASSUME NEW i \in 1 .. Len(fr2) PROVE Nested(fr2, w2, a2, val, rest, i)
    <3>1. i \in 1 .. L \/ i = L + 1
      BY <1>1, <1>6
    <3> QED
      BY <1>10, <1>11, <3>1
  <2> QED
    BY <1>1, <1>6, <2>1 DEF Nesting
<1>13. Ahead(fr2, w2, a2, val, rest) = ItemsFrom(v, 1) \o t
  <2>1. fr2 # <<>> /\ L + 1 # 0
    BY <1>1, <1>6
  <2>2. Len(fr2[L + 1].items) = 0
    BY <1>5, <1>6
  <2>3. CASE Len(v.items) > 0
    <3>1. Waits(fr2)
      BY <1>5, <1>6, <2>3 DEF Waits
    <3>2. Due(fr2, w2, val, L + 1) = v.items[1]
      BY <1>8, <2>1, <2>2 DEF Due
    <3>3. After(fr2, w2, a2, rest, L + 1) = ItemsFrom(v, 2) \o t
      BY <1>8, <2>1, <2>2 DEF After
    <3> DEFINE e == Encoding[v.items[1]].fields
    <3>4. 1 \in 1 .. Len(v.items) /\ 2 \in 1 .. Len(v.items) + 1
      BY <1>4, <2>3
    <3>5. ItemsFrom(v, 1) = e \o ItemsFrom(v, 1 + 1) /\ ItemsFrom(v, 2) \in Seq(AnyField)
      BY <1>2, <1>3, <3>4, ArrayEncoding
    <3>6. e \in Seq(AnyField)
      <4>1. v.items[1] \in Values
        BY <1>4, <3>4
      <4> QED
        BY <4>1, EncodingType
    <3> HIDE DEF e
    <3>7. (e \o ItemsFrom(v, 2)) \o t = e \o (ItemsFrom(v, 2) \o t)
      BY <1>2, <3>5, <3>6, Associative
    <3>8. Ahead(fr2, w2, a2, val, rest) = e \o (ItemsFrom(v, 2) \o t)
      BY <1>6, <3>1, <3>2, <3>3, Zenon DEF Ahead, e
    <3>9. 1 + 1 = 2
      OBVIOUS
    <3> QED
      BY <3>5, <3>7, <3>8, <3>9, Zenon
  <2>4. CASE ~(Len(v.items) > 0)
    <3>1. ~Waits(fr2)
      BY <1>5, <1>6, <2>1, <2>4 DEF Waits
    <3>2. Len(v.items) + 1 = 1
      BY <1>4, <2>4
    <3>3. ItemsFrom(v, 1) = <<>>
      BY <1>2, <1>3, <3>2, ArrayEncoding
    <3>4. <<>> \o t = t
      BY <1>2, ConcatEmptySeq
    <3> QED
      BY <1>6, <1>8, <3>1, <3>3, <3>4 DEF Ahead
  <2> QED
    BY <2>3, <2>4
<1> QED
  BY <1>12, <1>13, Zenon DEF Leads, fr2, v, t, L

LEMMA ArrayClosed ==
  ASSUME NEW fr, NEW w, NEW a, NEW val, NEW rest,
         Nesting(fr, w, a, val, rest), ~Waits(fr)
  PROVE  LET fr2 == Front(fr)
             v   == Due(fr2, w, val, Len(fr2))
         IN  /\ Nesting(fr2, w, a, val, rest) /\ Waits(fr2)
             /\ Ahead(fr, w, a, val, rest) = After(fr2, w, a, rest, Len(fr2))
             /\ Encoding[v].readable
             /\ Encoding[v].json = <<"array", fr[Len(fr)].items>>
<1> DEFINE L == Len(fr)
           fr2 == Front(fr)
<1>1. /\ fr \in Seq(Frame) /\ val \in Values /\ rest \in Seq(AnyField) /\ L \in Nat
      /\ fr # <<>> /\ ~(fr[L].left > 0)
  BY DEF Nesting, Waits
<1>2. L \in 1 .. L /\ L # 0
  BY <1>1
<1>3. /\ fr2 \in Seq(Frame) /\ Len(fr2) = L - 1
      /\ \A i \in 1 .. L - 1 : fr2[i] = fr[i]
  <2>1. fr \in Seq(Frame) /\ 1 \in Int /\ L - 1 \in Int
    BY <1>1
  <2>2. \A i \in 1 .. L - 1 : fr[i] \in Frame
    BY <1>1
  <2>3. /\ SubSeq(fr, 1, L - 1) \in Seq(Frame)
        /\ Len(SubSeq(fr, 1, L - 1)) = IF 1 <= L - 1 THEN (L - 1) - 1 + 1 ELSE 0
        /\ \A i \in 1 .. (L - 1) - 1 + 1 : SubSeq(fr, 1, L - 1)[i] = fr[1 + i - 1]
    BY <2>1, <2>2, SubSeqProperties
  <2>4. (L - 1) - 1 + 1 = L - 1 /\ \A i \in 1 .. L - 1 : 1 + i - 1 = i
    BY <1>1
  <2>5. fr2 = SubSeq(fr, 1, L - 1)
    BY DEF Front
  <2> QED
    BY <1>1, <1>2, <2>3, <2>4, <2>5
<1>4. \A i \in 1 .. L : Nested(fr, w, a, val, rest, i)
  BY DEF Nesting
<1> HIDE DEF L, fr2
<1>5. ASSUME NEW i \in 1 .. L - 1 PROVE Nested(fr2, w, a, val, rest, i) /\ fr2[i].left > 0
  <2>1. i \in Nat \ {0} /\ Nested(fr, w, a, val, rest, i) /\ fr2[i] = fr[i] /\ i < L
    BY <1>1, <1>3, <1>4
  <2>2. i # 1 => fr2[i - 1] = fr[i - 1]
    BY <1>1, <1>3
  <2>3. AsRead(fr[i], w[i]) /\ fr[i].left > 0
    BY <2>1 DEF Nested, L
  <2> QED
    BY <2>1, <2>2, <2>3, SameNesting
<1>6. Nesting(fr2, w, a, val, rest)
  BY <1>1, <1>3, <1>5 DEF Nesting
<1>7. Waits(fr2)
  <2>1. fr2 # <<>> => Len(fr2) \in 1 .. L - 1
    BY <1>1, <1>3
  <2> QED
    BY <1>5, <2>1 DEF Waits
<1>8. Nested(fr, w, a, val, rest, L)
  BY <1>2, <1>4
<1>9. L - 1 # 0 => fr2[L - 1] = fr[L - 1]
  BY <1>1, <1>2, <1>3
<1>10. Due(fr2, w, val, L - 1) = w[L] /\ After(fr2, w, a, rest, L - 1) = a[L]
  <2>1. w[L] = Due(fr, w, val, L - 1) /\ a[L] = After(fr, w, a, rest, L - 1)
    BY <1>8 DEF Nested
  <2> QED
    BY <1>9, <2>1 DEF Due, After
<1>11. Ahead(fr, w, a, val, rest) = a[L]
  BY DEF Ahead, L
<1>12. AsRead(fr[L], w[L]) /\ fr[L].left \in Nat /\ fr[L].items \in Seq(Meanings)
  BY <1>1, <1>2, <1>8, FrameIs DEF Nested, L
<1>13. Encoding[w[L]].readable /\ Encoding[w[L]].json = <<"array", fr[L].items>>
  <2> DEFINE f == fr[L]
             v == w[L]
             n == Len(f.items)
  <2>1. /\ v \in Values /\ v.type = "ARRAY" /\ n + f.left = Len(v.items)
        /\ \A m \in 1 .. n : Encoding[v.items[m]].readable /\ f.items[m] = Encoding[v.items[m]].json
    BY <1>12 DEF AsRead
  <2>2. f.left = 0 /\ f.items \in Seq(Meanings)
    BY <1>1, <1>12
  <2> HIDE DEF f, v
  <2>3. n \in Nat /\ n = Len(v.items)
    BY <2>1, <2>2
  <2>4. /\ v.items \in Seq(Values)
        /\ Encoding[v].json = <<"array", [m \in DOMAIN v.items |-> Encoding[v.items[m]].json]>>
        /\ Encoding[v].readable <=> \A m \in DOMAIN v.items : Encoding[v.items[m]].readable
    BY <2>1, ArrayIs
  <2>5. DOMAIN v.items = 1 .. n /\ DOMAIN f.items = 1 .. n
    BY <2>2, <2>3, <2>4
  <2>6. Encoding[v].readable
    BY <2>1, <2>4, <2>5
  <2>7. f.items = [m \in DOMAIN v.items |-> Encoding[v.items[m]].json]
    <3>1. f.items = [m \in 1 .. n |-> f.items[m]]
      BY <2>2, <2>5
    <3> QED
      BY <2>1, <2>5, <3>1
  <2> QED
    BY <2>4, <2>6, <2>7 DEF f, v
<1> QED
  BY <1>3, <1>6, <1>7, <1>10, <1>11, <1>13 DEF fr2, L


-----------------------------------------------------------------------------
(* The inductive invariant: in every phase, the fields that are left are   *)
(* those of the rest of the document, and what was read so far is what the *)
(* document says.                                                          *)
Rest == SubSeq(fields, at, Len(fields))

InfoOf(d, i) ==
  [name       |-> d.tensors[i].name,
   dimensions |-> Reverse(d.tensors[i].dims),
   dtype      |-> d.tensors[i].dtype,
   offset     |-> DataOffset(d, i)]

InfosOf(d) == {InfoOf(d, i) : i \in 1 .. Len(d.tensors)}

ReadRecords(d) == [tensor : 1 .. Len(d.tensors), from : Int, to : Int, ok : BOOLEAN]

Places ==
  /\ doc \in Documents /\ fields = HeaderFields(doc) /\ length \in Nat
  /\ at \in 1 .. Len(fields) + 1
  /\ pos \in Nat /\ (phase # "ready" => pos <= length)
  /\ failbit \in BOOLEAN

Contents ==
  /\ tensor_count \in Nat /\ kv_count \in Nat
  /\ entries \in 0 .. kv_count
  /\ frames \in Seq(Frame)
  /\ tensor_info_vec \in Seq(InfosOf(doc))
  /\ Len(tensor_info_vec) <= tensor_count
  /\ data_offset \in Nat /\ offset \in 0 .. Uint32Values - 1
  /\ reads \in Seq(ReadRecords(doc)) /\ Len(reads) <= MaxReads

InHeader ==
  /\ failbit = FALSE
  /\ pos + Bytes(Rest) = HeaderBytes(doc)
  /\ reads = <<>>

Counted ==
  /\ doc.magic = "GGUF" /\ doc.version = 3
  /\ tensor_count = Len(doc.tensors) /\ kv_count = Len(doc.kvs)
  /\ meta_data = MeantUpTo(doc.kvs, entries)
  /\ \A n \in 1 .. entries : Encoding[doc.kvs[n][2]].readable

AtOpen ==
  /\ phase = "open" /\ InHeader
  /\ Rest = HeaderFields(doc)
  /\ frames = <<>> /\ entries = 0 /\ meta_data = <<>> /\ tensor_info_vec = <<>>

AtEntry ==
  /\ phase = "entry" /\ InHeader /\ Counted
  /\ Rest = EntriesFrom(doc, entries + 1)
  /\ frames = <<>> /\ tensor_info_vec = <<>>

CurrentValue == doc.kvs[entries + 1][2]

AfterEntry == EntriesFrom(doc, entries + 2)

Amid(w, a) ==
  /\ Nesting(frames, w, a, CurrentValue, AfterEntry)
  /\ Rest = Ahead(frames, w, a, CurrentValue, AfterEntry)

InEntry ==
  /\ Counted /\ entries < kv_count
  /\ key = doc.kvs[entries + 1][1] /\ value_type = CurrentValue.type
  /\ tensor_info_vec = <<>>

AtValue == phase = "value" /\ InHeader /\ InEntry /\ \E w, a : Amid(w, a)

InfosRead == \A i \in 1 .. Len(tensor_info_vec) : tensor_info_vec[i] = InfoOf(doc, i)

AtTensor ==
  /\ phase = "tensor" /\ InHeader /\ Counted /\ entries = kv_count
  /\ InfosRead
  /\ Rest = TensorsFrom(doc, Len(tensor_info_vec) + 1)

ReadsDone ==
  /\ \A n \in DOMAIN reads :
       /\ reads[n].from = TensorStart(doc, reads[n].tensor)
       /\ IsPlain(reads[n].tensor) => reads[n].to = TensorEnd(doc, reads[n].tensor)
  /\ failbit <=> \E n \in DOMAIN reads : MeetsEnd(reads[n])
  /\ ReadsUntilFirstFailure

AtReady ==
  /\ phase = "ready"
  /\ WellFormed /\ HeaderBytes(doc) <= length
  /\ meta_data = MeantMetadata
  /\ InfosRead /\ Len(tensor_info_vec) = Len(doc.tensors)
  /\ data_offset = DataStart(doc)
  /\ ReadsDone

AtFailed ==
  /\ phase = "failed" /\ reads = <<>>
  /\ ~(WellFormed /\ HeaderBytes(doc) <= length)

ParserInv ==
  /\ Places /\ Contents
  /\ AtOpen \/ AtEntry \/ AtValue \/ AtTensor \/ AtReady \/ AtFailed

LEMMA FieldsType == ASSUME Places PROVE fields \in Seq(AnyField) /\ Len(fields) \in Nat
<1>1. fields \in Seq(AnyField)
  BY HeaderIs DEF Places
<1> QED
  BY <1>1

(* Reading the first n of the fields that are left. *)
LEMMA ReadingOn ==
  ASSUME Places, pos + Bytes(Rest) = HeaderBytes(doc),
         NEW s \in Seq(AnyField), NEW t \in Seq(AnyField), Rest = s \o t,
         NEW n, n = Len(s)
  PROVE  /\ ~CanRead(n) => ~(HeaderBytes(doc) <= length)
         /\ \A k \in 1 .. n : fields[at + k - 1] = s[k]
         /\ CanRead(n) /\ Read(n) /\ UNCHANGED file =>
              Places' /\ pos' + Bytes(Rest') = HeaderBytes(doc') /\ Rest' = t
<1>1. /\ fields \in Seq(AnyField) /\ Len(fields) \in Nat /\ at \in 1 .. Len(fields) + 1
      /\ pos \in Nat /\ length \in Nat /\ n \in Nat /\ failbit \in BOOLEAN
  BY FieldsType DEF Places
<1>2. /\ at + n \in 1 .. Len(fields) + 1
      /\ SubSeq(fields, at, at + n - 1) = s
      /\ SubSeq(fields, at + n, Len(fields)) = t
      /\ \A k \in 1 .. n : fields[at + k - 1] = s[k]
  <2>1. SubSeq(fields, at, Len(fields)) = s \o t
    BY DEF Rest
  <2>2. s \in Seq(AnyField) /\ t \in Seq(AnyField)
    OBVIOUS
  <2>3. /\ at + Len(s) \in 1 .. Len(fields) + 1
        /\ SubSeq(fields, at, at + Len(s) - 1) = s
        /\ SubSeq(fields, at + Len(s), Len(fields)) = t
        /\ \A k \in 1 .. Len(s) : fields[at + k - 1] = s[k]
    BY ONLY <1>1, <2>1, <2>2, Reading, ZenonT(30)
  <2>4. n = Len(s)
    OBVIOUS
  <2> QED
    BY ONLY <2>3, <2>4
<1>3. Bytes(s) \in Nat /\ Bytes(t) \in Nat /\ Bytes(Rest) = Bytes(s) + Bytes(t)
  BY BytesType, BytesOfConcat
<1>4. Coming(n) = s /\ at + n - 1 <= Len(fields)
  BY <1>1, <1>2 DEF Coming
<1>5. CanRead(n) <=> pos + Bytes(s) <= length
  BY <1>4 DEF CanRead
<1>6. ~CanRead(n) => ~(HeaderBytes(doc) <= length)
  BY <1>1, <1>3, <1>5
<1>7. ASSUME CanRead(n), Read(n), UNCHANGED file
      PROVE  Places' /\ pos' + Bytes(Rest') = HeaderBytes(doc') /\ Rest' = t
  <2>1. /\ at' = at + n /\ pos' = pos + Bytes(s) /\ failbit' = failbit
        /\ doc' = doc /\ fields' = fields /\ length' = length
    BY <1>4, <1>7 DEF Read, file
  <2>2. Rest' = t
    BY <1>2, <2>1 DEF Rest
  <2>3. pos' + Bytes(t) = HeaderBytes(doc) /\ pos' \in 0 .. length
    BY <1>1, <1>3, <1>5, <1>7, <2>1
  <2>4. HeaderBytes(doc') = HeaderBytes(doc)
    BY <2>1
  <2>5. Places'
    <3>1. doc \in Documents /\ fields = HeaderFields(doc)
      BY DEF Places
    <3> QED
      BY <1>1, <1>2, <2>1, <2>3, <3>1 DEF Places
  <2> QED
    BY <2>2, <2>3, <2>4, <2>5
<1> QED
  BY <1>2, <1>6, <1>7

LEMMA InitInv == ASSUME Init PROVE ParserInv
<1>1. /\ doc \in Documents /\ fields = HeaderFields(doc) /\ length \in 0 .. WholeLength(doc)
      /\ at = 1 /\ pos = 0 /\ failbit = FALSE /\ phase = "open"
      /\ tensor_count = 0 /\ kv_count = 0 /\ frames = <<>> /\ entries = 0
      /\ meta_data = <<>> /\ tensor_info_vec = <<>> /\ data_offset = 0 /\ offset = 0
      /\ reads = <<>>
  BY DEF Init
<1>2. length \in Nat
  BY <1>1
<1>3. fields \in Seq(AnyField)
  BY <1>1, HeaderIs
<1>4. Places
  <2>1. 1 \in 1 .. Len(fields) + 1 /\ 0 \in Nat /\ 0 <= length /\ FALSE \in BOOLEAN
    BY <1>2, <1>3
  <2> QED
    BY <1>1, <1>2, <2>1, Zenon DEF Places
<1>5. Contents
  <2>1. <<>> \in Seq(Frame) /\ <<>> \in Seq(InfosOf(doc)) /\ <<>> \in Seq(ReadRecords(doc)) /\ Len(<<>>) = 0
    OBVIOUS
  <2> QED
    BY <1>1, <2>1, Uint32ValuesIsNat, MaxReadsIsNat DEF Contents
<1>6. Rest = fields
  BY <1>1, <1>3, SubSeqFull DEF Rest
<1>7. pos + Bytes(Rest) = HeaderBytes(doc)
  <2>1. Bytes(fields) \in Nat
    BY <1>3, BytesType
  <2> QED
    BY <1>1, <1>6, <2>1 DEF HeaderBytes
<1>8. AtOpen
  BY <1>1, <1>6, <1>7 DEF AtOpen, InHeader
<1> QED
  BY <1>4, <1>5, <1>8 DEF ParserInv


LEMMA InPhase ==
  ASSUME ParserInv
  PROVE  /\ Places /\ Contents
         /\ phase = "open" => AtOpen
         /\ phase = "entry" => AtEntry
         /\ phase = "value" => AtValue
         /\ phase = "tensor" => AtTensor
         /\ phase = "ready" => AtReady
BY DEF ParserInv, AtOpen, AtEntry, AtValue, AtTensor, AtReady, AtFailed

(* The constructor's way out. *)
LEMMA Throwing ==
  ASSUME Places, Contents, phase # "ready", reads = <<>>,
         ~(WellFormed /\ HeaderBytes(doc) <= length), phase' = "failed", UNCHANGED <<file, stream, header, entry, info, reads>>
  PROVE  ParserInv'
<1>1. /\ doc' = doc /\ fields' = fields /\ length' = length
      /\ at' = at /\ pos' = pos /\ failbit' = failbit
      /\ tensor_count' = tensor_count /\ kv_count' = kv_count
      /\ key' = key /\ value_type' = value_type /\ frames' = frames /\ entries' = entries
      /\ meta_data' = meta_data /\ tensor_info_vec' = tensor_info_vec
      /\ data_offset' = data_offset /\ offset' = offset /\ reads' = reads
  BY DEF file, stream, header, entry, info
<1>2. Places'
  BY <1>1 DEF Places
<1>3. Contents'
  BY <1>1 DEF Contents
<1>4. WellFormed' <=> WellFormed
  BY <1>1 DEF WellFormed, MeantMetadata
<1>5. AtFailed'
  BY <1>1, <1>4 DEF AtFailed
<1> QED
  BY <1>2, <1>3, <1>5 DEF ParserInv

CountsAre(d) ==
  LET s == CountFields(d)
  IN  /\ Len(s) = 4 /\ s[1].value = d.magic /\ s[2].value = d.version
      /\ s[3].value = Len(d.tensors) /\ s[4].value = Len(d.kvs)

LEMMA CountFieldsAre == ASSUME NEW d PROVE CountsAre(d)
BY DEF CountsAre, CountFields, Field

LEMMA AtOpenReads ==
  ASSUME Places, AtOpen
  PROVE  /\ ~CanRead(4) => ~(HeaderBytes(doc) <= length)
         /\ fields[at].value = doc.magic /\ fields[at + 1].value = doc.version
         /\ fields[at + 2].value = Len(doc.tensors) /\ fields[at + 3].value = Len(doc.kvs)
         /\ CanRead(4) /\ Read(4) /\ UNCHANGED file =>
              /\ Places' /\ pos' + Bytes(Rest') = HeaderBytes(doc')
              /\ Rest' = EntriesFrom(doc, 1)
<1> DEFINE s == CountFields(doc)
           t == EntriesFrom(doc, 1)
<1>1. doc \in Documents /\ at \in Nat
  BY FieldsType DEF Places
<1>2. s \in Seq(AnyField) /\ HeaderFields(doc) = s \o t
  BY <1>1, HeaderIs
<1>3. t \in Seq(AnyField)
  <2>1. 1 \in 1 .. Len(doc.kvs) + 1
    BY <1>1, PartsTypes
  <2> QED
    BY <1>1, <2>1, EntriesFromIs
<1>4. /\ Len(s) = 4 /\ s[1].value = doc.magic /\ s[2].value = doc.version
      /\ s[3].value = Len(doc.tensors) /\ s[4].value = Len(doc.kvs)
  BY CountFieldsAre DEF CountsAre
<1>5. Rest = s \o t /\ pos + Bytes(Rest) = HeaderBytes(doc)
  BY <1>2 DEF AtOpen, InHeader
<1> HIDE DEF s, t
<1>6. /\ ~CanRead(4) => ~(HeaderBytes(doc) <= length)
      /\ \A k \in 1 .. 4 : fields[at + k - 1] = s[k]
      /\ CanRead(4) /\ Read(4) /\ UNCHANGED file =>
           Places' /\ pos' + Bytes(Rest') = HeaderBytes(doc') /\ Rest' = t
  BY <1>2, <1>3, <1>4, <1>5, ReadingOn
<1>7. fields[at] = s[1] /\ fields[at + 1] = s[2] /\ fields[at + 2] = s[3] /\ fields[at + 3] = s[4]
  <2>1. at + 1 - 1 = at /\ at + 2 - 1 = at + 1 /\ at + 3 - 1 = at + 2 /\ at + 4 - 1 = at + 3
    BY <1>1
  <2>2. 1 \in 1 .. 4 /\ 2 \in 1 .. 4 /\ 3 \in 1 .. 4 /\ 4 \in 1 .. 4
    OBVIOUS
  <2> QED
    BY <1>6, <2>1, <2>2
<1> QED
  BY <1>4, <1>6, <1>7 DEF t

LEMMA AfterReadHeader == ASSUME ParserInv, ReadHeader PROVE ParserInv'
<1>1. Places /\ Contents /\ AtOpen
  BY InPhase DEF ReadHeader
<1>2. /\ CanRead(4) /\ fields[at].value = "GGUF" /\ fields[at + 1].value = 3
      /\ Read(4) /\ phase' = "entry"
      /\ tensor_count' = fields[at + 2].value /\ kv_count' = fields[at + 3].value
      /\ UNCHANGED file
      /\ doc' = doc /\ frames' = frames /\ entries' = entries /\ meta_data' = meta_data
      /\ tensor_info_vec' = tensor_info_vec /\ data_offset' = data_offset /\ offset' = offset
      /\ reads' = reads
  BY DEF ReadHeader, HeaderAcceptable, Supported, file, entry, info
<1>3. /\ Places' /\ pos' + Bytes(Rest') = HeaderBytes(doc') /\ Rest' = EntriesFrom(doc, 1)
      /\ doc.magic = "GGUF" /\ doc.version = 3
      /\ tensor_count' = Len(doc.tensors) /\ kv_count' = Len(doc.kvs)
  BY <1>1, <1>2, AtOpenReads
<1>4. /\ frames = <<>> /\ entries = 0 /\ meta_data = <<>> /\ tensor_info_vec = <<>>
      /\ failbit = FALSE /\ reads = <<>>
  BY <1>1 DEF AtOpen, InHeader
<1>5. Len(doc.tensors) \in Nat /\ Len(doc.kvs) \in Nat
  BY <1>1, PartsTypes DEF Places
<1>6. Contents'
  <2>1. Len(tensor_info_vec) <= Len(doc.tensors) /\ 0 \in 0 .. Len(doc.kvs)
    BY <1>4, <1>5
  <2> QED
    BY <1>1, <1>2, <1>3, <1>4, <1>5, <2>1 DEF Contents
<1>7. InHeader'
  BY <1>2, <1>3, <1>4 DEF InHeader, Read
<1>8. Counted'
  <2>1. MeantUpTo(doc.kvs, 0) = <<>>
    BY MeantUpToNone
  <2>2. 1 .. 0 = {}
    OBVIOUS
  <2> QED
    BY <1>2, <1>3, <1>4, <2>1, <2>2 DEF Counted
<1>9. AtEntry'
  <2>1. entries' + 1 = 1
    BY <1>2, <1>4
  <2> QED
    BY <1>2, <1>3, <1>4, <1>7, <1>8, <2>1 DEF AtEntry
<1> QED
  BY <1>3, <1>6, <1>9 DEF ParserInv

KeyIs(kv) ==
  LET s == KeyFields(kv)
  IN  Len(s) = 2 /\ s[1].value = kv[1] /\ s[2].value = kv[2].type

LEMMA KeyFieldsAre == ASSUME NEW kv PROVE KeyIs(kv)
BY DEF KeyIs, KeyFields, Field

LEMMA AtEntryReads ==
  ASSUME Places, Contents, AtEntry, entries < kv_count
  PROVE  /\ CurrentValue \in Values /\ AfterEntry \in Seq(AnyField)
         /\ ~CanRead(2) => ~(HeaderBytes(doc) <= length)
         /\ fields[at].value = doc.kvs[entries + 1][1]
         /\ fields[at + 1].value = CurrentValue.type
         /\ CanRead(2) /\ Read(2) /\ UNCHANGED file =>
              /\ Places' /\ pos' + Bytes(Rest') = HeaderBytes(doc')
              /\ Rest' = Encoding[CurrentValue].fields \o AfterEntry
<1> DEFINE n == entries + 1
           s == KeyFields(doc.kvs[n])
           t == Encoding[doc.kvs[n][2]].fields \o EntriesFrom(doc, n + 1)
<1>1. doc \in Documents /\ at \in Nat
  BY FieldsType DEF Places
<1>2. entries \in Nat /\ Len(doc.kvs) \in Nat /\ n \in 1 .. Len(doc.kvs) /\ n + 1 = entries + 2
      /\ n + 1 \in 1 .. Len(doc.kvs) + 1
  <2>1. Len(doc.kvs) \in Nat /\ kv_count = Len(doc.kvs)
    BY <1>1, PartsTypes DEF AtEntry, Counted
  <2> QED
    BY <2>1 DEF Contents
<1>3. EntriesFrom(doc, n + 1) \in Seq(AnyField) /\ EntriesFrom(doc, n) = s \o t
  BY <1>1, <1>2, EntriesFromIs
<1>4. s \in Seq(AnyField) /\ Encoding[doc.kvs[n][2]].fields \in Seq(AnyField)
  BY <1>1, <1>2, KeyFieldsType
<1>5. t \in Seq(AnyField)
  <2> DEFINE e == Encoding[doc.kvs[n][2]].fields
             r == EntriesFrom(doc, n + 1)
  <2>1. e \in Seq(AnyField) /\ r \in Seq(AnyField)
    BY <1>3, <1>4
  <2> HIDE DEF e, r
  <2>2. e \o r \in Seq(AnyField)
    BY ONLY <2>1
  <2> QED
    BY ONLY <2>2 DEF e, r, t
<1>6. Len(s) = 2 /\ s[1].value = doc.kvs[n][1] /\ s[2].value = doc.kvs[n][2].type
  BY KeyFieldsAre DEF KeyIs
<1>7. Rest = s \o t /\ pos + Bytes(Rest) = HeaderBytes(doc)
  BY <1>3 DEF AtEntry, InHeader
<1>8. doc.kvs[n][2] \in Values
  BY <1>1, <1>2, EntryIs
<1>9. CurrentValue = doc.kvs[n][2] /\ AfterEntry = EntriesFrom(doc, n + 1)
  BY <1>2 DEF CurrentValue, AfterEntry
<1>10. t = Encoding[CurrentValue].fields \o AfterEntry
  BY <1>9
<1> HIDE DEF s, t, n
<1>11. /\ ~CanRead(2) => ~(HeaderBytes(doc) <= length)
       /\ \A k \in 1 .. 2 : fields[at + k - 1] = s[k]
       /\ CanRead(2) /\ Read(2) /\ UNCHANGED file =>
            Places' /\ pos' + Bytes(Rest') = HeaderBytes(doc') /\ Rest' = t
  BY <1>4, <1>5, <1>6, <1>7, ReadingOn
<1>12. fields[at] = s[1] /\ fields[at + 1] = s[2]
  <2>1. at + 1 - 1 = at /\ at + 2 - 1 = at + 1 /\ 1 \in 1 .. 2 /\ 2 \in 1 .. 2
    BY <1>1
  <2> QED
    BY <1>11, <2>1
<1> QED
  BY <1>3, <1>6, <1>8, <1>9, <1>10, <1>11, <1>12 DEF n

LEMMA AfterReadKey == ASSUME ParserInv, ReadKey PROVE ParserInv'
<1>1. Places /\ Contents /\ AtEntry /\ entries < kv_count
  BY InPhase DEF ReadKey
<1>2. /\ CanRead(2) /\ Read(2) /\ UNCHANGED file /\ phase' = "value"
      /\ key' = fields[at].value /\ value_type' = fields[at + 1].value
      /\ doc' = doc /\ frames' = frames /\ entries' = entries /\ meta_data' = meta_data
      /\ tensor_count' = tensor_count /\ kv_count' = kv_count
      /\ tensor_info_vec' = tensor_info_vec /\ data_offset' = data_offset /\ offset' = offset
      /\ reads' = reads
  BY DEF ReadKey, file, header, info
<1>3. /\ CurrentValue \in Values /\ AfterEntry \in Seq(AnyField)
      /\ fields[at].value = doc.kvs[entries + 1][1] /\ fields[at + 1].value = CurrentValue.type
      /\ Places' /\ pos' + Bytes(Rest') = HeaderBytes(doc')
      /\ Rest' = Encoding[CurrentValue].fields \o AfterEntry
  BY <1>1, <1>2, AtEntryReads
<1>4. CurrentValue' = CurrentValue /\ AfterEntry' = AfterEntry
  BY <1>2 DEF CurrentValue, AfterEntry
<1>5. Contents'
  BY <1>1, <1>2 DEF Contents
<1>6. Counted'
  BY <1>1, <1>2 DEF Counted, AtEntry
<1>7. InHeader'
  BY <1>1, <1>2, <1>3 DEF InHeader, AtEntry, Read
<1>8. InEntry'
  BY <1>1, <1>2, <1>3, <1>4, <1>6 DEF InEntry, AtEntry
<1>9. frames' = <<>> /\ Len(frames') = 0
  BY <1>1, <1>2 DEF AtEntry
<1>10. Amid(<<>>, <<>>)'
  <2>1. Nesting(frames', <<>>, <<>>, CurrentValue, AfterEntry)
    BY <1>3, <1>9 DEF Nesting
  <2>2. Rest' = Ahead(frames', <<>>, <<>>, CurrentValue, AfterEntry)
    BY <1>3, <1>9 DEF Ahead, Waits, Due, After
  <2> QED
    BY <1>4, <2>1, <2>2 DEF Amid
<1>11. AtValue'
  BY <1>2, <1>7, <1>8, <1>10 DEF AtValue
<1> QED
  BY <1>3, <1>5, <1>11 DEF ParserInv

LEMMA AfterEndMetadata == ASSUME ParserInv, EndMetadata PROVE ParserInv'
<1>1. Places /\ Contents /\ AtEntry /\ entries = kv_count
  BY InPhase DEF EndMetadata
<1>2. /\ phase' = "tensor" /\ doc' = doc /\ fields' = fields /\ length' = length
      /\ at' = at /\ pos' = pos /\ failbit' = failbit
      /\ tensor_count' = tensor_count /\ kv_count' = kv_count
      /\ frames' = frames /\ entries' = entries /\ meta_data' = meta_data
      /\ tensor_info_vec' = tensor_info_vec /\ data_offset' = data_offset /\ offset' = offset
      /\ reads' = reads
  BY DEF EndMetadata, file, stream, header, entry, info
<1>3. Places' /\ Contents'
  BY <1>1, <1>2 DEF Places, Contents, AtEntry
<1>4. Rest' = Rest
  BY <1>2 DEF Rest
<1>5. InHeader' /\ Counted'
  BY <1>1, <1>2, <1>4 DEF InHeader, Counted, AtEntry
<1>6. Len(tensor_info_vec) = 0
  BY <1>1 DEF AtEntry
<1>7. Rest = TensorsFrom(doc, 1)
  <2>1. doc \in Documents /\ entries + 1 = Len(doc.kvs) + 1
    BY <1>1 DEF Places, AtEntry, Counted
  <2> QED
    BY <1>1, <2>1, EntriesFromIs DEF AtEntry
<1>8. InfosRead'
  BY <1>2, <1>6 DEF InfosRead
<1>9. AtTensor'
  BY <1>1, <1>2, <1>4, <1>5, <1>6, <1>7, <1>8 DEF AtTensor
<1> QED
  BY <1>3, <1>9 DEF ParserInv


(* A complete value goes to the metadata or into the innermost array.      *)
LEMMA Delivering ==
  ASSUME Contents, InEntry, phase = "value", reads = <<>>,
         Places', UNCHANGED <<file, header, key, value_type, info, reads>>,
         failbit' = FALSE, pos' + Bytes(Rest') = HeaderBytes(doc'),
         doc \in Documents,
         NEW open, NEW w, NEW a,
         Nesting(open, w, a, CurrentValue, AfterEntry), Waits(open),
         Encoding[Due(open, w, CurrentValue, Len(open))].readable,
         NEW json, json = Encoding[Due(open, w, CurrentValue, Len(open))].json,
         Deliver(json, open),
         Rest' = After(open, w, a, AfterEntry, Len(open))
  PROVE  ParserInv'
<1>1. /\ doc' = doc /\ tensor_count' = tensor_count /\ kv_count' = kv_count
      /\ key' = key /\ value_type' = value_type
      /\ tensor_info_vec' = tensor_info_vec /\ data_offset' = data_offset /\ offset' = offset
      /\ reads' = reads
  BY DEF file, header, info
<1>2. InHeader'
  BY <1>1 DEF InHeader
<1>3. /\ Counted /\ entries < kv_count /\ tensor_info_vec = <<>>
      /\ key = doc.kvs[entries + 1][1] /\ value_type = CurrentValue.type
      /\ entries \in Nat /\ kv_count \in Nat
  BY DEF InEntry, Contents
<1>4. CASE open = <<>>
  <2>1. Len(open) = 0 /\ Due(open, w, CurrentValue, 0) = CurrentValue
    BY <1>4 DEF Due
  <2>2. /\ meta_data' = Updated(meta_data, key, json) /\ entries' = entries + 1
        /\ frames' = <<>> /\ phase' = "entry"
    BY <1>4 DEF Deliver, Updated
  <2>3. Rest' = AfterEntry
    BY <2>1 DEF After
  <2>4. Rest' = EntriesFrom(doc', entries' + 1)
    <3>1. (entries + 1) + 1 = entries + 2
      BY <1>3
    <3> QED
      BY <1>1, <2>2, <2>3, <3>1 DEF AfterEntry
  <2>5. json = Encoding[doc.kvs[entries + 1][2]].json /\ Encoding[doc.kvs[entries + 1][2]].readable
    BY <2>1 DEF CurrentValue
  <2>6. Counted'
    <3>1. meta_data = MeantUpTo(doc.kvs, entries)
      BY <1>3 DEF Counted
    <3>2. MeantUpTo(doc.kvs, entries + 1) = meta_data'
      BY <1>3, <2>2, <2>5, <3>1, MeantUpToNext
    <3>3. \A n \in 1 .. entries + 1 : Encoding[doc.kvs[n][2]].readable
      <4>1. \A n \in 1 .. entries : Encoding[doc.kvs[n][2]].readable
        BY <1>3 DEF Counted
      <4>2. \A n \in 1 .. entries + 1 : n \in 1 .. entries \/ n = entries + 1
        BY <1>3
      <4> QED
        BY <2>5, <4>1, <4>2
    <3> QED
      BY <1>1, <1>3, <2>2, <3>2, <3>3 DEF Counted
  <2>7. Contents'
    <3>1. <<>> \in Seq(Frame) /\ entries + 1 \in 0 .. kv_count
      BY <1>3
    <3> QED
      BY <1>1, <2>2, <3>1 DEF Contents
  <2>8. AtEntry'
    BY <1>1, <1>2, <1>3, <2>2, <2>4, <2>6 DEF AtEntry
  <2> QED
    BY <2>7, <2>8 DEF ParserInv
<1>5. CASE open # <<>>
  <2> DEFINE fr2 == Append(Front(open), [Last(open) EXCEPT !.left = @ - 1, !.items = Append(@, json)])
  <2>1. frames' = fr2 /\ phase' = phase /\ entries' = entries /\ meta_data' = meta_data
    BY <1>5 DEF Deliver
  <2>2. /\ Nesting(fr2, w, a, CurrentValue, AfterEntry)
        /\ Ahead(fr2, w, a, CurrentValue, AfterEntry) = After(open, w, a, AfterEntry, Len(open))
    BY <1>5, ItemDelivered
  <2> HIDE DEF fr2
  <2>3. fr2 \in Seq(Frame)
    BY <2>2 DEF Nesting
  <2>4. CurrentValue' = CurrentValue /\ AfterEntry' = AfterEntry
    BY <1>1, <2>1 DEF CurrentValue, AfterEntry
  <2>5. Amid(w, a)'
    BY <2>1, <2>2, <2>4 DEF Amid
  <2>6. Counted'
    BY <1>1, <1>3, <2>1 DEF Counted
  <2>7. InEntry'
    BY <1>1, <1>3, <2>1, <2>4, <2>6 DEF InEntry
  <2>8. Contents'
    BY <1>1, <2>1, <2>3 DEF Contents
  <2>9. AtValue'
    BY <1>2, <2>1, <2>5, <2>7 DEF AtValue
  <2> QED
    BY <2>8, <2>9 DEF ParserInv
<1> QED
  BY <1>4, <1>5

LEMMA Expected ==
  ASSUME Contents, InEntry, NEW w, NEW a, Amid(w, a)
  PROVE  /\ ArrayEnded <=> ~Waits(frames)
         /\ Waits(frames) => ExpectedType = Due(frames, w, CurrentValue, Len(frames)).type
<1>1. Nesting(frames, w, a, CurrentValue, AfterEntry) /\ frames \in Seq(Frame)
  BY DEF Amid, Nesting
<1>2. frames # <<>> => Len(frames) \in 1 .. Len(frames)
  BY <1>1
<1>3. frames # <<>> => frames[Len(frames)].left \in Nat
  BY <1>1, <1>2, FrameIs
<1>4. ArrayEnded <=> ~Waits(frames)
  BY <1>3 DEF ArrayEnded, Innermost, Last, Waits
<1>5. ExpectedType = IF frames = <<>> THEN CurrentValue.type ELSE frames[Len(frames)].elem
  BY DEF ExpectedType, Innermost, Last, InEntry
<1> QED
  BY <1>1, <1>4, <1>5, DueIs

LEMMA ScalarAhead ==
  ASSUME Places, Contents, InHeader, InEntry, NEW w, NEW a, Amid(w, a), ~ArrayEnded,
         ExpectedType # "ARRAY"
  PROVE  LET v == Due(frames, w, CurrentValue, Len(frames))
         IN  /\ v \in Values /\ v.type = ExpectedType /\ Waits(frames)
             /\ Encoding[CurrentValue].readable => Encoding[v].readable
             /\ fields[at] = ScalarField(v)
             /\ ~CanRead(1) => ~(HeaderBytes(doc) <= length)
             /\ CanRead(1) /\ Read(1) /\ UNCHANGED file =>
                  /\ Places' /\ pos' + Bytes(Rest') = HeaderBytes(doc')
                  /\ Rest' = After(frames, w, a, AfterEntry, Len(frames))
<1> DEFINE v == Due(frames, w, CurrentValue, Len(frames))
           s == <<ScalarField(v)>>
           t == After(frames, w, a, AfterEntry, Len(frames))
<1>1. Waits(frames) /\ v.type = ExpectedType
  BY Expected
<1>2. /\ v \in Values /\ t \in Seq(AnyField)
      /\ Encoding[CurrentValue].readable => Encoding[v].readable
  BY <1>1, DueIs DEF Amid
<1>3. Rest = Encoding[v].fields \o t
  BY <1>1 DEF Amid, Ahead
<1> HIDE DEF v, t
<1>4. Encoding[v].fields = s /\ ScalarField(v) \in AnyField
  BY <1>1, <1>2, ScalarEncoding
<1>5. s \in Seq(AnyField) /\ Len(s) = 1 /\ s[1] = ScalarField(v)
  BY <1>4
<1>6. Rest = s \o t /\ pos + Bytes(Rest) = HeaderBytes(doc)
  BY <1>3, <1>4 DEF InHeader
<1> HIDE DEF s
<1>7. /\ ~CanRead(1) => ~(HeaderBytes(doc) <= length)
      /\ \A k \in 1 .. 1 : fields[at + k - 1] = s[k]
      /\ CanRead(1) /\ Read(1) /\ UNCHANGED file =>
           Places' /\ pos' + Bytes(Rest') = HeaderBytes(doc') /\ Rest' = t
  BY <1>2, <1>5, <1>6, ReadingOn
<1>8. fields[at] = s[1]
  <2>1. at \in Nat
    BY FieldsType DEF Places
  <2>2. 1 \in 1 .. 1 /\ at + 1 - 1 = at
    BY <2>1
  <2> QED
    BY <1>7, <2>2
<1> QED
  BY <1>1, <1>2, <1>5, <1>7, <1>8 DEF v, t

LEMMA AfterReadScalar == ASSUME ParserInv, ReadScalar PROVE ParserInv'
<1>1. Places /\ Contents /\ AtValue
  BY InPhase DEF ReadScalar
<1>2. /\ InHeader /\ InEntry /\ reads = <<>> /\ phase = "value"
      /\ doc \in Documents /\ failbit = FALSE
  BY <1>1 DEF AtValue, InHeader, Places
<1>3. PICK w, a : Amid(w, a)
  BY <1>1 DEF AtValue
<1>4. /\ ~ArrayEnded /\ ExpectedType \in Scalars /\ CanRead(1) /\ Read(1)
      /\ Deliver(JsonOf(ExpectedType, fields[at].value), frames)
      /\ UNCHANGED file /\ UNCHANGED <<file, header, key, value_type, info, reads>>
  BY DEF ReadScalar
<1>5. ExpectedType # "ARRAY"
  BY <1>4 DEF Scalars, Signed, Floating
<1> DEFINE v == Due(frames, w, CurrentValue, Len(frames))
<1>6. /\ v \in Values /\ v.type = ExpectedType /\ Waits(frames)
      /\ fields[at] = ScalarField(v)
      /\ Places' /\ pos' + Bytes(Rest') = HeaderBytes(doc')
      /\ Rest' = After(frames, w, a, AfterEntry, Len(frames))
  BY <1>1, <1>2, <1>3, <1>4, <1>5, ScalarAhead
<1>7. Encoding[v].readable /\ JsonOf(v.type, ScalarField(v).value) = Encoding[v].json
  <2> HIDE DEF v
  <2> QED
    BY <1>4, <1>5, <1>6, ScalarEncoding
<1> DEFINE json == JsonOf(ExpectedType, fields[at].value)
<1>8. json = Encoding[v].json /\ Deliver(json, frames)
  BY <1>4, <1>6, <1>7
<1>9. Nesting(frames, w, a, CurrentValue, AfterEntry)
  BY <1>3 DEF Amid
<1>10. failbit' = FALSE
  BY <1>2, <1>4 DEF Read
<1> HIDE DEF json
<1> QED
  BY <1>1, <1>2, <1>4, <1>6, <1>7, <1>8, <1>9, <1>10, Delivering


HeadFields(v) == <<Field("UINT32", v.elem), Field("UINT64", Len(v.items))>>

HeadIs(v) ==
  LET s == HeadFields(v)
  IN  Len(s) = 2 /\ s[1].value = v.elem /\ s[2].value = Len(v.items)

LEMMA HeadFieldsAre == ASSUME NEW v PROVE HeadIs(v)
BY DEF HeadIs, HeadFields, Field

LEMMA ArrayAhead ==
  ASSUME Places, Contents, InHeader, InEntry, NEW w, NEW a, Amid(w, a), ~ArrayEnded,
         ExpectedType = "ARRAY"
  PROVE  LET v == Due(frames, w, CurrentValue, Len(frames))
         IN  /\ v.type = "ARRAY" /\ Waits(frames)
             /\ fields[at].value = v.elem /\ fields[at + 1].value = Len(v.items)
             /\ ~CanRead(2) => ~(HeaderBytes(doc) <= length)
             /\ CanRead(2) /\ Read(2) /\ UNCHANGED file =>
                  /\ Places' /\ pos' + Bytes(Rest') = HeaderBytes(doc')
                  /\ Rest' = ItemsFrom(v, 1) \o After(frames, w, a, AfterEntry, Len(frames))
<1> DEFINE v == Due(frames, w, CurrentValue, Len(frames))
           s == HeadFields(v)
           t == After(frames, w, a, AfterEntry, Len(frames))
<1>1. Waits(frames) /\ v.type = "ARRAY"
  BY Expected
<1>2. v \in Values /\ t \in Seq(AnyField)
  BY <1>1, DueIs DEF Amid
<1>3. Rest = Encoding[v].fields \o t
  BY <1>1 DEF Amid, Ahead
<1>4. Len(s) = 2 /\ s[1].value = v.elem /\ s[2].value = Len(v.items)
  BY HeadFieldsAre DEF HeadIs
<1> HIDE DEF v, t
<1>5. s \in Seq(AnyField)
  BY <1>1, <1>2, ArrayHead DEF HeadFields
<1>6. Encoding[v].fields = s \o ItemsFrom(v, 1) /\ ItemsFrom(v, 1) \in Seq(AnyField)
  <2>1. v.items \in Seq(Values)
    BY <1>1, <1>2, ArrayIs
  <2>2. 1 \in 1 .. Len(v.items) + 1
    BY <2>1
  <2> QED
    BY <1>1, <1>2, <2>2, ArrayEncoding DEF HeadFields
<1> DEFINE u == ItemsFrom(v, 1) \o t
<1> HIDE DEF s
<1>7. Rest = s \o u /\ u \in Seq(AnyField)
  BY <1>2, <1>3, <1>5, <1>6, Associative
<1>8. pos + Bytes(Rest) = HeaderBytes(doc)
  BY DEF InHeader
<1> HIDE DEF u
<1>9. /\ ~CanRead(2) => ~(HeaderBytes(doc) <= length)
      /\ \A k \in 1 .. 2 : fields[at + k - 1] = s[k]
      /\ CanRead(2) /\ Read(2) /\ UNCHANGED file =>
           Places' /\ pos' + Bytes(Rest') = HeaderBytes(doc') /\ Rest' = u
  BY <1>4, <1>5, <1>7, <1>8, ReadingOn
<1>10. fields[at] = s[1] /\ fields[at + 1] = s[2]
  <2>1. at \in Nat
    BY FieldsType DEF Places
  <2>2. 1 \in 1 .. 2 /\ 2 \in 1 .. 2 /\ at + 1 - 1 = at /\ at + 2 - 1 = at + 1
    BY <2>1
  <2> QED
    BY <1>9, <2>2
<1> QED
  BY <1>1, <1>4, <1>9, <1>10 DEF v, t, u

LEMMA AfterOpenArray == ASSUME ParserInv, OpenArray PROVE ParserInv'
<1>1. Places /\ Contents /\ AtValue
  BY InPhase DEF OpenArray
<1>2. InHeader /\ InEntry
  BY <1>1 DEF AtValue
<1>3. PICK w, a : Amid(w, a)
  BY <1>1 DEF AtValue
<1> DEFINE g == [elem |-> fields[at].value, left |-> fields[at + 1].value, items |-> <<>>]
<1>4. /\ ~ArrayEnded /\ ExpectedType = "ARRAY" /\ CanRead(2) /\ Read(2) /\ UNCHANGED file
      /\ frames' = Append(frames, g) /\ phase' = phase /\ phase = "value"
      /\ doc' = doc /\ key' = key /\ value_type' = value_type
      /\ entries' = entries /\ meta_data' = meta_data
      /\ tensor_count' = tensor_count /\ kv_count' = kv_count
      /\ tensor_info_vec' = tensor_info_vec /\ data_offset' = data_offset /\ offset' = offset
      /\ reads' = reads
  BY DEF OpenArray, file, header, info
<1> HIDE DEF g
<1> DEFINE v == Due(frames, w, CurrentValue, Len(frames))
           t == After(frames, w, a, AfterEntry, Len(frames))
<1>5. /\ v.type = "ARRAY" /\ Waits(frames)
      /\ fields[at].value = v.elem /\ fields[at + 1].value = Len(v.items)
      /\ Places' /\ pos' + Bytes(Rest') = HeaderBytes(doc')
      /\ Rest' = ItemsFrom(v, 1) \o t
  BY <1>1, <1>2, <1>3, <1>4, ArrayAhead
<1>6. g = [elem |-> v.elem, left |-> Len(v.items), items |-> <<>>]
  BY <1>5 DEF g
<1>7. Nesting(frames, w, a, CurrentValue, AfterEntry)
  BY <1>3 DEF Amid
<1>8. PICK w2, a2 : /\ Nesting(Append(frames, g), w2, a2, CurrentValue, AfterEntry)
                    /\ Ahead(Append(frames, g), w2, a2, CurrentValue, AfterEntry) = ItemsFrom(v, 1) \o t
  <2>1. Leads(Append(frames, g), CurrentValue, AfterEntry, ItemsFrom(v, 1) \o t)
    BY <1>5, <1>6, <1>7, ArrayOpened
  <2> QED
    BY <2>1 DEF Leads
<1>9. CurrentValue' = CurrentValue /\ AfterEntry' = AfterEntry
  BY <1>4 DEF CurrentValue, AfterEntry
<1> HIDE DEF v, t
<1>10. Amid(w2, a2)'
  BY <1>4, <1>5, <1>8, <1>9 DEF Amid
<1>11. frames' \in Seq(Frame)
  BY <1>4, <1>8 DEF Nesting
<1>12. Contents'
  BY <1>1, <1>4, <1>11 DEF Contents
<1>13. InHeader'
  BY <1>2, <1>4, <1>5 DEF InHeader, Read
<1>14. Counted'
  BY <1>2, <1>4 DEF InEntry, Counted
<1>15. InEntry'
  BY <1>2, <1>4, <1>9, <1>14 DEF InEntry
<1>16. AtValue'
  BY <1>4, <1>10, <1>13, <1>15 DEF AtValue
<1> QED
  BY <1>5, <1>12, <1>16 DEF ParserInv

LEMMA AfterCloseArray == ASSUME ParserInv, CloseArray PROVE ParserInv'
<1>1. Places /\ Contents /\ AtValue
  BY InPhase DEF CloseArray
<1>2. /\ InHeader /\ InEntry /\ reads = <<>> /\ phase = "value"
      /\ doc \in Documents /\ failbit = FALSE /\ pos + Bytes(Rest) = HeaderBytes(doc)
  BY <1>1 DEF AtValue, InHeader, Places
<1>3. PICK w, a : Amid(w, a)
  BY <1>1 DEF AtValue
<1> DEFINE open == Front(frames)
           json == <<"array", frames[Len(frames)].items>>
<1>4. /\ ArrayEnded /\ Deliver(json, open)
      /\ UNCHANGED <<file, header, key, value_type, info, reads>>
      /\ doc' = doc /\ fields' = fields /\ length' = length
      /\ at' = at /\ pos' = pos /\ failbit' = failbit
  BY DEF CloseArray, Innermost, Last, file, stream
<1>5. ~Waits(frames)
  BY <1>1, <1>2, <1>3, <1>4, Expected
<1>6. /\ Nesting(frames, w, a, CurrentValue, AfterEntry)
      /\ Rest = Ahead(frames, w, a, CurrentValue, AfterEntry)
  BY <1>3 DEF Amid
<1>7. /\ Nesting(open, w, a, CurrentValue, AfterEntry) /\ Waits(open)
      /\ Rest = After(open, w, a, AfterEntry, Len(open))
      /\ Encoding[Due(open, w, CurrentValue, Len(open))].readable
      /\ json = Encoding[Due(open, w, CurrentValue, Len(open))].json
  BY <1>5, <1>6, ArrayClosed
<1>8. Rest' = Rest
  BY <1>4 DEF Rest
<1>9. Places'
  BY <1>1, <1>2, <1>4 DEF Places
<1>10. failbit' = FALSE /\ pos' + Bytes(Rest') = HeaderBytes(doc')
  BY <1>2, <1>4, <1>8
<1>11. Rest' = After(open, w, a, AfterEntry, Len(open))
  BY <1>7, <1>8
<1> HIDE DEF open, json
<1> QED
  BY <1>1, <1>2, <1>4, <1>7, <1>9, <1>10, <1>11, Delivering

(* What a value is refused for. *)
LEMMA ValueRefused ==
  ASSUME Places, Contents, AtValue, ~ArrayEnded, ~ValueReadable
  PROVE  ~(WellFormed /\ HeaderBytes(doc) <= length)
<1>1. InHeader /\ InEntry
  BY DEF AtValue
<1>2. PICK w, a : Amid(w, a)
  BY DEF AtValue
<1>3. CASE ExpectedType \in Scalars
  <2>1. ~CanRead(1) /\ ExpectedType # "ARRAY"
    BY <1>3 DEF ValueReadable, Scalars, Signed, Floating
  <2> QED
    BY <1>1, <1>2, <2>1, ScalarAhead
<1>4. CASE ExpectedType = "ARRAY"
  <2>1. ~CanRead(2)
    BY <1>4 DEF ValueReadable
  <2> QED
    BY <1>1, <1>2, <1>4, <2>1, ArrayAhead
<1>5. CASE ExpectedType \notin Scalars /\ ExpectedType # "ARRAY"
  <2> DEFINE v == Due(frames, w, CurrentValue, Len(frames))
  <2>1. v \in Values /\ v.type = ExpectedType /\ (Encoding[CurrentValue].readable => Encoding[v].readable)
    BY <1>1, <1>2, <1>5, ScalarAhead
  <2> HIDE DEF v
  <2>2. ~Encoding[v].readable
    BY <1>5, <2>1, ScalarEncoding
  <2>3. ~Encoding[doc.kvs[entries + 1][2]].readable
    BY <2>1, <2>2 DEF CurrentValue
  <2>4. entries + 1 \in DOMAIN doc.kvs
    <3>1. entries < Len(doc.kvs) /\ entries \in Nat /\ doc.kvs \in Seq(STRING \X Values)
      BY <1>1, DocumentIs DEF InEntry, Counted, Contents, Places
    <3> QED
      BY <3>1
  <2> QED
    BY <2>3, <2>4 DEF WellFormed
<1> QED
  BY <1>3, <1>4, <1>5


TensorFieldsAre(d, i) ==
  LET t == d.tensors[i]
      s == TensorFields(d, i)
      n == Len(t.dims)
  IN  /\ Len(s) = 4 + n
      /\ s[1].value = t.name /\ s[2].value = n
      /\ \A k \in 1 .. n : s[2 + k].value = t.dims[k]
      /\ s[3 + n].value = t.dtype /\ s[4 + n].value = DataOffset(d, i)

Concatenated(c, s, t, M, N) ==
  /\ c \in Seq(AnyField) /\ Len(c) = M + N
  /\ \A k \in 1 .. M : c[k] = s[k]
  /\ \A k \in 1 .. N : c[M + k] = t[k]

LEMMA ConcatIs ==
  ASSUME NEW s \in Seq(AnyField), NEW t \in Seq(AnyField)
  PROVE  Concatenated(s \o t, s, t, Len(s), Len(t))
BY DEF Concatenated

LEMMA TensorFieldsHold ==
  ASSUME NEW d \in Documents, NEW i \in 1 .. Len(d.tensors)
  PROVE  TensorFieldsAre(d, i)
<1> DEFINE t == d.tensors[i]
           n == Len(t.dims)
           h == TensorHead(t)
           m == DimsFields(t)
           e == TensorTail(d, i)
           s == TensorFields(d, i)
<1>1. /\ h \in Seq(AnyField) /\ m \in Seq(AnyField) /\ Len(m) = n /\ e \in Seq(AnyField)
      /\ s = (h \o m) \o e
  BY TensorFieldsType
<1>2. n \in Nat /\ DOMAIN t.dims = 1 .. n
  <2>1. t.dims \in Seq(Nat)
    BY TensorIs
  <2> QED
    BY <2>1
<1>3. Len(h) = 2 /\ h[1].value = t.name /\ h[2].value = n
  BY DEF TensorHead, Field
<1>4. \A k \in 1 .. n : m[k].value = t.dims[k]
  BY <1>2 DEF DimsFields, Field
<1>5. Len(e) = 2 /\ e[1].value = t.dtype /\ e[2].value = DataOffset(d, i)
  BY DEF TensorTail, Field
<1> HIDE DEF h, m, e, s, n
<1>6. /\ Len(h \o m) = 2 + n /\ (h \o m) \in Seq(AnyField)
      /\ (h \o m)[1] = h[1] /\ (h \o m)[2] = h[2]
      /\ \A k \in 1 .. n : (h \o m)[2 + k] = m[k]
  <2>1. /\ h \o m \in Seq(AnyField) /\ Len(h \o m) = 2 + n
        /\ \A k \in 1 .. 2 : (h \o m)[k] = h[k]
        /\ \A k \in 1 .. n : (h \o m)[2 + k] = m[k]
    <3>1. Concatenated(h \o m, h, m, Len(h), Len(m))
      BY <1>1, ConcatIs
    <3>2. Concatenated(h \o m, h, m, 2, n)
      BY <1>1, <1>3, <3>1
    <3> QED
      BY <3>2 DEF Concatenated
  <2>2. 1 \in 1 .. 2 /\ 2 \in 1 .. 2
    OBVIOUS
  <2> QED
    BY <2>1, <2>2
<1> DEFINE c == h \o m
<1> HIDE DEF c
<1>7. /\ Len(c) = 2 + n /\ c \in Seq(AnyField) /\ c[1] = h[1] /\ c[2] = h[2]
      /\ \A k \in 1 .. n : c[2 + k] = m[k]
      /\ s = c \o e
  BY <1>1, <1>6 DEF c
<1>8. /\ Len(s) = 4 + n
      /\ \A k \in 1 .. 2 + n : s[k] = c[k]
      /\ s[(2 + n) + 1] = e[1] /\ s[(2 + n) + 2] = e[2]
  <2>1. /\ Len(c \o e) = (2 + n) + 2
        /\ \A k \in 1 .. 2 + n : (c \o e)[k] = c[k]
        /\ \A k \in 1 .. 2 : (c \o e)[(2 + n) + k] = e[k]
    <3>1. Concatenated(c \o e, c, e, Len(c), Len(e))
      BY <1>1, <1>7, ConcatIs
    <3>2. Concatenated(c \o e, c, e, 2 + n, 2)
      BY <1>5, <1>7, <3>1, Zenon
    <3> QED
      BY <3>2 DEF Concatenated
  <2>2. 1 \in 1 .. 2 /\ 2 \in 1 .. 2 /\ (2 + n) + 2 = 4 + n
    BY <1>2
  <2> QED
    BY <1>7, <2>1, <2>2
<1>9. s[1] = h[1] /\ s[2] = h[2] /\ s[3 + n] = e[1] /\ s[4 + n] = e[2]
  <2>1. 1 \in 1 .. 2 + n /\ 2 \in 1 .. 2 + n /\ (2 + n) + 1 = 3 + n /\ (2 + n) + 2 = 4 + n
    BY <1>2
  <2> QED
    BY <1>7, <1>8, <2>1
<1>10. \A k \in 1 .. n : s[2 + k] = m[k]
  <2>1. \A k \in 1 .. n : 2 + k \in 1 .. 2 + n
    BY <1>2
  <2> QED
    BY <1>7, <1>8, <2>1
<1> QED
  BY <1>3, <1>4, <1>5, <1>8, <1>9, <1>10 DEF TensorFieldsAre, n, s

LEMMA AtTensorReads ==
  ASSUME Places, Contents, AtTensor, Len(tensor_info_vec) < tensor_count
  PROVE  LET i == Len(tensor_info_vec) + 1
             t == doc.tensors[i]
             n == Len(t.dims)
         IN  /\ i \in 1 .. Len(doc.tensors) /\ n \in Nat
             /\ fields[at].value = t.name /\ fields[at + 1].value = n
             /\ \A k \in 1 .. n : fields[at + 1 + k].value = t.dims[k]
             /\ fields[at + 2 + n].value = t.dtype
             /\ fields[at + 3 + n].value = DataOffset(doc, i)
             /\ ~CanRead(2) => ~(HeaderBytes(doc) <= length)
             /\ ~CanRead(4 + n) => ~(HeaderBytes(doc) <= length)
             /\ CanRead(4 + n) /\ Read(4 + n) /\ UNCHANGED file =>
                  /\ Places' /\ pos' + Bytes(Rest') = HeaderBytes(doc')
                  /\ Rest' = TensorsFrom(doc, i + 1)
<1> DEFINE i == Len(tensor_info_vec) + 1
           t == doc.tensors[i]
           n == Len(t.dims)
           s == TensorFields(doc, i)
           u == TensorsFrom(doc, i + 1)
<1>1. /\ doc \in Documents /\ at \in Nat /\ pos + Bytes(Rest) = HeaderBytes(doc)
  BY FieldsType DEF Places, AtTensor, InHeader
<1>2. i \in 1 .. Len(doc.tensors) /\ i + 1 \in 1 .. Len(doc.tensors) + 1
  <2>1. tensor_count = Len(doc.tensors) /\ Len(doc.tensors) \in Nat
    BY <1>1, PartsTypes DEF AtTensor, Counted
  <2>2. Len(tensor_info_vec) \in Nat
    BY DEF Contents
  <2> QED
    BY <2>1, <2>2
<1>3. Rest = TensorsFrom(doc, i)
  BY DEF AtTensor
<1> HIDE DEF i
<1>4. Rest = s \o u /\ u \in Seq(AnyField)
  BY <1>1, <1>2, <1>3, TensorsFromIs
<1>5. s \in Seq(AnyField)
  BY <1>1, <1>2, TensorFieldsType
<1>6. TensorFieldsAre(doc, i)
  BY <1>1, <1>2, TensorFieldsHold
<1>7. n \in Nat
  <2>1. t.dims \in Seq(Nat)
    BY <1>1, <1>2, TensorIs
  <2> QED
    BY <2>1
<1>8. /\ Len(s) = 4 + n
      /\ s[1].value = t.name /\ s[2].value = n
      /\ \A k \in 1 .. n : s[2 + k].value = t.dims[k]
      /\ s[3 + n].value = t.dtype /\ s[4 + n].value = DataOffset(doc, i)
  BY <1>6 DEF TensorFieldsAre
<1>9. ~CanRead(2) => ~(HeaderBytes(doc) <= length)
  <2> DEFINE h == TensorHead(t)
             m == DimsFields(t)
             e == TensorTail(doc, i)
  <2>1. h \in Seq(AnyField) /\ m \in Seq(AnyField) /\ e \in Seq(AnyField) /\ s = (h \o m) \o e
    BY <1>1, <1>2, TensorFieldsType
  <2>2. Len(h) = 2
    BY DEF TensorHead
  <2> HIDE DEF h, m, e, s, u
  <2>3. h \o m \in Seq(AnyField) /\ m \o (e \o u) \in Seq(AnyField) /\ e \o u \in Seq(AnyField)
    BY <1>4, <2>1
  <2>4. ((h \o m) \o e) \o u = (h \o m) \o (e \o u)
    BY <1>4, <2>1, <2>3, Associative
  <2>5. (h \o m) \o (e \o u) = h \o (m \o (e \o u))
    BY <2>1, <2>3, Associative
  <2>6. Rest = h \o (m \o (e \o u))
    BY <1>4, <2>1, <2>4, <2>5
  <2> DEFINE r == m \o (e \o u)
  <2>7. r \in Seq(AnyField) /\ Rest = h \o r
    BY <2>3, <2>6
  <2> HIDE DEF r
  <2> QED
    BY <1>1, <2>1, <2>2, <2>7, ReadingOn
<1> HIDE DEF s, u, n, t
<1>10. /\ ~CanRead(4 + n) => ~(HeaderBytes(doc) <= length)
       /\ \A k \in 1 .. 4 + n : fields[at + k - 1] = s[k]
       /\ CanRead(4 + n) /\ Read(4 + n) /\ UNCHANGED file =>
            Places' /\ pos' + Bytes(Rest') = HeaderBytes(doc') /\ Rest' = u
  BY <1>1, <1>4, <1>5, <1>8, ReadingOn
<1>11. /\ fields[at] = s[1] /\ fields[at + 1] = s[2]
       /\ fields[at + 2 + n] = s[3 + n] /\ fields[at + 3 + n] = s[4 + n]
  <2>1. /\ 1 \in 1 .. 4 + n /\ 2 \in 1 .. 4 + n /\ 3 + n \in 1 .. 4 + n /\ 4 + n \in 1 .. 4 + n
        /\ at + 1 - 1 = at /\ at + 2 - 1 = at + 1
        /\ at + (3 + n) - 1 = at + 2 + n /\ at + (4 + n) - 1 = at + 3 + n
    BY <1>1, <1>7
  <2> QED
    BY <1>10, <2>1
<1>12. ASSUME NEW k \in 1 .. n PROVE fields[at + 1 + k].value = t.dims[k]
  <2>1. 2 + k \in 1 .. 4 + n /\ at + (2 + k) - 1 = at + 1 + k
    BY <1>1, <1>7
  <2> QED
    BY <1>8, <1>10, <2>1
<1> QED
  BY <1>2, <1>7, <1>8, <1>9, <1>10, <1>11, <1>12 DEF i, t, n, u

LEMMA AfterReadTensorInfo == ASSUME ParserInv, ReadTensorInfo PROVE ParserInv'
<1>1. Places /\ Contents /\ AtTensor /\ Len(tensor_info_vec) < tensor_count
  BY InPhase DEF ReadTensorInfo
<1> DEFINE i == Len(tensor_info_vec) + 1
           t == doc.tensors[i]
           n == Len(t.dims)
           x == [name       |-> fields[at].value,
                 dimensions |-> Dimensions(fields[at + 1].value),
                 dtype      |-> fields[at + 2 + fields[at + 1].value].value,
                 offset     |-> fields[at + 3 + fields[at + 1].value].value]
<1>2. /\ CanRead(4 + fields[at + 1].value) /\ Read(4 + fields[at + 1].value) /\ UNCHANGED file
      /\ tensor_info_vec' = Append(tensor_info_vec, x)
      /\ phase' = phase /\ phase = "tensor" /\ doc' = doc
      /\ frames' = frames /\ entries' = entries /\ meta_data' = meta_data
      /\ tensor_count' = tensor_count /\ kv_count' = kv_count
      /\ data_offset' = data_offset /\ offset' = offset /\ reads' = reads
  BY DEF ReadTensorInfo, TensorInfoReadable, file, header, entry
<1>3. /\ i \in 1 .. Len(doc.tensors) /\ n \in Nat
      /\ fields[at].value = t.name /\ fields[at + 1].value = n
      /\ \A k \in 1 .. n : fields[at + 1 + k].value = t.dims[k]
      /\ fields[at + 2 + n].value = t.dtype
      /\ fields[at + 3 + n].value = DataOffset(doc, i)
  BY <1>1, AtTensorReads
<1>4. Places' /\ pos' + Bytes(Rest') = HeaderBytes(doc') /\ Rest' = TensorsFrom(doc, i + 1)
  BY <1>1, <1>2, <1>3, AtTensorReads
<1>5. Dimensions(n) = Reverse(t.dims)
  <2>1. \A d \in 1 .. n : fields[at + 2 + n - d].value = t.dims[n - d + 1]
    <3> SUFFICES ASSUME NEW d \in 1 .. n PROVE fields[at + 2 + n - d].value = t.dims[n - d + 1]
      OBVIOUS
    <3>1. at \in Nat
      BY <1>1, FieldsType DEF Places
    <3> HIDE DEF n, t
    <3>2. n - d + 1 \in 1 .. n /\ at + 1 + (n - d + 1) = at + 2 + n - d
      BY <1>3, <3>1
    <3> QED
      BY <1>3, <3>2
  <2> QED
    BY <2>1 DEF Dimensions, Reverse
<1>6. x = InfoOf(doc, i)
  BY <1>3, <1>5 DEF InfoOf
<1> HIDE DEF x, t, n
<1>7. Len(tensor_info_vec) \in Nat /\ tensor_info_vec \in Seq(InfosOf(doc)) /\ i = Len(tensor_info_vec) + 1
  BY <1>1 DEF Contents
<1> HIDE DEF i
<1>8. x \in InfosOf(doc)
  BY <1>3, <1>6 DEF InfosOf
<1>9. /\ tensor_info_vec' \in Seq(InfosOf(doc)) /\ Len(tensor_info_vec') = i
      /\ tensor_info_vec'[i] = InfoOf(doc, i)
      /\ \A j \in 1 .. Len(tensor_info_vec) : tensor_info_vec'[j] = tensor_info_vec[j]
  BY <1>2, <1>6, <1>7, <1>8
<1>10. InfosRead'
  <2>1. \A j \in 1 .. Len(tensor_info_vec) : tensor_info_vec[j] = InfoOf(doc, j)
    BY <1>1 DEF AtTensor, InfosRead
  <2>2. \A j \in 1 .. i : j \in 1 .. Len(tensor_info_vec) \/ j = i
    BY <1>7
  <2>3. \A j \in 1 .. i : tensor_info_vec'[j] = InfoOf(doc, j)
    BY <1>9, <2>1, <2>2
  <2> QED
    BY <1>2, <1>9, <2>3 DEF InfosRead
<1>11. Contents'
  <2>1. i <= tensor_count
    BY <1>1, <1>7 DEF Contents
  <2> QED
    BY <1>1, <1>2, <1>9, <2>1 DEF Contents
<1>12. InHeader'
  BY <1>1, <1>2, <1>4 DEF InHeader, AtTensor, Read
<1>13. Counted' /\ entries' = kv_count'
  BY <1>1, <1>2 DEF Counted, AtTensor
<1>14. AtTensor'
  BY <1>2, <1>4, <1>9, <1>10, <1>12, <1>13 DEF AtTensor
<1> QED
  BY <1>4, <1>11, <1>14 DEF ParserInv


-----------------------------------------------------------------------------
(* The end of the constructor. *)
LEMMA MetadataRead ==
  ASSUME doc \in Documents, Counted, entries = kv_count
  PROVE  /\ meta_data = MeantMetadata
         /\ \A n \in DOMAIN doc.kvs : Encoding[doc.kvs[n][2]].readable
         /\ AlignmentUsable <=>
              ("general.alignment" \in DOMAIN MeantMetadata =>
                 MeantMetadata["general.alignment"][1] \in Numbers)
<1>1. meta_data = MeantMetadata
  BY DEF Counted, MeantMetadata
<1>2. DOMAIN doc.kvs = 1 .. Len(doc.kvs)
  BY DocumentIs
<1>3. \A n \in DOMAIN doc.kvs : Encoding[doc.kvs[n][2]].readable
  BY <1>2 DEF Counted
<1>4. \A k \in DOMAIN MeantMetadata :
        MeantMetadata[k][1] \in {"string", "array"} \cup Numbers
  BY MeantUpToKinds DEF MeantMetadata
<1>5. AlignmentUsable <=>
        ("general.alignment" \in DOMAIN MeantMetadata =>
           MeantMetadata["general.alignment"][1] \in Numbers)
  BY <1>1, <1>4 DEF AlignmentUsable, Numbers
<1> QED
  BY <1>1, <1>3, <1>5

LEMMA AlignmentIs ==
  ASSUME doc \in Documents, meta_data = MeantMetadata,
         "general.alignment" \in DOMAIN MeantMetadata =>
           MeantMetadata["general.alignment"][1] \in Numbers
  PROVE  Alignment = doc.alignment
<1> DEFINE meant == MeantUpTo(doc.kvs, Len(doc.kvs))
<1>1. IF "general.alignment" \in DOMAIN meant
      THEN meant["general.alignment"][1] \in Numbers =>
             Whole(meant["general.alignment"]) = doc.alignment
      ELSE doc.alignment = 32
  BY DocumentsAreWritten, Zenon
<1>2. meta_data = meant /\ MeantMetadata = meant
  BY DEF MeantMetadata
<1>3. doc.alignment % Uint32Values = doc.alignment
  <2>1. doc.alignment \in 1 .. Uint32Values - 1
    BY DocumentIs
  <2> QED
    BY <2>1, Uint32ValuesIsNat
<1> HIDE DEF meant
<1> QED
  BY <1>1, <1>2, <1>3 DEF Alignment

LEMMA AfterFinishParse == ASSUME ParserInv, FinishParse PROVE ParserInv'
<1>1. Places /\ Contents /\ AtTensor
  BY InPhase DEF FinishParse
<1>2. /\ Len(tensor_info_vec) = tensor_count /\ AlignmentUsable
      /\ data_offset' = Padded(pos) /\ offset' = Padded(pos) % Uint32Values /\ phase' = "ready"
      /\ doc' = doc /\ fields' = fields /\ length' = length
      /\ at' = at /\ pos' = pos /\ failbit' = failbit
      /\ tensor_count' = tensor_count /\ kv_count' = kv_count
      /\ frames' = frames /\ entries' = entries /\ meta_data' = meta_data
      /\ tensor_info_vec' = tensor_info_vec /\ reads' = reads
  BY DEF FinishParse, file, stream, header, entry
<1>3. /\ doc \in Documents /\ Counted /\ entries = kv_count
      /\ failbit = FALSE /\ reads = <<>> /\ pos + Bytes(Rest) = HeaderBytes(doc)
      /\ pos \in Nat /\ length \in Nat
  BY <1>1 DEF AtTensor, InHeader, Places
<1>4. /\ meta_data = MeantMetadata
      /\ \A n \in DOMAIN doc.kvs : Encoding[doc.kvs[n][2]].readable
      /\ "general.alignment" \in DOMAIN MeantMetadata =>
           MeantMetadata["general.alignment"][1] \in Numbers
  BY <1>2, <1>3, MetadataRead
<1>5. Len(tensor_info_vec) = Len(doc.tensors) /\ doc.magic = "GGUF" /\ doc.version = 3
  BY <1>2, <1>3 DEF Counted
<1>6. pos = HeaderBytes(doc)
  <2>1. Rest = <<>>
    BY <1>1, <1>3, <1>5, TensorsFromIs DEF AtTensor
  <2> QED
    BY <1>3, <2>1, BytesOfNothing
<1>7. WellFormed
  BY <1>4, <1>5 DEF WellFormed
<1>8. WellFormed' /\ MeantMetadata' = MeantMetadata
  BY <1>2, <1>7 DEF WellFormed, MeantMetadata
<1>9. Padded(pos) = DataStart(doc) /\ DataStart(doc) \in Nat
  <2>1. Alignment = doc.alignment /\ doc.alignment \in Nat \ {0}
    BY <1>3, <1>4, AlignmentIs, DocumentIs
  <2>2. Padded(pos) = pos + ((doc.alignment - (pos % doc.alignment)) % doc.alignment)
    BY <2>1 DEF Padded
  <2>3. Padded(pos) = RoundedUp(pos, doc.alignment) /\ RoundedUp(pos, doc.alignment) \in Nat
    BY <1>3, <2>1, <2>2, PaddingRoundsUp, RoundedUpType
  <2> QED
    BY <1>6, <2>3 DEF DataStart
<1>10. Places'
  BY <1>1, <1>2 DEF Places
<1>11. Contents'
  <2>1. offset' \in 0 .. Uint32Values - 1
    BY <1>2, <1>9, Uint32ValuesIsNat
  <2> QED
    BY <1>1, <1>2, <1>9, <2>1 DEF Contents
<1>12. InfosRead'
  BY <1>1, <1>2 DEF AtTensor, InfosRead
<1>13. ReadsDone'
  BY <1>2, <1>3 DEF ReadsDone, ReadsUntilFirstFailure
<1>14. AtReady'
  <2>1. pos <= length
    BY <1>1 DEF Places, AtTensor
  <2> QED
    BY <1>2, <1>3, <1>4, <1>5, <1>6, <1>8, <1>9, <1>12, <1>13, <2>1 DEF AtReady
<1> QED
  BY <1>10, <1>11, <1>14 DEF ParserInv

LEMMA AfterThrow == ASSUME ParserInv, Throw PROVE ParserInv'
<1>1. Places /\ Contents /\ doc \in Documents
  BY InPhase DEF Places
<1>2. phase # "ready" /\ phase' = "failed" /\ UNCHANGED <<file, stream, header, entry, info, reads>>
  BY DEF Throw
<1>3. reads = <<>> /\ ~(WellFormed /\ HeaderBytes(doc) <= length)
  <2>1. CASE phase = "open" /\ ~HeaderAcceptable
    <3>1. AtOpen
      BY <2>1, InPhase
    <3>2. /\ ~CanRead(4) => ~(HeaderBytes(doc) <= length)
          /\ fields[at].value = doc.magic /\ fields[at + 1].value = doc.version
      BY <1>1, <3>1, AtOpenReads
    <3>3. ~CanRead(4) \/ doc.magic # "GGUF" \/ doc.version # 3
      BY <2>1, <3>2 DEF HeaderAcceptable, Supported
    <3> QED
      BY <3>1, <3>2, <3>3 DEF WellFormed, AtOpen, InHeader
  <2>2. CASE phase = "entry" /\ entries < kv_count /\ ~CanRead(2)
    <3>1. AtEntry
      BY <2>2, InPhase
    <3> QED
      BY <1>1, <2>2, <3>1, AtEntryReads DEF AtEntry, InHeader
  <2>3. CASE phase = "value" /\ ~ArrayEnded /\ ~ValueReadable
    <3>1. AtValue
      BY <2>3, InPhase
    <3> QED
      BY <1>1, <2>3, <3>1, ValueRefused DEF AtValue, InHeader
  <2>4. CASE phase = "tensor" /\ Len(tensor_info_vec) < tensor_count /\ ~TensorInfoReadable
    <3>1. AtTensor
      BY <2>4, InPhase
    <3> QED
      BY <1>1, <2>4, <3>1, AtTensorReads DEF AtTensor, InHeader, TensorInfoReadable
  <2>5. CASE phase = "tensor" /\ Len(tensor_info_vec) = tensor_count /\ ~AlignmentUsable
    <3>1. AtTensor
      BY <2>5, InPhase
    <3>2. Counted /\ entries = kv_count /\ reads = <<>>
      BY <3>1 DEF AtTensor, InHeader
    <3>3. ~("general.alignment" \in DOMAIN MeantMetadata =>
              MeantMetadata["general.alignment"][1] \in Numbers)
      BY <1>1, <2>5, <3>2, MetadataRead
    <3> QED
      BY <3>2, <3>3 DEF WellFormed
  <2> QED
    BY <2>1, <2>2, <2>3, <2>4, <2>5 DEF Throw
<1> QED
  BY <1>1, <1>2, <1>3, Throwing

(* Reading a tensor. *)
LEMMA DataTypeSizeType == ASSUME NEW dtype PROVE DataTypeSize(dtype) \in Nat
BY TableSizes DEF DataTypeSize

LEMMA InfoBytesAre ==
  ASSUME NEW d \in Documents, NEW i \in 1 .. Len(d.tensors)
  PROVE  /\ InfoBytes(InfoOf(d, i)) \in Nat
         /\ d.tensors[i].dtype \in DOMAIN ElementBytes =>
              InfoBytes(InfoOf(d, i)) = DataBytes(d.tensors[i])
<1> DEFINE elements == Product(d.tensors[i].dims)
           type == d.tensors[i].dtype
<1>1. d.tensors[i].dims \in Seq(Nat)
  BY TensorIs
<1>2. d.tensors[i].dims \in Seq(Int)
  BY <1>1
<1>3. Product(Reverse(d.tensors[i].dims)) = Product(d.tensors[i].dims)
  BY <1>2, ProductOfReverse
<1>4. InfoBytes(InfoOf(d, i)) = DataTypeSize(type) * elements
  BY <1>3 DEF InfoBytes, InfoOf
<1>5. ASSUME type \in DOMAIN ElementBytes
      PROVE  DataTypeSize(type) = ElementBytes[type] /\ DataBytes(d.tensors[i]) = elements * ElementBytes[type]
  <2>1. DataBytes(d.tensors[i]) = elements * ElementBytes[type]
    BY <1>5, TypesApart, Zenon DEF DataBytes
  <2> HIDE DEF type, elements
  <2>2. DataTypeSize(type) = ElementBytes[type]
    <3>1. /\ type \notin DOMAIN SuperBlockBytes \cup {"IQ4_NL", "MXFP4"}
          /\ type # "Q4_0" /\ type # "Q4_1" /\ type # "Q5_0" /\ type # "Q5_1"
          /\ type # "Q8_0" /\ type # "Q8_1"
      BY <1>5, TypesApart
    <3> QED
      BY <1>5, <3>1, Zenon DEF DataTypeSize
  <2> QED
    BY <2>1, <2>2
<1>6. DataTypeSize(type) \in Nat /\ elements \in Nat
  BY <1>1, DataTypeSizeType, ProductType
<1> HIDE DEF elements, type
<1>7. \A x, y \in Nat : x * y \in Nat /\ x * y = y * x
  OBVIOUS
<1>8. DataTypeSize(type) * elements \in Nat /\ DataTypeSize(type) * elements = elements * DataTypeSize(type)
  BY <1>6, <1>7
<1>9. type \in DOMAIN ElementBytes => InfoBytes(InfoOf(d, i)) = DataBytes(d.tensors[i])
  BY <1>4, <1>5, <1>8
<1> QED
  BY <1>4, <1>8, <1>9 DEF type

LEMMA AfterReadTensorData ==
  ASSUME ParserInv, NEW i \in DOMAIN tensor_info_vec, ReadTensorData(i)
  PROVE  ParserInv'
<1>1. Places /\ Contents /\ AtReady
  BY InPhase DEF ReadTensorData
<1> DEFINE from == tensor_info_vec[i].offset + data_offset
           to == from + InfoBytes(tensor_info_vec[i])
           ok == SeeksAndReads(from, to)
           r == [tensor |-> i, from |-> from, to |-> to, ok |-> ok]
<1>2. /\ Len(reads) < MaxReads /\ reads' = Append(reads, r)
      /\ failbit' = ~ok /\ pos' = IF ok THEN to ELSE pos
      /\ phase' = phase /\ phase = "ready"
      /\ doc' = doc /\ fields' = fields /\ length' = length /\ at' = at
      /\ tensor_count' = tensor_count /\ kv_count' = kv_count
      /\ frames' = frames /\ entries' = entries /\ meta_data' = meta_data
      /\ tensor_info_vec' = tensor_info_vec /\ data_offset' = data_offset /\ offset' = offset
  BY DEF ReadTensorData, file, header, entry, info
<1>3. /\ doc \in Documents /\ length \in Nat /\ pos \in Nat /\ failbit \in BOOLEAN
      /\ tensor_info_vec \in Seq(InfosOf(doc)) /\ reads \in Seq(ReadRecords(doc))
      /\ MaxReads \in Nat /\ Len(reads) \in Nat
  BY <1>1, MaxReadsIsNat DEF Places, Contents
<1>4. /\ InfosRead /\ Len(tensor_info_vec) = Len(doc.tensors) /\ data_offset = DataStart(doc)
      /\ ReadsDone /\ data_offset \in Nat
  BY <1>1 DEF AtReady, Contents
<1>5. i \in 1 .. Len(doc.tensors) /\ tensor_info_vec[i] = InfoOf(doc, i)
  <2>1. i \in 1 .. Len(tensor_info_vec)
    BY <1>3
  <2> QED
    BY <1>4, <2>1 DEF InfosRead
<1>6. /\ from = TensorStart(doc, i) /\ (IsPlain(i) => to = TensorEnd(doc, i))
      /\ from \in Nat /\ to \in Nat
  <2>1. DataOffset(doc, i) \in Nat /\ DataBytes(doc.tensors[i]) \in Nat
    BY <1>3, <1>5, DataOffsetType, TensorIs
  <2>2. tensor_info_vec[i].offset = DataOffset(doc, i)
    BY <1>5 DEF InfoOf
  <2>3. /\ InfoBytes(tensor_info_vec[i]) \in Nat
        /\ IsPlain(i) => InfoBytes(tensor_info_vec[i]) = DataBytes(doc.tensors[i])
    BY <1>3, <1>5, InfoBytesAre DEF IsPlain
  <2>4. from = TensorStart(doc, i) /\ from \in Nat
    BY <1>4, <2>1, <2>2 DEF TensorStart
  <2> HIDE DEF from
  <2> QED
    BY <2>1, <2>3, <2>4 DEF TensorEnd
<1> HIDE DEF from, to
<1>7. ok \in BOOLEAN /\ (ok <=> ~failbit /\ (to <= length \/ from = to))
  BY <1>3 DEF SeeksAndReads
<1> HIDE DEF ok
<1>8. r \in ReadRecords(doc) /\ r.tensor = i /\ r.from = from /\ r.to = to /\ r.ok = ok
  BY <1>5, <1>6, <1>7 DEF ReadRecords
<1> HIDE DEF r
<1> DEFINE N == Len(reads)
<1>9. /\ reads' \in Seq(ReadRecords(doc)) /\ Len(reads') = N + 1 /\ reads'[N + 1] = r
      /\ \A n \in 1 .. N : reads'[n] = reads[n]
      /\ DOMAIN reads' = 1 .. N + 1 /\ DOMAIN reads = 1 .. N
  BY <1>2, <1>3, <1>8
<1> HIDE DEF N
<1>10. /\ N \in Nat
       /\ \A n \in 1 .. N + 1 : n \in 1 .. N \/ n = N + 1
  BY <1>3 DEF N
<1>11. Places'
  <2>1. pos' \in Nat
    BY <1>2, <1>3, <1>6
  <2>2. failbit' \in BOOLEAN
    BY <1>2
  <2> QED
    BY <1>1, <1>2, <2>1, <2>2 DEF Places
<1>12. Contents'
  <2>1. Len(reads') <= MaxReads
    BY <1>2, <1>3, <1>9 DEF N
  <2> QED
    BY <1>1, <1>2, <1>9, <2>1 DEF Contents
<1> DEFINE Meets(n) == MeetsEnd(reads'[n])
<1>13. \A n \in 1 .. N : Meets(n) <=> MeetsEnd(reads[n])
  BY <1>9
<1>14. Meets(N + 1) <=> ~(to <= length \/ from = to)
  BY <1>3, <1>6, <1>8, <1>9 DEF MeetsEnd
<1>15. /\ failbit <=> \E n \in 1 .. N : Meets(n)
       /\ \A n \in 1 .. N : reads[n].ok <=> \A m \in 1 .. n : ~Meets(m)
  <2>1. /\ failbit <=> \E n \in 1 .. N : MeetsEnd(reads[n])
        /\ \A n \in 1 .. N : reads[n].ok <=> \A m \in 1 .. n : ~MeetsEnd(reads[m])
    BY <1>4, <1>9, Zenon DEF ReadsDone, ReadsUntilFirstFailure
  <2>2. \A n \in 1 .. N : \A m \in 1 .. n : m \in 1 .. N
    BY <1>10
  <2> HIDE DEF Meets
  <2> QED
    BY <1>13, <2>1, <2>2, Zenon
<1>16. \A n \in 1 .. N + 1 : MeetsEnd(reads[n])' <=> Meets(n)
  BY <1>2 DEF MeetsEnd
<1> HIDE DEF Meets
<1>17. ok <=> \A n \in 1 .. N + 1 : ~Meets(n)
  <2>1. N + 1 \in 1 .. N + 1 /\ \A n \in 1 .. N : n \in 1 .. N + 1
    BY <1>10
  <2> QED
    BY <1>7, <1>10, <1>14, <1>15, <2>1, Zenon
<1>18. ReadsDone'
  <2>1. \A n \in DOMAIN reads' :
          /\ reads'[n].from = TensorStart(doc, reads'[n].tensor)
          /\ IsPlain(reads'[n].tensor) => reads'[n].to = TensorEnd(doc, reads'[n].tensor)
    <3>1. \A n \in 1 .. N :
            /\ reads[n].from = TensorStart(doc, reads[n].tensor)
            /\ IsPlain(reads[n].tensor) => reads[n].to = TensorEnd(doc, reads[n].tensor)
      BY <1>4, <1>9 DEF ReadsDone
    <3> QED
      BY <1>6, <1>8, <1>9, <1>10, <3>1
  <2>2. \A n \in DOMAIN reads' :
          /\ reads'[n].from = TensorStart(doc', reads'[n].tensor)
          /\ IsPlain(reads[n].tensor)' => reads'[n].to = TensorEnd(doc', reads'[n].tensor)
    BY <1>2, <2>1 DEF IsPlain
  <2>3. failbit' <=> \E n \in DOMAIN reads' : MeetsEnd(reads[n])'
    BY <1>2, <1>9, <1>16, <1>17, Zenon
  <2>4. ASSUME NEW n \in DOMAIN reads' PROVE reads'[n].ok <=> \A m \in 1 .. n : ~Meets(m)
    <3>1. CASE n \in 1 .. N
      BY <1>9, <1>15, <3>1
    <3>2. CASE n = N + 1
      BY <1>8, <1>9, <1>17, <3>2
    <3> QED
      BY <1>9, <1>10, <3>1, <3>2
  <2>5. \A n \in 1 .. N + 1 : \A m \in 1 .. n : m \in 1 .. N + 1
    BY <1>10
  <2>6. ReadsUntilFirstFailure'
    BY <1>9, <1>16, <2>4, <2>5, Zenon DEF ReadsUntilFirstFailure
  <2> QED
    BY <2>2, <2>3, <2>6, Zenon DEF ReadsDone
<1>19. AtReady'
  <2>1. WellFormed' /\ MeantMetadata' = MeantMetadata
    BY <1>1, <1>2 DEF WellFormed, MeantMetadata, AtReady
  <2>2. InfosRead'
    BY <1>2, <1>4 DEF InfosRead
  <2> QED
    BY <1>1, <1>2, <1>4, <1>18, <2>1, <2>2 DEF AtReady
<1> QED
  BY <1>11, <1>12, <1>19 DEF ParserInv


LEMMA AfterStutter == ASSUME ParserInv, UNCHANGED vars PROVE ParserInv'
<1>1. /\ doc' = doc /\ fields' = fields /\ length' = length
      /\ at' = at /\ pos' = pos /\ failbit' = failbit /\ phase' = phase
      /\ tensor_count' = tensor_count /\ kv_count' = kv_count
      /\ key' = key /\ value_type' = value_type /\ frames' = frames /\ entries' = entries
      /\ meta_data' = meta_data /\ tensor_info_vec' = tensor_info_vec
      /\ data_offset' = data_offset /\ offset' = offset /\ reads' = reads
  BY DEF vars, file, stream, header, entry, info
<1>2. Places' = Places /\ Contents' = Contents /\ Rest' = Rest
  BY <1>1 DEF Places, Contents, Rest
<1>3. InHeader' = InHeader /\ Counted' = Counted /\ InfosRead' = InfosRead
  BY <1>1, <1>2 DEF InHeader, Counted, InfosRead
<1>4. AtOpen' = AtOpen /\ AtEntry' = AtEntry /\ AtTensor' = AtTensor
  BY <1>1, <1>2, <1>3 DEF AtOpen, AtEntry, AtTensor
<1>5. CurrentValue' = CurrentValue /\ AfterEntry' = AfterEntry
  BY <1>1 DEF CurrentValue, AfterEntry
<1>6. \A w, a : Amid(w, a)' = Amid(w, a)
  BY <1>1, <1>2, <1>5 DEF Amid
<1>7. InEntry' = InEntry
  BY <1>1, <1>3, <1>5 DEF InEntry
<1>8. AtValue' = AtValue
  BY <1>1, <1>3, <1>6, <1>7 DEF AtValue
<1>9. WellFormed' = WellFormed /\ MeantMetadata' = MeantMetadata
  BY <1>1 DEF WellFormed, MeantMetadata
<1>10. ReadsDone' = ReadsDone
  BY <1>1 DEF ReadsDone, ReadsUntilFirstFailure, IsPlain, MeetsEnd
<1>11. AtReady' = AtReady /\ AtFailed' = AtFailed
  BY <1>1, <1>3, <1>9, <1>10 DEF AtReady, AtFailed
<1> QED
  BY <1>2, <1>4, <1>8, <1>11 DEF ParserInv

LEMMA NextInv == ParserInv /\ [Next]_vars => ParserInv'
<1> SUFFICES ASSUME ParserInv, [Next]_vars PROVE ParserInv'
  OBVIOUS
<1>1. ASSUME Parse PROVE ParserInv'
  BY <1>1, AfterReadHeader, AfterReadKey, AfterReadScalar, AfterOpenArray, AfterCloseArray,
     AfterEndMetadata, AfterReadTensorInfo, AfterFinishParse, AfterThrow DEF Parse
<1> QED
  BY <1>1, AfterReadTensorData, AfterStutter DEF Next

LEMMA ParserInvAlways == Spec => []ParserInv
<1>1. Init => ParserInv
  BY InitInv
<1> QED
  BY <1>1, NextInv, PTL DEF Spec

-----------------------------------------------------------------------------
(* What the invariant says of the properties.  Before the parser is ready, *)
(* nothing has been read.                                                  *)
LEMMA NothingReadBefore == ASSUME ParserInv, phase # "ready" PROVE reads = <<>>
BY DEF ParserInv, AtOpen, AtEntry, AtValue, AtTensor, AtReady, AtFailed, InHeader

LEMMA ParserInvType == ParserInv => TypeOK
<1> SUFFICES ASSUME ParserInv PROVE TypeOK
  OBVIOUS
<1>1. Places /\ Contents
  BY DEF ParserInv
<1>2. phase \in {"open", "entry", "value", "tensor", "ready", "failed"}
  BY DEF ParserInv, AtOpen, AtEntry, AtValue, AtTensor, AtReady, AtFailed
<1>3. \A n \in DOMAIN frames : frames[n].left \in Nat
  <2>1. frames \in Seq(Frame)
    BY <1>1 DEF Contents
  <2>2. DOMAIN frames = 1 .. Len(frames)
    BY <2>1
  <2> QED
    BY <2>1, <2>2, FrameIs
<1> QED
  BY <1>1, <1>2, <1>3 DEF TypeOK, Places, Contents

(***************************************************************************)
(* However deep arrays nest and wherever the file ends, the stream stays   *)
(* within the fields and the bytes of the file, no array is asked for more *)
(* items than it has, and no more entries and tensors are read than the    *)
(* counts say.                                                             *)
(***************************************************************************)
THEOREM ParserType == Spec => []TypeOK
<1>1. ParserInv => TypeOK
  BY ParserInvType
<1> QED
  BY ParserInvAlways, <1>1, PTL

(***************************************************************************)
(* For every document and every length of the file, the constructor returns*)
(* only if the header is well-formed and whole, and throws only if it is   *)
(* not.                                                                    *)
(***************************************************************************)
THEOREM ParserAcceptsExactlyWholeHeaders == Spec => []AcceptsExactlyWholeHeaders
<1>1. ParserInv => AcceptsExactlyWholeHeaders
  BY DEF ParserInv, AtOpen, AtEntry, AtValue, AtTensor, AtReady, AtFailed,
         AcceptsExactlyWholeHeaders
<1> QED
  BY ParserInvAlways, <1>1, PTL

(***************************************************************************)
(* For every document, the metadata and the tensor infos of an accepted    *)
(* file are those it was written from.                                     *)
(***************************************************************************)
THEOREM ParserParsedAsWritten == Spec => []ParsedAsWritten
<1>1. ParserInv => ParsedAsWritten
  <2> SUFFICES ASSUME ParserInv, phase = "ready" PROVE ParsedAsWritten
    BY DEF ParsedAsWritten
  <2>1. Places /\ AtReady
    BY InPhase
  <2>2. DOMAIN doc.tensors = 1 .. Len(tensor_info_vec)
    BY <2>1, DocumentIs DEF Places, AtReady
  <2>3. \A i \in DOMAIN doc.tensors : tensor_info_vec[i] = InfoOf(doc, i)
    BY <2>1, <2>2 DEF AtReady, InfosRead
  <2>4. ASSUME NEW i \in DOMAIN doc.tensors
        PROVE  /\ tensor_info_vec[i].name = doc.tensors[i].name
               /\ tensor_info_vec[i].dtype = doc.tensors[i].dtype
               /\ tensor_info_vec[i].dimensions = Reverse(doc.tensors[i].dims)
    <3>1. tensor_info_vec[i] = InfoOf(doc, i)
      BY <2>3
    <3>2. /\ InfoOf(doc, i).name = doc.tensors[i].name
          /\ InfoOf(doc, i).dtype = doc.tensors[i].dtype
          /\ InfoOf(doc, i).dimensions = Reverse(doc.tensors[i].dims)
      BY DEF InfoOf
    <3> QED
      BY ONLY <3>1, <3>2
  <2>5. meta_data = MeantMetadata /\ Len(tensor_info_vec) = Len(doc.tensors)
    BY <2>1 DEF AtReady
  <2> QED
    BY <2>4, <2>5, Zenon DEF ParsedAsWritten
<1> QED
  BY ParserInvAlways, <1>1, PTL

(***************************************************************************)
(* Whatever alignment the metadata give and whatever types the tensors     *)
(* have, a read starts at the first byte of its tensor, and a successful   *)
(* read of a tensor of a plain type is all its bytes and no more.          *)
(***************************************************************************)
THEOREM ParserReadsAreTheTensors == Spec => []ReadsAreTheTensors
<1>1. ParserInv => ReadsAreTheTensors
  <2> SUFFICES ASSUME ParserInv PROVE ReadsAreTheTensors
    OBVIOUS
  <2>1. CASE phase = "ready"
    BY <2>1, InPhase, Zenon DEF AtReady, ReadsDone, ReadsAreTheTensors
  <2>2. CASE phase # "ready"
    BY <2>2, NothingReadBefore DEF ReadsAreTheTensors
  <2> QED
    BY <2>1, <2>2
<1> QED
  BY ParserInvAlways, <1>1, PTL

(***************************************************************************)
(* However many reads there are, they succeed up to the first that asks    *)
(* for something beyond the end of the file, and none succeeds after it.   *)
(***************************************************************************)
THEOREM ParserReadsUntilFirstFailure == Spec => []ReadsUntilFirstFailure
<1>1. ParserInv => ReadsUntilFirstFailure
  <2> SUFFICES ASSUME ParserInv PROVE ReadsUntilFirstFailure
    OBVIOUS
  <2>1. CASE phase = "ready"
    BY <2>1, InPhase DEF AtReady, ReadsDone
  <2>2. CASE phase # "ready"
    BY <2>2, NothingReadBefore DEF ReadsUntilFirstFailure
  <2> QED
    BY <2>1, <2>2
<1> QED
  BY ParserInvAlways, <1>1, PTL

-----------------------------------------------------------------------------
(* The configuration a model takes from a file.                            *)

(* Conversion to an int yields one, and leaves alone what is one.          *)
LEMMA AsIntIs ==
  ASSUME NEW n \in Int
  PROVE  /\ AsInt(n) \in Ints
         /\ n \in Ints => AsInt(n) = n
<1> DEFINE U == Uint32Values
           h == U \div 2
           low == n % U
<1>1. U \in Nat \ {0} /\ h \in Nat /\ U = 2 * h
  BY Uint32ValuesIsNat, HalfAreNegative
<1>2. low \in 0 .. U - 1
  BY <1>1
<1>3. Ints = -h .. h - 1
  BY DEF Ints
<1>4. AsInt(n) = IF low \in Ints THEN low ELSE low - U
  BY DEF AsInt
<1>5. ASSUME n \in Ints, n >= 0 PROVE low = n
  <2>1. n = 0 * U + n /\ n \in 0 .. U - 1
    BY <1>1, <1>3, <1>5
  <2> QED
    BY <1>1, <2>1, Division
<1>6. ASSUME n \in Ints, n < 0 PROVE low = n + U
  <2>1. n = (-1) * U + (n + U) /\ n + U \in 0 .. U - 1
    BY <1>1, <1>3, <1>6
  <2> QED
    BY <1>1, <2>1, Division
<1> HIDE DEF h, low, U
<1> QED
  BY <1>1, <1>2, <1>3, <1>4, <1>5, <1>6

(* The names of the fields tell the fields apart.                          *)
LEMMA FieldsAre ==
  /\ DOMAIN Fields = 1 .. 9
  /\ \A i, j \in 1 .. 9 : Fields[i].name = Fields[j].name => i = j
  /\ \A i \in 1 .. 9 : Fields[i].name # "vocab_size"
<1>1. DOMAIN Fields = 1 .. 9
  BY DEF Fields
<1>2. 1 .. 9 = {1, 2, 3, 4, 5, 6, 7, 8, 9}
  OBVIOUS
<1>3. /\ Fields[1].name = "hidden_size" /\ Fields[2].name = "num_layers"
      /\ Fields[3].name = "num_heads" /\ Fields[4].name = "num_kv_heads"
      /\ Fields[5].name = "head_dim" /\ Fields[6].name = "intermediate_size"
      /\ Fields[7].name = "max_seq_len" /\ Fields[8].name = "rms_norm_eps"
      /\ Fields[9].name = "rope_theta"
  BY DEF Fields, IntField, FloatField
<1> QED
  BY ONLY <1>1, <1>2, <1>3

LEMMA PlaceIs == \A i \in 1 .. 9 : Place(Fields[i].name) = i /\ Fields[i].name \in FieldNames
<1> SUFFICES ASSUME NEW i \in 1 .. 9
             PROVE  Place(Fields[i].name) = i /\ Fields[i].name \in FieldNames
  OBVIOUS
<1>1. Place(Fields[i].name) = i
  BY FieldsAre DEF Place
<1> QED
  BY <1>1, FieldsAre DEF FieldNames

LEMMA DefaultIs ==
  ASSUME NEW i \in 1 .. 9, Fields[i].type = "int"
  PROVE  Fields[i].default \in Ints
<1> DEFINE name == Fields[i].name
<1>1. name \in FieldNames /\ name # "vocab_size" /\ Place(name) = i
  BY PlaceIs, FieldsAre
<1>2. IsConfig(NewConfig)
  BY ConfigsAreWhole
<1>3. NewConfig[name] \in Ints
  BY <1>2, FieldsAre DEF IsConfig
<1> HIDE DEF name
<1>4. NewConfig[name] = Fields[Place(name)].default
  BY <1>1 DEF NewConfig
<1> QED
  BY <1>1, <1>3, <1>4

-----------------------------------------------------------------------------
(* What parseConfig finds in the info of a file, said of the document.     *)
LEMMA LeastMember ==
  ASSUME NEW S \in SUBSET Nat, S # {}
  PROVE  Min(S) \in S
<1>1. IsWellFoundedOn(OpToRel(<, Nat), Nat)
  BY NatLessThanWellFounded
<1>2. PICK m \in S : \A n \in S : ~(<<n, m>> \in OpToRel(<, Nat))
  BY <1>1, WFMin
<1>3. \A n \in S : ~(n < m)
  BY <1>2 DEF OpToRel
<1>4. \A n \in S : n \in Nat
  OBVIOUS
<1>5. \A n \in S : m <= n
  BY <1>3, <1>4
<1> QED
  BY <1>5 DEF Min

LEMMA InfoIs ==
  ASSUME ParserInv, phase = "ready"
  PROVE  /\ meta_data = MeantMetadata
         /\ DOMAIN meta_data = {} <=> doc.kvs = <<>>
         /\ Embeddings = MeantEmbeddings
         /\ MeantEmbeddings # {} =>
              tensor_info_vec[Min(Embeddings)].dimensions[2] =
                doc.tensors[Min(MeantEmbeddings)].dims[1]
<1>1. /\ doc \in Documents /\ meta_data = MeantMetadata
      /\ InfosRead /\ Len(tensor_info_vec) = Len(doc.tensors)
      /\ tensor_info_vec \in Seq(InfosOf(doc))
  BY InPhase DEF Places, Contents, AtReady
<1>2. /\ Len(doc.kvs) \in Nat /\ Len(doc.tensors) \in Nat
      /\ DOMAIN doc.kvs = 1 .. Len(doc.kvs) /\ DOMAIN doc.tensors = 1 .. Len(doc.tensors)
      /\ DOMAIN tensor_info_vec = 1 .. Len(doc.tensors)
      /\ Len(doc.kvs) = 0 <=> doc.kvs = <<>>
  BY <1>1, DocumentIs
<1>3. DOMAIN meta_data = {} <=> doc.kvs = <<>>
  <2>1. DOMAIN meta_data = {doc.kvs[i][1] : i \in 1 .. Len(doc.kvs)}
    BY <1>1 DEF MeantMetadata, MeantUpTo
  <2>2. 1 .. Len(doc.kvs) = {} <=> Len(doc.kvs) = 0
    <3>1. Len(doc.kvs) # 0 => 1 \in 1 .. Len(doc.kvs)
      BY <1>2
    <3> QED
      BY <3>1
  <2> QED
    BY <1>2, <2>1, <2>2
<1>4. ASSUME NEW i \in 1 .. Len(doc.tensors)
      PROVE  /\ tensor_info_vec[i].name = doc.tensors[i].name
             /\ Len(tensor_info_vec[i].dimensions) = Len(doc.tensors[i].dims)
             /\ Len(doc.tensors[i].dims) = 2 =>
                  tensor_info_vec[i].dimensions[2] = doc.tensors[i].dims[1]
  <2>1. tensor_info_vec[i] = InfoOf(doc, i)
    BY <1>1 DEF InfosRead
  <2>2. /\ InfoOf(doc, i).name = doc.tensors[i].name
        /\ InfoOf(doc, i).dimensions = Reverse(doc.tensors[i].dims)
    BY DEF InfoOf
  <2>3. doc.tensors[i].dims \in Seq(Nat)
    BY <1>1, TensorIs
  <2>4. /\ Len(Reverse(doc.tensors[i].dims)) = Len(doc.tensors[i].dims)
        /\ Len(doc.tensors[i].dims) = 2 =>
             Reverse(doc.tensors[i].dims)[2] = doc.tensors[i].dims[1]
    <3> DEFINE s == doc.tensors[i].dims
    <3>1. s \in Seq(Nat)
      BY <2>3
    <3> HIDE DEF s
    <3>2. Len(s) \in Nat
      BY ONLY <3>1
    <3>3. Reverse(s) = [n \in 1 .. Len(s) |-> s[(Len(s) - n) + 1]]
      BY ONLY DEF Reverse
    <3>4. Len(Reverse(s)) = Len(s)
      BY ONLY <3>2, <3>3
    <3>5. Len(s) = 2 => Reverse(s)[2] = s[1]
      BY ONLY <3>3
    <3> QED
      BY <3>4, <3>5 DEF s
  <2> QED
    BY ONLY <2>1, <2>2, <2>4
<1>5. Embeddings = MeantEmbeddings
  BY <1>2, <1>4 DEF Embeddings, MeantEmbeddings
<1>6. ASSUME MeantEmbeddings # {}
      PROVE  tensor_info_vec[Min(Embeddings)].dimensions[2] =
               doc.tensors[Min(MeantEmbeddings)].dims[1]
  <2>1. MeantEmbeddings \in SUBSET Nat
    BY <1>2 DEF MeantEmbeddings
  <2>2. Min(MeantEmbeddings) \in MeantEmbeddings
    BY <1>6, <2>1, LeastMember
  <2> DEFINE m == Min(MeantEmbeddings)
  <2>3. m \in 1 .. Len(doc.tensors) /\ Len(doc.tensors[m].dims) = 2
    BY <1>2, <2>2 DEF MeantEmbeddings
  <2> HIDE DEF m
  <2>4. tensor_info_vec[m].dimensions[2] = doc.tensors[m].dims[1]
    BY <1>4, <2>3
  <2> QED
    BY <1>5, <2>4 DEF m
<1> QED
  BY <1>1, <1>3, <1>5, <1>6

LEMMA MeaningsAre ==
  ASSUME ParserInv
  PROVE  \A k \in DOMAIN MeantMetadata : MeantMetadata[k] \in Meanings
BY MeantUpToMeanings DEF ParserInv, Places, MeantMetadata

LEMMA VocabularyIs ==
  ASSUME ParserInv, phase = "ready", config = before, before.vocab_size \in Ints
  PROVE  /\ VocabSize \in Ints
         /\ VocabSize = 0 => NamesNoVocabulary
         /\ NamesNoVocabulary /\ (ListsTokens \/ before.vocab_size = 0) => VocabSize = 0
         /\ MeantTokens \in Ints \ {0} => VocabSize = MeantTokens
<1> DEFINE rows == doc.tensors[Min(MeantEmbeddings)].dims[1]
           none == MeantEmbeddings = {}
<1>1. CountedTokens = IF ListsTokens THEN AsInt(MeantTokens) ELSE before.vocab_size
  BY InfoIs DEF CountedTokens, ListsTokens, MeantTokens
<1>2. ~ListsTokens => MeantTokens = 0
  BY DEF MeantTokens
<1>3. VocabSize = IF CountedTokens # 0 THEN CountedTokens ELSE IF none THEN 0 ELSE AsInt(rows)
  BY InfoIs DEF VocabSize
<1>4. MeantTokens \in Nat
  BY MeaningsAre, MeaningIs DEF MeantTokens, ListsTokens
<1>5. ~none => rows \in Nat
  <2> SUFFICES ASSUME ~none PROVE rows \in Nat
    OBVIOUS
  <2>1. doc \in Documents /\ Len(doc.tensors) \in Nat /\ DOMAIN doc.tensors = 1 .. Len(doc.tensors)
    BY DocumentIs DEF ParserInv, Places
  <2>2. MeantEmbeddings \in SUBSET Nat
    BY <2>1 DEF MeantEmbeddings
  <2>3. Min(MeantEmbeddings) \in MeantEmbeddings
    BY <2>2, LeastMember
  <2> DEFINE m == Min(MeantEmbeddings)
  <2>4. m \in 1 .. Len(doc.tensors) /\ Len(doc.tensors[m].dims) = 2
    BY <2>1, <2>3 DEF MeantEmbeddings
  <2> HIDE DEF m
  <2>5. doc.tensors[m].dims \in Seq(Nat)
    BY <2>1, <2>4, TensorIs
  <2>6. doc.tensors[m].dims[1] \in Nat
    BY <2>4, <2>5
  <2> QED
    BY <2>6 DEF m
<1>6. 0 \in Ints /\ AsInt(0) = 0
  <2>1. 0 \in Ints
    BY Uint32ValuesIsNat, HalfAreNegative DEF Ints
  <2> QED
    BY <2>1, AsIntIs
<1>7. AsInt(MeantTokens) \in Ints /\ (MeantTokens \in Ints => AsInt(MeantTokens) = MeantTokens)
  BY <1>4, AsIntIs
<1>8. ~none => AsInt(rows) \in Ints
  BY <1>5, AsIntIs
<1>9. NamesNoVocabulary <=> AsInt(MeantTokens) = 0 /\ (~none => AsInt(rows) = 0)
  BY DEF NamesNoVocabulary
<1> HIDE DEF rows, none
<1>10. ListsTokens \in BOOLEAN
  BY DEF ListsTokens
<1> QED
  BY ONLY <1>1, <1>2, <1>3, <1>6, <1>7, <1>8, <1>9, <1>10, before.vocab_size \in Ints

LEMMA ConvertibleIs ==
  ASSUME ParserInv, phase = "ready", NEW f
  PROVE  /\ Convertible(f) <=> doc.kvs # <<>> /\ ~Contradicts(f)
         /\ Convertible(f) => Says(f, ValueOf(f))
         /\ Convertible(f) /\ f.type = "int" /\ f.default \in Ints => ValueOf(f) \in Ints
         /\ Convertible(f) /\ IsUndefined(f) => \A x : Says(f, x)
<1> DEFINE json == meta_data[f.key]
<1>1. meta_data = MeantMetadata /\ (DOMAIN meta_data = {} <=> doc.kvs = <<>>)
  BY InfoIs
<1>2. Convertible(f) <=> doc.kvs # <<>> /\ ~Contradicts(f)
  BY <1>1 DEF Convertible, Contradicts
<1>3. Convertible(f) /\ f.key \in DOMAIN meta_data => json[1] \in Numbers /\ Whole(json) \in Int
  BY <1>1, MeaningsAre, MeaningIs DEF Convertible
<1>4. Convertible(f) /\ f.key \in DOMAIN meta_data =>
        AsInt(Whole(json)) \in Ints /\ (Whole(json) \in Ints => AsInt(Whole(json)) = Whole(json))
  BY <1>3, AsIntIs
<1>5. ValueOf(f) = IF f.key \notin DOMAIN meta_data THEN f.default
                   ELSE IF f.type = "float" THEN Nearest(json) ELSE AsInt(Whole(json))
  BY DEF ValueOf
<1>6. \A x : Says(f, x) <=>
        IF f.key \notin DOMAIN meta_data THEN x = f.default
        ELSE /\ json[1] \in Numbers
             /\ f.type = "float" => x = Nearest(json)
             /\ f.type = "int" /\ Whole(json) \in Ints => x = Whole(json)
  BY <1>1 DEF Says
<1>7. IsUndefined(f) => f.type = "int" /\ f.key \in DOMAIN meta_data /\ Whole(json) \notin Ints
  BY DEF IsUndefined
<1> HIDE DEF json
<1>8. Convertible(f) => Says(f, ValueOf(f))
  BY <1>3, <1>4, <1>5, <1>6
<1>9. Convertible(f) /\ IsUndefined(f) => \A x : Says(f, x)
  BY <1>3, <1>6, <1>7
<1>10. Convertible(f) /\ f.type = "int" /\ f.default \in Ints => ValueOf(f) \in Ints
  BY <1>4, <1>5
<1> QED
  BY <1>2, <1>8, <1>9, <1>10

-----------------------------------------------------------------------------
(* Fields are assigned one after the other up to the first that throws.    *)
Refusing == {i \in DOMAIN Fields : doc.kvs = <<>> \/ Contradicts(Fields[i])}

LEMMA AssignedIs ==
  ASSUME ParserInv, phase = "ready"
  PROVE  /\ \A i \in 1 .. 9 : i \in Assigned <=> \A b \in Refusing : i < b
         /\ Assigned = DOMAIN Fields <=> Refusing = {}
         /\ \A i \in Assigned : Convertible(Fields[i])
<1>1. DOMAIN Fields = 1 .. 9
  BY FieldsAre
<1>2. \A i \in 1 .. 9 : i \in Refusing <=> ~Convertible(Fields[i])
  BY <1>1, ConvertibleIs DEF Refusing
<1>3. Refusing \subseteq 1 .. 9
  BY <1>1 DEF Refusing
<1>4. \A i \in 1 .. 9 : i \in Assigned <=> \A j \in 1 .. i : Convertible(Fields[j])
  BY <1>1 DEF Assigned
<1>5. ASSUME NEW i \in 1 .. 9
      PROVE  i \in Assigned <=> \A b \in Refusing : i < b
  <2>1. \A j \in 1 .. 9 : j \in 1 .. i <=> ~(i < j)
    OBVIOUS
  <2>2. \A j \in 1 .. i : j \in 1 .. 9
    OBVIOUS
  <2> QED
    BY <1>2, <1>3, <1>4, <2>1, <2>2, Zenon
<1>6. Assigned \subseteq 1 .. 9 /\ 9 \in 1 .. 9
  BY <1>1 DEF Assigned
<1>7. Assigned = DOMAIN Fields <=> Refusing = {}
  <2>1. ASSUME Refusing = {} PROVE Assigned = 1 .. 9
    BY <1>5, <1>6, <2>1
  <2>2. ASSUME Assigned = 1 .. 9, NEW b \in Refusing PROVE FALSE
    <3>1. \A i \in 1 .. 9 : i < b
      BY <1>5, <2>2
    <3> QED
      BY <1>3, <3>1
  <2> QED
    BY <1>1, <2>1, <2>2
<1>8. \A i \in Assigned : Convertible(Fields[i])
  BY <1>4, <1>6
<1> QED
  BY <1>5, <1>7, <1>8

(***************************************************************************)
(* The invariant: parseConfig has not touched the configuration before it  *)
(* was called, and is called only when the parser is ready.                *)
(***************************************************************************)
ModelInv ==
  /\ ParserInv
  /\ outcome \in {"none", "parsed", "thrown"}
  /\ IsConfig(config)
  /\ outcome = "none" => config = before
  /\ ConfigAsWritten
  /\ ConfigRefusedExactly

LEMMA ModelInitInv == ModelInit => ModelInv
<1> SUFFICES ASSUME ModelInit PROVE ModelInv
  OBVIOUS
<1>1. Init /\ before \in {NewConfig} \cup ParsedBefore /\ config = before /\ outcome = "none"
  BY DEF ModelInit
<1>2. IsConfig(config)
  BY <1>1, ConfigsAreWhole
<1> QED
  BY <1>1, <1>2, InitInv DEF ModelInv, ConfigAsWritten, ConfigRefusedExactly

(* The parser leaves the document alone.                                   *)
LEMMA DocStays == [Next]_vars => doc' = doc
BY DEF Next, Parse, vars, file, ReadHeader, ReadKey, ReadScalar, OpenArray, CloseArray,
       EndMetadata, ReadTensorInfo, FinishParse, Throw, ReadTensorData

LEMMA AfterParserStep == ASSUME ModelInv, [Next]_vars, UNCHANGED model PROVE ModelInv'
<1>1. ParserInv'
  BY NextInv DEF ModelInv
<1>2. doc' = doc /\ config' = config /\ before' = before /\ outcome' = outcome
  BY DocStays DEF model
<1>3. MeantMetadata' = MeantMetadata
  BY <1>2 DEF MeantMetadata
<1>4. ListsTokens' = ListsTokens /\ MeantTokens' = MeantTokens
  BY <1>3 DEF ListsTokens, MeantTokens
<1>5. \A f, x : Says(f, x)' = Says(f, x)
  BY <1>3 DEF Says
<1>6. \A f : Contradicts(f)' = Contradicts(f)
  BY <1>3 DEF Contradicts
<1>7. NamesNoVocabulary' = NamesNoVocabulary
  BY <1>2, <1>4 DEF NamesNoVocabulary, MeantEmbeddings
<1>8. ConfigAsWritten'
  BY <1>2, <1>3, <1>4 DEF ModelInv, ConfigAsWritten, Says
<1>9. ConfigRefusedExactly'
  BY <1>2, <1>3, <1>4, <1>7 DEF ModelInv, ConfigRefusedExactly, Says, Contradicts
<1>10. IsConfig(config)'
  BY <1>2 DEF ModelInv, IsConfig
<1> QED
  BY <1>1, <1>2, <1>8, <1>9, <1>10 DEF ModelInv

LEMMA AfterParseConfig == ASSUME ModelInv, ParseConfig PROVE ModelInv'
<1>1. /\ phase = "ready" /\ ParserInv /\ config = before /\ IsConfig(config)
      /\ DOMAIN config = FieldNames \cup {"vocab_size"} /\ before.vocab_size \in Ints
  BY DEF ParseConfig, ModelInv, IsConfig
<1>2. /\ UNCHANGED vars /\ before' = before
      /\ outcome' = IF ConfigAcceptable THEN "parsed" ELSE "thrown"
  BY DEF ParseConfig
<1>3. ParserInv' /\ doc' = doc
  BY <1>1, <1>2, NextInv, DocStays
<1>4. PICK wild \in [{i \in Assigned : IsUndefined(Fields[i])} -> OutOfRange] :
        config' = [name \in DOMAIN config |->
          IF name = "vocab_size"
          THEN IF Assigned = DOMAIN Fields THEN VocabSize ELSE config[name]
          ELSE IF Place(name) \in DOMAIN wild THEN wild[Place(name)]
          ELSE IF Place(name) \in Assigned THEN ValueOf(Fields[Place(name)])
          ELSE config[name]]
  BY DEF ParseConfig
<1>5. /\ DOMAIN config' = FieldNames \cup {"vocab_size"}
      /\ config'["vocab_size"] = IF Assigned = DOMAIN Fields THEN VocabSize ELSE before.vocab_size
  BY <1>1, <1>4
<1>6. \A i \in 1 .. 9 : config'[Fields[i].name] =
        IF i \in DOMAIN wild THEN wild[i]
        ELSE IF i \in Assigned THEN ValueOf(Fields[i]) ELSE before[Fields[i].name]
  <2> SUFFICES ASSUME NEW i \in 1 .. 9
               PROVE  config'[Fields[i].name] =
                        IF i \in DOMAIN wild THEN wild[i]
                        ELSE IF i \in Assigned THEN ValueOf(Fields[i]) ELSE before[Fields[i].name]
    OBVIOUS
  <2> DEFINE name == Fields[i].name
  <2>1. name \in DOMAIN config /\ name # "vocab_size" /\ Place(name) = i
    BY <1>1, PlaceIs, FieldsAre
  <2> HIDE DEF name
  <2>2. config'[name] = IF Place(name) \in DOMAIN wild THEN wild[Place(name)]
                        ELSE IF Place(name) \in Assigned THEN ValueOf(Fields[Place(name)]) ELSE config[name]
    BY <1>4, <2>1
  <2> QED
    BY <1>1, <2>1, <2>2 DEF name
<1>7. MeantMetadata' = MeantMetadata
  BY <1>3 DEF MeantMetadata
<1>8. ListsTokens' = ListsTokens /\ MeantTokens' = MeantTokens
  BY <1>7 DEF ListsTokens, MeantTokens
<1>9. NamesNoVocabulary' = NamesNoVocabulary
  BY <1>2, <1>3, <1>8 DEF NamesNoVocabulary, MeantEmbeddings
<1>10. Refusing' = Refusing
  BY <1>3, <1>7 DEF Refusing, Contradicts
<1>11. /\ \A i \in 1 .. 9 : i \in Assigned <=> \A b \in Refusing : i < b
       /\ Assigned = DOMAIN Fields <=> Refusing = {}
       /\ \A i \in Assigned : Convertible(Fields[i])
       /\ DOMAIN Fields = 1 .. 9 /\ Assigned \subseteq 1 .. 9
  BY <1>1, AssignedIs, FieldsAre DEF Assigned
<1>12. /\ VocabSize \in Ints
       /\ VocabSize = 0 => NamesNoVocabulary
       /\ NamesNoVocabulary /\ (ListsTokens \/ before.vocab_size = 0) => VocabSize = 0
       /\ MeantTokens \in Ints \ {0} => VocabSize = MeantTokens
  BY <1>1, VocabularyIs
<1>13. \A i \in DOMAIN wild : i \in Assigned /\ IsUndefined(Fields[i]) /\ wild[i] \in Ints
  BY IntsAreInts
<1>14. ASSUME NEW i \in Assigned
       PROVE  /\ Says(Fields[i], config'[Fields[i].name])
              /\ Fields[i].type = "int" => config'[Fields[i].name] \in Ints
  <2> DEFINE value == config'[Fields[i].name]
  <2>1. i \in 1 .. 9 /\ Convertible(Fields[i])
    BY <1>11
  <2>2. value = IF i \in DOMAIN wild THEN wild[i] ELSE ValueOf(Fields[i])
    BY <1>6, <2>1
  <2> HIDE DEF value
  <2>3. Fields[i].type = "int" => Fields[i].default \in Ints
    BY <2>1, DefaultIs
  <2>4. ASSUME i \in DOMAIN wild
        PROVE  Says(Fields[i], value) /\ (Fields[i].type = "int" => value \in Ints)
    BY <1>1, <1>13, <2>1, <2>2, <2>4, ConvertibleIs
  <2>5. ASSUME i \notin DOMAIN wild
        PROVE  Says(Fields[i], value) /\ (Fields[i].type = "int" => value \in Ints)
    BY <1>1, <2>1, <2>2, <2>3, <2>5, ConvertibleIs
  <2> QED
    BY <2>4, <2>5 DEF value
<1>15. \A i \in Assigned : Says(Fields[i], config[Fields[i].name])'
  BY <1>7, <1>14 DEF Says
<1>16. IsConfig(config)'
  <2>1. ASSUME NEW i \in 1 .. 9, Fields[i].type = "int" PROVE config'[Fields[i].name] \in Ints
    <3>1. CASE i \in Assigned
      BY <1>14, <2>1, <3>1
    <3>2. CASE i \notin Assigned
      <4>1. config'[Fields[i].name] = before[Fields[i].name]
        BY <1>6, <1>13, <3>2
      <4>2. before[Fields[i].name] \in Ints
        BY <1>1, <1>11, <2>1 DEF IsConfig
      <4> QED
        BY <4>1, <4>2
    <3> QED
      BY <3>1, <3>2
  <2>2. config'["vocab_size"] \in Ints
    BY <1>1, <1>5, <1>12
  <2> QED
    BY <1>5, <1>11, <2>1, <2>2 DEF IsConfig
<1>17. ConfigAsWritten'
  <2> SUFFICES ASSUME outcome' = "parsed" PROVE ConfigAsWritten'
    BY DEF ConfigAsWritten
  <2>1. Assigned = DOMAIN Fields
    BY <1>2 DEF ConfigAcceptable
  <2>2. \A i \in DOMAIN Fields : Says(Fields[i], config[Fields[i].name])'
    BY <1>15, <2>1
  <2>3. MeantTokens' \in Ints \ {0} => config'.vocab_size = MeantTokens'
    BY <1>5, <1>8, <1>12, <2>1
  <2> QED
    BY <2>2, <2>3, Zenon DEF ConfigAsWritten
<1>18. ConfigRefusedExactly'
  <2>1. /\ Refusing' # {} => outcome' = "thrown"
        /\ outcome' = "thrown" => Refusing' # {} \/ NamesNoVocabulary'
        /\ NamesNoVocabulary' /\ (ListsTokens' \/ before'.vocab_size = 0) => outcome' = "thrown"
    BY <1>2, <1>8, <1>9, <1>10, <1>11, <1>12 DEF ConfigAcceptable
  <2>2. ASSUME NEW i \in DOMAIN Fields
        PROVE  IF \A b \in Refusing' : i < b THEN Says(Fields[i], config[Fields[i].name])'
               ELSE config'[Fields[i].name] = before'[Fields[i].name]
    <3>1. i \in 1 .. 9 /\ (i \in Assigned <=> \A b \in Refusing' : i < b)
      BY <1>10, <1>11
    <3>2. i \notin Assigned => config'[Fields[i].name] = before'[Fields[i].name]
      BY <1>2, <1>6, <1>13, <3>1
    <3> QED
      BY <1>15, <3>1, <3>2
  <2> QED
    BY <2>1, <2>2, Zenon DEF ConfigRefusedExactly, Refusing
<1>19. outcome' \in {"parsed", "thrown"}
  BY <1>2
<1> QED
  BY <1>3, <1>16, <1>17, <1>18, <1>19 DEF ModelInv

LEMMA ModelInvAlways == ModelSpec => []ModelInv
<1>1. ModelInv /\ [ModelNext]_modelVars => ModelInv'
  <2> SUFFICES ASSUME ModelInv, [ModelNext]_modelVars PROVE ModelInv'
    OBVIOUS
  <2>1. CASE Next /\ UNCHANGED model
    BY <2>1, AfterParserStep
  <2>2. CASE ParseConfig
    BY <2>2, AfterParseConfig
  <2>3. CASE UNCHANGED modelVars
    BY <2>3, AfterParserStep DEF modelVars
  <2> QED
    BY <2>1, <2>2, <2>3 DEF ModelNext
<1> QED
  BY ModelInitInv, <1>1, PTL DEF ModelSpec

(***************************************************************************)
(* The parser and the configuration are well typed: whatever numbers a file*)
(* has for the fields, those that are ints are assigned ints.              *)
(***************************************************************************)
THEOREM ModelType == ModelSpec => []ModelTypeOK
<1>1. ModelInv => ModelTypeOK
  BY ParserInvType DEF ModelInv, ModelTypeOK
<1> QED
  BY ModelInvAlways, <1>1, PTL

(***************************************************************************)
(* For any file and any past of the model, a configuration that was        *)
(* accepted says what the file says, as far as an int holds it.            *)
(***************************************************************************)
THEOREM ModelConfigAsWritten == ModelSpec => []ConfigAsWritten
<1>1. ModelInv => ConfigAsWritten
  BY DEF ModelInv
<1> QED
  BY ModelInvAlways, <1>1, PTL

(***************************************************************************)
(* For any file and any past of the model, parseConfig throws if the file  *)
(* has no metadata or contradicts a field, otherwise only if it leaves the *)
(* vocabulary open, and always then unless the model has one already; it   *)
(* has then assigned the fields before the one that refused and no other.  *)
(***************************************************************************)
THEOREM ModelConfigRefusedExactly == ModelSpec => []ConfigRefusedExactly
<1>1. ModelInv => ConfigRefusedExactly
  BY DEF ModelInv
<1> QED
  BY ModelInvAlways, <1>1, PTL

=============================================================================
