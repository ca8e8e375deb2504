----------------------------- MODULE Float16Proofs -----------------------------
(***************************************************************************)
(* Proofs about the conversions and the arithmetic of float16_t (module    *)
(* Float16), for all floats and all halves.  First powers of two, division *)
(* and rounding; then that the code's shifts round a float to the nearest  *)
(* half and widen a half without loss; then that rounding the exact result *)
(* of an operation to a float first does no harm to the second rounding.   *)
(***************************************************************************)
EXTENDS Float16, TLAPS

(* Powers of two: the provers compute those of a literal exponent, and     *)
(* every other fact about the exponents in use follows from these values.  *)
LEMMA PowerValues ==
  /\ Pow2(0) = 1 /\ Pow2(1) = 2 /\ Pow2(2) = 4 /\ Pow2(3) = 8
  /\ Pow2(4) = 16 /\ Pow2(5) = 32 /\ Pow2(6) = 64 /\ Pow2(7) = 128
  /\ Pow2(8) = 256 /\ Pow2(9) = 512 /\ Pow2(10) = 1024 /\ Pow2(11) = 2048
  /\ Pow2(12) = 4096 /\ Pow2(13) = 8192 /\ Pow2(14) = 16384 /\ Pow2(15) = 32768
  /\ Pow2(16) = 65536 /\ Pow2(17) = 131072 /\ Pow2(18) = 262144 /\ Pow2(19) = 524288
  /\ Pow2(20) = 1048576 /\ Pow2(21) = 2097152 /\ Pow2(22) = 4194304 /\ Pow2(23) = 8388608
  /\ Pow2(24) = 16777216 /\ Pow2(25) = 33554432 /\ Pow2(26) = 67108864 /\ Pow2(27) = 134217728
  /\ Pow2(28) = 268435456 /\ Pow2(29) = 536870912 /\ Pow2(30) = 1073741824
<1>1. /\ 2^0 = 1 /\ 2^1 = 2 /\ 2^2 = 4 /\ 2^3 = 8
      /\ 2^4 = 16 /\ 2^5 = 32 /\ 2^6 = 64 /\ 2^7 = 128
      /\ 2^8 = 256 /\ 2^9 = 512 /\ 2^10 = 1024 /\ 2^11 = 2048
      /\ 2^12 = 4096 /\ 2^13 = 8192 /\ 2^14 = 16384 /\ 2^15 = 32768
      /\ 2^16 = 65536 /\ 2^17 = 131072 /\ 2^18 = 262144 /\ 2^19 = 524288
      /\ 2^20 = 1048576 /\ 2^21 = 2097152 /\ 2^22 = 4194304 /\ 2^23 = 8388608
      /\ 2^24 = 16777216 /\ 2^25 = 33554432 /\ 2^26 = 67108864 /\ 2^27 = 134217728
      /\ 2^28 = 268435456 /\ 2^29 = 536870912 /\ 2^30 = 1073741824
  OBVIOUS
<1> QED
  BY <1>1 DEF Pow2

LEMMA PowerPositive == \A k \in 0 .. 30 : Pow2(k) \in Nat \ {0}
  BY PowerValues

LEMMA PowerStep == \A k \in 0 .. 29 : Pow2(k + 1) = 2 * Pow2(k)
  BY PowerValues

LEMMA PowerSum == \A a, b \in 0 .. 30 : a + b <= 30 => Pow2(a + b) = Pow2(a) * Pow2(b)
  BY PowerValues

LEMMA PowerMonotonic == \A a, b \in 0 .. 30 : a < b => 2 * Pow2(a) <= Pow2(b)
  BY PowerValues

-----------------------------------------------------------------------------
(* Division. *)
LEMMA Division ==
  ASSUME NEW a \in Nat, NEW b \in Nat \ {0}
  PROVE  /\ a \div b \in Nat /\ a % b \in Nat /\ a % b < b
         /\ a = (a \div b) * b + (a % b)
OBVIOUS

LEMMA DivisionUnique ==
  ASSUME NEW b \in Nat \ {0}, NEW q \in Nat, NEW r \in Nat, r < b
  PROVE  (q * b + r) \div b = q /\ (q * b + r) % b = r
OBVIOUS

-----------------------------------------------------------------------------
(* Rounding to the nearest multiple of a power, given quotient and rest. *)
NearestOf(q, r, p) == IF 2 * r > p \/ (2 * r = p /\ q % 2 = 1) THEN q + 1 ELSE q

LEMMA NearestEvenIs ==
  ASSUME NEW k \in 0 .. 30, NEW q \in Nat, NEW r \in Nat, r < Pow2(k)
  PROVE  NearestEven(q * Pow2(k) + r, k) = NearestOf(q, r, Pow2(k))
<1>1. Pow2(k) \in Nat \ {0}
  BY PowerPositive
<1>2. (q * Pow2(k) + r) \div Pow2(k) = q /\ (q * Pow2(k) + r) % Pow2(k) = r
  BY <1>1, DivisionUnique
<1> QED
  BY <1>2 DEF NearestEven, NearestOf

LEMMA NearestEvenOf ==
  ASSUME NEW k \in 0 .. 30, NEW n \in Nat
  PROVE  \E q, r \in Nat :
           /\ n = q * Pow2(k) + r /\ r < Pow2(k) /\ q = n \div Pow2(k) /\ r = n % Pow2(k)
           /\ NearestEven(n, k) = NearestOf(q, r, Pow2(k))
<1>1. Pow2(k) \in Nat \ {0}
  BY PowerPositive
<1>2. /\ n \div Pow2(k) \in Nat /\ n % Pow2(k) \in Nat /\ n % Pow2(k) < Pow2(k)
      /\ n = (n \div Pow2(k)) * Pow2(k) + (n % Pow2(k))
  BY <1>1, Division
<1> QED
  BY <1>2 DEF NearestEven, NearestOf

LEMMA NearestEvenType ==
  ASSUME NEW k \in 0 .. 30, NEW n \in Nat
  PROVE  NearestEven(n, k) \in Nat
<1>1. PICK q, r \in Nat : NearestEven(n, k) = NearestOf(q, r, Pow2(k))
  BY NearestEvenOf
<1> QED
  BY <1>1 DEF NearestOf

(* A number of at most half a unit rounds to none; nothing is below 0.     *)
LEMMA NearestEvenSmall ==
  ASSUME NEW k \in 0 .. 30, NEW n \in Nat, 2 * n <= Pow2(k)
  PROVE  NearestEven(n, k) = 0
<1>1. Pow2(k) \in Nat \ {0}
  BY PowerPositive
<1>2. n = 0 * Pow2(k) + n /\ n < Pow2(k)
  BY <1>1
<1>3. NearestEven(n, k) = NearestOf(0, n, Pow2(k))
  <2>1. NearestEven(0 * Pow2(k) + n, k) = NearestOf(0, n, Pow2(k))
    BY ONLY <1>2, NearestEvenIs, k \in 0 .. 30, n \in Nat, 0 \in Nat
  <2> QED
    BY <2>1, <1>2
<1> QED
  BY <1>1, <1>3 DEF NearestOf

-----------------------------------------------------------------------------
(* What the code's shifts, round bit and sticky bits make of 24 bits is    *)
(* the nearest, also where nothing of them is left.                        *)
LEMMA RoundedOffIsNearest ==
  ASSUME NEW m \in 0 .. 2^24 - 1, NEW k \in 1 .. 30
  PROVE  RoundedOff(m, k) = NearestEven(m, k)
<1> DEFINE p == Pow2(k - 1)
<1>0. k - 1 \in 0 .. 29 /\ k = (k - 1) + 1 /\ m \in Nat
  OBVIOUS
<1>1. p \in Nat \ {0} /\ Pow2(k) = 2 * p
  BY <1>0, PowerPositive, PowerStep
<1>2. CASE k > 24
  <2>1. 2 * m <= Pow2(k)
    <3>1. k = 25 \/ 2 * Pow2(25) <= Pow2(k)
      BY <1>2, PowerMonotonic
    <3> QED
      BY <3>1, PowerValues
  <2>2. NearestEven(m, k) = 0
    BY <1>0, <2>1, NearestEvenSmall
  <2>3. ShiftedRight(m, k) = 0
    BY <1>2 DEF ShiftedRight
  <2>4. ShiftedRight(m, k - 1) = 0
    <3>1. CASE k - 1 > 24
      BY <3>1 DEF ShiftedRight
    <3>2. CASE k - 1 = 24
      BY <3>2, PowerValues DEF ShiftedRight
    <3> QED
      BY <1>2, <3>1, <3>2
  <2> QED
    BY <2>2, <2>3, <2>4 DEF RoundedOff
<1>3. CASE k <= 24
  <2> DEFINE a == m \div p
             r == m % p
  <2>1. ShiftedRight(m, k) = m \div (2 * p) /\ ShiftedRight(m, k - 1) = a
    BY <1>1, <1>3 DEF ShiftedRight
  <2>2. a \in Nat /\ r \in Nat /\ r < p /\ m = a * p + r
    BY <1>0, <1>1, Division
  <2> HIDE DEF p, a, r
  <2>3. \E q \in Nat, b \in {0, 1} : a = 2 * q + b
    <3>1. a = 2 * (a \div 2) + (a % 2) /\ a \div 2 \in Nat /\ a % 2 \in {0, 1}
      BY <2>2
    <3> QED
      BY <3>1
  <2>4. PICK q \in Nat, b \in {0, 1} : a = 2 * q + b
    BY <2>3
  <2>5. m = q * (2 * p) + (b * p + r) /\ b * p + r \in Nat /\ b * p + r < 2 * p
    BY <1>1, <2>2, <2>4
  <2>6. m \div (2 * p) = q
    BY <1>1, <2>5, DivisionUnique
  <2>7. NearestEven(m, k) = NearestOf(q, b * p + r, Pow2(k))
    <3> DEFINE x == b * p + r
    <3>1. k \in 0 .. 30 /\ x \in Nat /\ x < Pow2(k) /\ m = q * Pow2(k) + x
      BY <1>1, <2>5
    <3> HIDE DEF x
    <3>2. NearestEven(q * Pow2(k) + x, k) = NearestOf(q, x, Pow2(k))
      BY ONLY <3>1, q \in Nat, NearestEvenIs
    <3> QED
      BY <3>1, <3>2 DEF x
  <2>8. a % 2 = b
    BY <2>4
  <2>9. (m # a * p) <=> (r # 0)
    BY <1>1, <2>2
  <2>10. RoundedOff(m, k) = IF b = 1 /\ (r # 0 \/ q % 2 = 1) THEN q + 1 ELSE q
    BY <2>1, <2>6, <2>8, <2>9 DEF RoundedOff, p
  <2>11. CASE b = 0
    BY <1>1, <2>2, <2>7, <2>10, <2>11 DEF NearestOf
  <2>12. CASE b = 1
    BY <1>1, <2>2, <2>7, <2>10, <2>12 DEF NearestOf
  <2> QED
    BY <2>4, <2>11, <2>12
<1> QED
  BY <1>2, <1>3

-----------------------------------------------------------------------------
(* The highest bit of a number. *)
LEMMA BitLengthIs ==
  ASSUME NEW n \in Nat, NEW l \in 1 .. 30, Pow2(l - 1) <= n, n < Pow2(l)
  PROVE  BitLength(n) = l
<1> DEFINE Has(i) == n < Pow2(i) /\ (i = 0 \/ Pow2(i - 1) <= n)
<1>1. l \in 0 .. 30 /\ Has(l)
  OBVIOUS
<1>2. \A i \in 0 .. 30 : Pow2(i) \in Nat \ {0}
  BY PowerPositive
<1>3. ASSUME NEW i \in 0 .. 30, Has(i)
      PROVE  i = l
  <2>1. CASE i < l
    <3>1. i = l - 1 \/ 2 * Pow2(i) <= Pow2(l - 1)
      BY <2>1, PowerMonotonic
    <3>2. Pow2(i) \in Nat /\ Pow2(l - 1) \in Nat
      BY <1>2
    <3> QED
      BY <1>3, <3>1, <3>2
  <2>2. CASE l < i
    <3>1. l = i - 1 \/ 2 * Pow2(l) <= Pow2(i - 1)
      BY <2>2, PowerMonotonic
    <3>2. Pow2(l) \in Nat /\ Pow2(i - 1) \in Nat
      BY <1>2, <2>2
    <3> QED
      BY <1>3, <2>2, <3>1, <3>2
  <2> QED
    BY <2>1, <2>2
<1>4. BitLength(n) = CHOOSE i \in 0 .. 30 : Has(i)
  BY DEF BitLength
<1> HIDE DEF Has
<1> QED
  BY <1>1, <1>3, <1>4

LEMMA BitLengthOf ==
  ASSUME NEW n \in 1 .. 2^30 - 1
  PROVE  /\ BitLength(n) \in 1 .. 30
         /\ Pow2(BitLength(n) - 1) <= n /\ n < Pow2(BitLength(n))
<1>1. \E l \in 1 .. 30 : Pow2(l - 1) <= n /\ n < Pow2(l)
  <2> SUFFICES ASSUME \A l \in 1 .. 30 : Pow2(l - 1) <= n => Pow2(l) <= n
               PROVE  FALSE
    <3>1. \A l \in 1 .. 30 : Pow2(l) \in Nat
      BY PowerPositive
    <3> QED
      BY <3>1
  <2> DEFINE Reached(l) == Pow2(l) <= n
  <2>1. Reached(0)
    BY PowerValues
  <2>2. \A l \in 0 .. 29 : Reached(l) => Reached(l + 1)
    OBVIOUS
  <2>3. ~Reached(30)
    BY PowerValues
  <2> HIDE DEF Reached
  <2> QED
    BY <2>1, <2>2, <2>3
<1> QED
  BY <1>1, BitLengthIs

(* What a length of l bits says of n, and the numbers that have one.       *)
Spans(l, n) == l \in 1 .. 30 /\ Pow2(l - 1) <= n /\ n < Pow2(l)

ThirtyBits == 1 .. 2^30 - 1

LEMMA BitLengthSpans == \A n \in ThirtyBits : Spans(BitLength(n), n)
  BY BitLengthOf DEF Spans, ThirtyBits

-----------------------------------------------------------------------------
(* NearestHalf: its units of 2^k, its bound at infinity and its cases.     *)
Units(n, k) == IF k <= 0 THEN n * Pow2(-k) ELSE IF k > 29 THEN 0 ELSE NearestEven(n, k)

(* A half, or infinity if it is past the largest one.                      *)
HalfOrInfinity(half) == IF half > 31 * 2^10 THEN 31 * 2^10 ELSE half

LEMMA UnitsType ==
  ASSUME NEW n \in Nat, NEW k \in Int, k >= -30
  PROVE  Units(n, k) \in Nat
<1>1. CASE k <= 0
  <2>1. Pow2(-k) \in Nat
    BY <1>1, PowerPositive
  <2> QED
    BY <1>1, <2>1 DEF Units
<1>2. CASE k > 29
  BY <1>2 DEF Units
<1>3. CASE k \in 1 .. 29
  <2>0. k \in 0 .. 30
    BY <1>3
  <2>1. NearestEven(n, k) \in Nat
    BY <2>0, NearestEvenType
  <2> QED
    BY <1>3, <2>1 DEF Units
<1> QED
  BY <1>1, <1>2, <1>3

LEMMA NearestHalfZero == ASSUME NEW e PROVE NearestHalf(0, e) = 0
  BY DEF NearestHalf

LEMMA NearestHalfLarge ==
  ASSUME NEW n \in Nat \ {0}, NEW e \in Int, NEW l \in 1 .. 30, BitLength(n) = l, e + l - 1 > 15
  PROVE  NearestHalf(n, e) = Infinity
  BY DEF NearestHalf, Infinity

LEMMA NearestHalfNormal ==
  ASSUME NEW n \in Nat \ {0}, NEW e \in Int, NEW l \in 1 .. 30, BitLength(n) = l,
         e + l - 1 >= -14, e + l - 1 <= 15
  PROVE  NearestHalf(n, e) = HalfOrInfinity((e + l + 13) * 2^10 + Units(n, l - 11))
<1>1. (e + l - 1) - 10 - e = l - 11
  OBVIOUS
<1> QED
  BY <1>1 DEF NearestHalf, HalfOrInfinity, Units

LEMMA NearestHalfSubnormal ==
  ASSUME NEW n \in Nat \ {0}, NEW e \in Int, NEW l \in 1 .. 30, BitLength(n) = l, e + l - 1 <= -14
  PROVE  NearestHalf(n, e) = HalfOrInfinity(Units(n, -24 - e))
<1> DEFINE u == Units(n, -24 - e)
<1>1. -24 - e \in Int /\ -24 - e >= -30
  OBVIOUS
<1>2. u \in Nat
  BY <1>1, UnitsType
<1>3. (-14 + 14) * 2^10 + u = u
  BY <1>2
<1>4. CASE e + l - 1 < -14
  <2>1. -14 - 10 - e = -24 - e
    OBVIOUS
  <2> QED
    BY <1>3, <1>4, <2>1 DEF NearestHalf, HalfOrInfinity, Units
<1>5. CASE e + l - 1 = -14
  <2>1. -14 - 10 - e = -24 - e /\ ~(-14 < -14) /\ ~(-14 > 15)
    OBVIOUS
  <2> QED
    BY <1>3, <1>5, <2>1 DEF NearestHalf, HalfOrInfinity, Units
<1> QED
  BY <1>4, <1>5

-----------------------------------------------------------------------------
(* A half constructed from a float. *)
LEMMA NearestEvenBound ==
  ASSUME NEW k \in 0 .. 30, NEW n \in Nat, NEW b \in Nat, n < b * Pow2(k)
  PROVE  NearestEven(n, k) <= b
<1>1. PICK q, r \in Nat : /\ n = q * Pow2(k) + r
                          /\ NearestEven(n, k) = NearestOf(q, r, Pow2(k))
  BY NearestEvenOf
<1>2. Pow2(k) \in Nat \ {0}
  BY PowerPositive
<1>3. q < b
  <2> SUFFICES ASSUME q >= b PROVE FALSE
    BY <1>1
  <2>1. q * Pow2(k) >= b * Pow2(k)
    BY <1>2
  <2>2. q * Pow2(k) \in Nat /\ b * Pow2(k) \in Nat
    BY <1>2
  <2> QED
    BY <1>1, <2>1, <2>2
<1> QED
  BY <1>1, <1>3 DEF NearestOf

LEMMA SignificandLength ==
  ASSUME NEW m \in Nat, 2^23 <= m, m < 2^24
  PROVE  BitLength(m) = 24
  BY PowerValues, BitLengthIs

LEMMA LargeToNearest ==
  ASSUME NEW f \in Float, f.exp >= 143
  PROVE  Float2Fp16Bits(f) = {RoundedNearest(f)}
<1> DEFINE m == f.mant + 2^23
<1>0. f.exp \in 0 .. 255 /\ f.mant \in 0 .. 2^23 - 1
  BY DEF Float
<1>1. f.exp - 150 \in Int /\ f.exp - 150 + 24 - 1 > 15
  BY <1>0
<1>2. m \in Nat \ {0} /\ BitLength(m) = 24 /\ 24 \in 1 .. 30
  BY <1>0, SignificandLength
<1> HIDE DEF m
<1>3. NearestHalf(m, f.exp - 150) = Infinity
  BY <1>1, <1>2, NearestHalfLarge
<1> USE DEF m
<1> QED
  BY <1>0, <1>3 DEF Float2Fp16Bits, RoundedNearest

LEMMA NormalToNearest ==
  ASSUME NEW f \in Float, f.exp \in 113 .. 142
  PROVE  Float2Fp16Bits(f) = {RoundedNearest(f)}
<1> DEFINE m == f.mant + 2^23
           c == NearestEven(f.mant, 13)
<1>1. f.mant \in 0 .. 2^23 - 1
  BY DEF Float
<1>2. m \in Nat \ {0} /\ BitLength(m) = 24
  BY <1>1, SignificandLength
<1>3. RoundedOff(f.mant, 13) = c
  <2>1. f.mant \in 0 .. 2^24 - 1 /\ 13 \in 1 .. 30
    BY <1>1
  <2> QED
    BY ONLY <2>1, RoundedOffIsNearest
<1>4. c \in 0 .. 1024 /\ NearestEven(m, 13) = c + 1024
  <2>1. PICK q, r \in Nat : /\ f.mant = q * Pow2(13) + r /\ r < Pow2(13)
                            /\ c = NearestOf(q, r, Pow2(13))
    <3>1. f.mant \in Nat /\ 13 \in 0 .. 30
      BY <1>1
    <3> QED
      BY ONLY <3>1, NearestEvenOf
  <2>2. m = (q + 1024) * Pow2(13) + r
    BY <2>1, PowerValues
  <2>3. NearestEven(m, 13) = NearestOf(q + 1024, r, Pow2(13))
    BY <2>1, <2>2, NearestEvenIs
  <2>4. q <= 1023
    BY <1>1, <2>1, PowerValues
  <2>5. (q + 1024) % 2 = q % 2
    OBVIOUS
  <2> HIDE DEF m, c
  <2> QED
    BY <2>1, <2>3, <2>4, <2>5 DEF NearestOf
<1>5. Units(m, 13) = c + 1024
  BY <1>4 DEF Units
<1>6. NearestHalf(m, f.exp - 150) = HalfOrInfinity((f.exp - 113) * 2^10 + (c + 1024))
  <2>1. NearestHalf(m, f.exp - 150)
          = HalfOrInfinity((f.exp - 150 + 24 + 13) * 2^10 + Units(m, 24 - 11))
    <3> DEFINE e == f.exp - 150
    <3>1. e \in Int /\ 24 \in 1 .. 30 /\ e + 24 - 1 >= -14 /\ e + 24 - 1 <= 15
      OBVIOUS
    <3> HIDE DEF m, e
    <3>2. NearestHalf(m, e) = HalfOrInfinity((e + 24 + 13) * 2^10 + Units(m, 24 - 11))
      BY <1>2, <3>1, NearestHalfNormal
    <3> QED
      BY <3>2 DEF e
  <2>2. f.exp - 150 + 24 + 13 = f.exp - 113 /\ 24 - 11 = 13
    OBVIOUS
  <2> QED
    BY <1>5, <2>1, <2>2
<1>7. Normal(f) = HalfOrInfinity((f.exp - 113) * 2^10 + (c + 1024))
  <2> HIDE DEF c
  <2>1. CASE c = 1024
    BY <1>3, <2>1 DEF Normal, HalfOrInfinity, Infinity
  <2>2. CASE c \in 0 .. 1023
    BY <1>3, <2>2 DEF Normal, HalfOrInfinity, Infinity
  <2> QED
    BY <1>4, <2>1, <2>2
<1> QED
  BY <1>6, <1>7 DEF Float2Fp16Bits, RoundedNearest

LEMMA SubnormalToNearest ==
  ASSUME NEW f \in Float, f.exp \in 1 .. 112, ~UndefinedShift(f)
  PROVE  Float2Fp16Bits(f) = {RoundedNearest(f)}
<1> DEFINE m == f.mant + 2^23
           u == Units(m, 126 - f.exp)
<1>1. f.mant \in 0 .. 2^23 - 1
  BY DEF Float
<1>2. m \in Nat \ {0} /\ BitLength(m) = 24 /\ m \in 0 .. 2^24 - 1
  BY <1>1, SignificandLength
<1>3. NearestHalf(m, f.exp - 150) = HalfOrInfinity(u)
  <2>1. NearestHalf(m, f.exp - 150) = HalfOrInfinity(Units(m, -24 - (f.exp - 150)))
    <3> DEFINE e == f.exp - 150
    <3>1. e \in Int /\ 24 \in 1 .. 30 /\ e + 24 - 1 <= -14
      OBVIOUS
    <3> HIDE DEF m, e
    <3>2. NearestHalf(m, e) = HalfOrInfinity(Units(m, -24 - e))
      BY <1>2, <3>1, NearestHalfSubnormal
    <3> QED
      BY <3>2 DEF e
  <2>2. -24 - (f.exp - 150) = 126 - f.exp
    OBVIOUS
  <2> QED
    BY <2>1, <2>2
<1>4. WithHidden(f) = m
  BY DEF WithHidden
<1>5. u \in 0 .. 1024 /\ Subnormal(f) = {u}
  <2>1. CASE f.exp < 89
    <3>1. u = 0
      BY <2>1 DEF Units
    <3> QED
      BY <2>1, <3>1 DEF Subnormal
  <2>2. CASE f.exp \in 97 .. 112
    <3> DEFINE k == 126 - f.exp
    <3>1. k \in 14 .. 29 /\ 113 - f.exp + 13 = k
      BY <2>2
    <3>2. u = NearestEven(m, k)
      BY <3>1 DEF Units
    <3>3. RoundedOff(m, k) = u
      <4>1. k \in 1 .. 30
        BY <3>1
      <4> HIDE DEF m, k, u
      <4> QED
        BY <1>2, <3>2, <4>1, RoundedOffIsNearest
    <3>4. u \in Nat /\ u <= 1024
      <4>1. k = 14 \/ 2 * Pow2(14) <= Pow2(k)
        BY <3>1, PowerMonotonic
      <4>2. m < 1024 * Pow2(k)
        BY <1>2, <3>1, <4>1, PowerValues, PowerPositive
      <4>3. k \in 0 .. 30 /\ 1024 \in Nat
        BY <3>1
      <4> HIDE DEF m, k, u
      <4> QED
        <5>1. m \in Nat
          BY <1>2
        <5>2. NearestEven(m, k) \in Nat
          BY <4>3, <5>1, NearestEvenType
        <5>3. NearestEven(m, k) <= 1024
          BY <4>2, <4>3, <5>1, NearestEvenBound
        <5> QED
          BY <3>2, <5>2, <5>3
    <3> HIDE DEF u, m
    <3> QED
      BY <1>4, <2>2, <3>1, <3>3, <3>4 DEF Subnormal
  <2>3. CASE f.exp = 96
    <3>1. u = 0
      BY <2>3 DEF Units
    <3>2. NearestEven(m, 30) = 0
      BY <1>2, NearestEvenSmall, PowerValues
    <3>3. RoundedOff(m, 30) = 0
      <4>1. 30 \in 1 .. 30
        OBVIOUS
      <4> HIDE DEF m
      <4> QED
        BY <1>2, <3>2, <4>1, RoundedOffIsNearest
    <3> QED
      BY <1>4, <2>3, <3>1, <3>3 DEF Subnormal
  <2>4. CASE f.exp = 95
    <3>1. u = 0
      BY <2>4 DEF Units
    <3>2. RoundedOff(m, 31) = 0
      BY DEF RoundedOff, ShiftedRight
    <3> QED
      BY <1>4, <2>4, <3>1, <3>2 DEF Subnormal
  <2>5. f.exp < 89 \/ f.exp \in 97 .. 112 \/ f.exp = 96 \/ f.exp = 95
    BY DEF UndefinedShift
  <2> HIDE DEF u
  <2> QED
    BY <2>1, <2>2, <2>3, <2>4, <2>5
<1>6. HalfOrInfinity(u) = u
  BY <1>5 DEF HalfOrInfinity
<1> QED
  BY <1>3, <1>5, <1>6 DEF Float2Fp16Bits, RoundedNearest

LEMMA ZeroToNearest ==
  ASSUME NEW f \in Float, f.exp = 0
  PROVE  Float2Fp16Bits(f) = {RoundedNearest(f)}
<1>1. f.mant \in 0 .. 2^23 - 1
  BY DEF Float
<1>2. NearestHalf(f.mant, -149) = 0
  <2>1. CASE f.mant = 0
    BY <2>1, NearestHalfZero
  <2>2. CASE f.mant # 0
    <3>1. f.mant \in 1 .. 2^30 - 1 /\ f.mant \in Nat \ {0}
      BY <1>1, <2>2
    <3>2. BitLength(f.mant) \in 1 .. 30
      BY <3>1, BitLengthOf
    <3>3. NearestHalf(f.mant, -149) = HalfOrInfinity(Units(f.mant, -24 - (-149)))
      BY <3>1, <3>2, NearestHalfSubnormal
    <3> QED
      BY <3>3 DEF Units, HalfOrInfinity
  <2> QED
    BY <2>1, <2>2
<1>3. Subnormal(f) = {0}
  BY DEF Subnormal
<1> QED
  BY <1>2, <1>3 DEF Float2Fp16Bits, RoundedNearest

LEMMA ToNearest ==
  ASSUME NEW f \in Float, ~UndefinedShift(f)
  PROVE  Float2Fp16Bits(f) = {RoundedNearest(f)}
<1>1. f.exp \in 0 .. 255
  BY DEF Float
<1>2. f.exp = 0 \/ f.exp \in 1 .. 112 \/ f.exp \in 113 .. 142 \/ f.exp >= 143
  BY <1>1
<1> QED
  BY <1>2, ZeroToNearest, SubnormalToNearest, NormalToNearest, LargeToNearest

-----------------------------------------------------------------------------
(* Types of the conversions. *)
LEMMA SignedType ==
  ASSUME NEW f, NEW n \in Int
  PROVE  Signed(f, n) \in Half
  BY DEF Signed, Half

LEMMA ShiftedRightType ==
  ASSUME NEW m \in Nat, NEW k \in Nat
  PROVE  ShiftedRight(m, k) \in Nat
<1>1. CASE k > 24
  BY <1>1 DEF ShiftedRight
<1>2. CASE k <= 24
  <2>1. Pow2(k) \in Nat \ {0}
    BY <1>2, PowerPositive
  <2>2. m \div Pow2(k) \in Nat
    BY <2>1, Division
  <2> QED
    BY <1>2, <2>2 DEF ShiftedRight
<1> QED
  BY <1>1, <1>2

LEMMA RoundedOffType ==
  ASSUME NEW m \in Nat, NEW k \in Nat
  PROVE  RoundedOff(m, k) \in Nat
<1>1. ShiftedRight(m, k) \in Nat
  BY ShiftedRightType
<1> QED
  BY <1>1 DEF RoundedOff

LEMMA Float2Fp16BitsType ==
  ASSUME NEW f \in Float
  PROVE  Float2Fp16Bits(f) \subseteq Half
<1>1. f.exp \in 0 .. 255 /\ f.mant \in 0 .. 2^23 - 1
  BY DEF Float
<1>2. Infinity \in Int
  BY DEF Infinity
<1>3. f.exp \in 113 .. 142 => Normal(f) \in Int
  <2>1. RoundedOff(f.mant, 13) \in Nat
    <3>1. f.mant \in Nat /\ 13 \in Nat
      BY <1>1
    <3> QED
      BY <3>1, RoundedOffType
  <2> QED
    BY <1>1, <1>2, <2>1 DEF Normal
<1>4. f.exp <= 112 => Subnormal(f) \subseteq Int
  <2> SUFFICES ASSUME f.exp <= 112 PROVE Subnormal(f) \subseteq Int
    OBVIOUS
  <2> DEFINE m == WithHidden(f)
  <2>1. m \in Nat
    BY <1>1 DEF WithHidden
  <2> HIDE DEF m
  <2>2. 113 - f.exp + 13 \in Nat /\ RoundedOff(m, 113 - f.exp + 13) \in Nat
    <3>1. 113 - f.exp + 13 \in Nat
      BY <1>1
    <3> QED
      BY <2>1, <3>1, RoundedOffType
  <2>3. CASE 113 - f.exp > 24
    BY <2>3 DEF Subnormal
  <2>4. CASE 113 - f.exp <= 24 /\ 113 - f.exp + 13 < 32
    BY <1>1, <2>2, <2>4 DEF Subnormal, m
  <2>5. CASE 113 - f.exp <= 24 /\ 113 - f.exp + 13 >= 32
    <3>1. 113 - f.exp + 13 - 32 \in Nat
      BY <1>1, <2>5
    <3>2. RoundedOff(m, 113 - f.exp + 13 - 32) \in Nat
      BY <2>1, <3>1, RoundedOffType
    <3> QED
      BY <1>1, <2>5, <3>2 DEF Subnormal, m
  <2> QED
    BY <1>1, <2>3, <2>4, <2>5
<1>5. CASE f.exp - 112 >= 31
  BY <1>2, <1>5, SignedType DEF Float2Fp16Bits
<1>6. CASE f.exp - 112 <= 0
  <2>1. Float2Fp16Bits(f) = {Signed(f, n) : n \in Subnormal(f)}
    BY <1>1, <1>6 DEF Float2Fp16Bits
  <2>2. Subnormal(f) \subseteq Int
    BY <1>1, <1>4, <1>6
  <2> QED
    BY <2>1, <2>2, SignedType
<1>7. CASE f.exp \in 113 .. 142
  BY <1>3, <1>7, SignedType DEF Float2Fp16Bits
<1> QED
  BY <1>1, <1>5, <1>6, <1>7

-----------------------------------------------------------------------------
(* The float of a half.  The code's loop shifts a subnormal mantissa by    *)
(* one to ten places, after which it has eleven bits.                      *)
SubnormalMantissas == 1 .. 1023

Fitting(m) == Places(m) \in 1 .. 10 /\ m * Pow2(Places(m)) \in 1024 .. 2047

LEMMA PlacesFit ==
  ASSUME NEW m \in SubnormalMantissas
  PROVE  Fitting(m) /\ Places(m) = 11 - BitLength(m)
<1> USE DEF SubnormalMantissas
<1> DEFINE l == BitLength(m)
           Fits(s) == m * Pow2(s) \in 2^10 .. 2^11 - 1
<1>1. l \in 1 .. 30 /\ Pow2(l - 1) <= m /\ m < Pow2(l)
  <2>1. m \in 1 .. 2^30 - 1
    OBVIOUS
  <2> QED
    BY <2>1, BitLengthOf
<1> HIDE DEF l
<1>2. l \in 1 .. 10
  <2> SUFFICES ASSUME l > 10 PROVE FALSE
    BY <1>1
  <2>1. l - 1 = 10 \/ 2 * Pow2(10) <= Pow2(l - 1)
    BY <1>1, PowerMonotonic
  <2> QED
    BY <1>1, <2>1, PowerValues
<1>3. Fits(11 - l)
  <2>1. Pow2(10) = Pow2(l - 1) * Pow2(11 - l)
    <3>1. l - 1 \in 0 .. 30 /\ 11 - l \in 0 .. 30 /\ (l - 1) + (11 - l) = 10
      BY <1>2
    <3> QED
      BY <3>1, PowerSum
  <2>2. Pow2(11) = Pow2(l) * Pow2(11 - l)
    <3>1. l \in 0 .. 30 /\ 11 - l \in 0 .. 30 /\ l + (11 - l) = 11
      BY <1>2
    <3> QED
      BY <3>1, PowerSum
  <2>3. /\ Pow2(l - 1) \in Nat /\ Pow2(l) \in Nat /\ Pow2(11 - l) \in Nat \ {0}
        /\ Pow2(10) = 1024 /\ Pow2(11) = 2048
    BY <1>2, PowerValues
  <2> DEFINE p == Pow2(11 - l)
  <2>4. Pow2(l - 1) * p <= m * p
    BY <1>1, <2>3
  <2>5. m * p < Pow2(l) * p
    BY <1>1, <2>3
  <2>6. m * p \in Nat
    BY <2>3
  <2>7. 1024 <= m * p /\ m * p < 2048
    BY <2>1, <2>2, <2>3, <2>4, <2>5
  <2> HIDE DEF p
  <2>8. m * p \in 1024 .. 2047
    BY <2>6, <2>7
  <2> QED
    BY <2>8 DEF p
<1>4. ASSUME NEW s \in 1 .. 10, NEW t \in 1 .. 10, Fits(s), Fits(t), s < t
      PROVE  FALSE
  <2>1. Pow2(s) \in Nat /\ Pow2(t) \in Nat /\ 2 * Pow2(s) <= Pow2(t)
    BY <1>4, PowerPositive, PowerMonotonic
  <2> DEFINE x == m * Pow2(s)
             y == m * Pow2(t)
  <2>2. 2 * x <= y
    <3> DEFINE p == Pow2(s)
               q == Pow2(t)
    <3>1. p \in Nat /\ q \in Nat /\ 2 * p <= q /\ m \in Nat
      BY <2>1
    <3> HIDE DEF p, q
    <3>2. m * (2 * p) <= m * q
      BY <3>1
    <3>3. m * (2 * p) = 2 * (m * p)
      BY <3>1
    <3> QED
      BY <3>2, <3>3 DEF p, q
  <2>3. x \in 2^10 .. 2^11 - 1 /\ y \in 2^10 .. 2^11 - 1
    BY <1>4
  <2> HIDE DEF x, y
  <2> QED
    BY <2>2, <2>3
<1>5. \A s \in 1 .. 10 : Fits(s) => s = 11 - l
  <2> SUFFICES ASSUME NEW s \in 1 .. 10, Fits(s), s # 11 - l PROVE FALSE
    OBVIOUS
  <2>1. 11 - l \in 1 .. 10 /\ (s < 11 - l \/ 11 - l < s)
    BY <1>2
  <2> HIDE DEF Fits
  <2> QED
    BY <1>3, <1>4, <2>1
<1>6. Places(m) = CHOOSE s \in 1 .. 10 : Fits(s)
  BY DEF Places
<1>7. 11 - l \in 1 .. 10
  BY <1>2
<1> HIDE DEF Fits
<1>8. Places(m) = 11 - l
  BY <1>3, <1>5, <1>6, <1>7
<1> QED
  BY <1>3, <1>7, <1>8 DEF Fits, l, Fitting

LEMMA FieldsOfHalf ==
  ASSUME NEW b \in Half
  PROVE  SignOf(b) \in {0, 1} /\ ExpOf(b) \in 0 .. 31 /\ MantOf(b) \in 0 .. 1023
  BY DEF Half, SignOf, ExpOf, MantOf

(* The significand of a half, hidden bit included, brought to eleven bits, *)
(* and the power of two of its lowest bit, increased by 25.                *)
Significand(b) == IF ExpOf(b) = 0 THEN MantOf(b) * Pow2(Places(MantOf(b))) ELSE MantOf(b) + 2^10
Scale(b)       == IF ExpOf(b) = 0 THEN 1 - Places(MantOf(b)) ELSE ExpOf(b)

(* A finite half other than the two zeros. *)
NonZero(b) == ExpOf(b) # 31 /\ (ExpOf(b) # 0 \/ MantOf(b) # 0)

LEMMA SignificandType ==
  ASSUME NEW b \in Half, NonZero(b)
  PROVE  Significand(b) \in 1024 .. 2047 /\ Scale(b) \in -9 .. 30
<1>1. ExpOf(b) \in 0 .. 31 /\ MantOf(b) \in 0 .. 1023
  BY FieldsOfHalf
<1>2. CASE ExpOf(b) = 0
  <2>1. MantOf(b) \in 1 .. 1023
    BY <1>1, <1>2 DEF NonZero
  <2>2. Places(MantOf(b)) \in 1 .. 10 /\ MantOf(b) * Pow2(Places(MantOf(b))) \in 1024 .. 2047
    <3> DEFINE m == MantOf(b)
    <3>1. m \in SubnormalMantissas
      BY <2>1 DEF SubnormalMantissas
    <3> HIDE DEF m
    <3>2. Fitting(m)
      BY <3>1, PlacesFit
    <3> QED
      BY <3>2 DEF m, Fitting
  <2> QED
    BY <1>2, <2>2 DEF Significand, Scale
<1>3. CASE ExpOf(b) # 0
  BY <1>1, <1>3 DEF Significand, Scale, NonZero
<1> QED
  BY <1>2, <1>3

LEMMA WidenedIs ==
  ASSUME NEW b \in Half, NonZero(b)
  PROVE  Fp16Bits2Float(b) = [sign |-> SignOf(b), exp |-> Scale(b) + 112,
                              mant |-> (Significand(b) - 1024) * 2^13]
<1>1. ExpOf(b) \in 0 .. 31 /\ MantOf(b) \in 0 .. 1023
  BY FieldsOfHalf
<1>2. CASE ExpOf(b) = 0
  <2> DEFINE n == MantOf(b) * Pow2(Places(MantOf(b)))
  <2>0. MantOf(b) # 0
    BY <1>1, <1>2 DEF NonZero
  <2>1. MantOf(b) \in 1 .. 1023
    BY <1>1, <2>0
  <2>2. Places(MantOf(b)) \in 1 .. 10 /\ n \in 1024 .. 2047
    <3> DEFINE m == MantOf(b)
    <3>1. m \in SubnormalMantissas
      BY <2>1 DEF SubnormalMantissas
    <3> HIDE DEF m
    <3>2. Fitting(m)
      BY <3>1, PlacesFit
    <3> QED
      BY <3>2 DEF m, Fitting
  <2>3. Significand(b) = n /\ Scale(b) = 1 - Places(MantOf(b))
    BY <1>2 DEF Significand, Scale
  <2>4. Normalised(MantOf(b)) = n % 2^10
    BY DEF Normalised
  <2> HIDE DEF n
  <2>5. n % 2^10 = n - 1024
    BY <2>2
  <2>6. Fp16Bits2Float(b) = [sign |-> SignOf(b), exp |-> 1 - Places(MantOf(b)) + 112,
                             mant |-> (n - 1024) * 2^13]
    BY <1>2, <2>0, <2>4, <2>5 DEF Fp16Bits2Float
  <2> QED
    BY <2>3, <2>6
<1>3. CASE ExpOf(b) # 0
  <2>1. Significand(b) - 1024 = MantOf(b) /\ Scale(b) = ExpOf(b)
    BY <1>1, <1>3 DEF Significand, Scale
  <2>2. Fp16Bits2Float(b) = [sign |-> SignOf(b), exp |-> ExpOf(b) + 112, mant |-> MantOf(b) * 2^13]
    BY <1>3 DEF Fp16Bits2Float, NonZero
  <2> QED
    BY <2>1, <2>2
<1> QED
  BY <1>2, <1>3

LEMMA WidenedZero ==
  ASSUME NEW b \in Half, ExpOf(b) = 0, MantOf(b) = 0
  PROVE  Fp16Bits2Float(b) = [sign |-> SignOf(b), exp |-> 0, mant |-> 0]
  BY DEF Fp16Bits2Float

LEMMA WidenedInfinite ==
  ASSUME NEW b \in Half, ExpOf(b) = 31
  PROVE  Fp16Bits2Float(b) = [sign |-> SignOf(b), exp |-> 255,
                              mant |-> IF MantOf(b) # 0 THEN 2^22 ELSE 0]
  BY DEF Fp16Bits2Float

LEMMA FloatType ==
  ASSUME NEW sign \in {0, 1}, NEW exp \in 0 .. 255, NEW mant \in 0 .. 2^23 - 1
  PROVE  [sign |-> sign, exp |-> exp, mant |-> mant] \in Float
  BY DEF Float

LEMMA SpecialFloats ==
  \A s \in {0, 1} : /\ [sign |-> s, exp |-> 0, mant |-> 0] \in Float
                   /\ [sign |-> s, exp |-> 255, mant |-> 0] \in Float
                   /\ [sign |-> s, exp |-> 255, mant |-> 2^22] \in Float
<1>1. /\ 0 \in 0 .. 255 /\ 255 \in 0 .. 255
      /\ 0 \in 0 .. 2^23 - 1 /\ 2^22 \in 0 .. 2^23 - 1
  OBVIOUS
<1> QED
  BY <1>1 DEF Float

LEMMA Fp16Bits2FloatType ==
  ASSUME NEW b \in Half
  PROVE  Fp16Bits2Float(b) \in Float
<1>1. SignOf(b) \in {0, 1}
  BY FieldsOfHalf
<1>2. CASE NonZero(b)
  <2>1. Significand(b) \in 1024 .. 2047 /\ Scale(b) \in -9 .. 30
    BY <1>2, SignificandType
  <2>2. Scale(b) + 112 \in 0 .. 255
    BY <2>1
  <2>3. (Significand(b) - 1024) * 2^13 \in 0 .. 2^23 - 1
    BY <2>1
  <2> DEFINE exp  == Scale(b) + 112
             mant == (Significand(b) - 1024) * 2^13
  <2>4. exp \in 0 .. 255 /\ mant \in 0 .. 2^23 - 1
    BY <2>2, <2>3
  <2>5. Fp16Bits2Float(b) = [sign |-> SignOf(b), exp |-> exp, mant |-> mant]
    BY <1>2, WidenedIs
  <2> HIDE DEF exp, mant
  <2> QED
    BY <1>1, <2>4, <2>5, FloatType
<1>3. CASE ExpOf(b) = 0 /\ MantOf(b) = 0
  BY <1>1, <1>3, WidenedZero, SpecialFloats
<1>4. CASE ExpOf(b) = 31
  <2>1. CASE MantOf(b) = 0
    <3>1. Fp16Bits2Float(b) = [sign |-> SignOf(b), exp |-> 255, mant |-> 0]
      BY <1>4, <2>1, WidenedInfinite
    <3> QED
      BY ONLY <1>1, <3>1, SpecialFloats
  <2>2. CASE MantOf(b) # 0
    <3>1. Fp16Bits2Float(b) = [sign |-> SignOf(b), exp |-> 255, mant |-> 2^22]
      BY <1>4, <2>2, WidenedInfinite
    <3> QED
      BY ONLY <1>1, <3>1, SpecialFloats
  <2> QED
    BY <2>1, <2>2
<1> QED
  BY <1>2, <1>3, <1>4 DEF NonZero

-----------------------------------------------------------------------------
(* More about rounding. *)
LEMMA NearestEvenBetween ==
  ASSUME NEW k \in 0 .. 30, NEW n \in Nat, NEW a \in Int, NEW b \in Nat,
         a * Pow2(k) <= n, n <= b * Pow2(k)
  PROVE  a <= NearestEven(n, k) /\ NearestEven(n, k) <= b
<1> DEFINE p == Pow2(k)
           v == NearestEven(n, k)
<1>1. PICK q, r \in Nat : n = q * p + r /\ r < p /\ v = NearestOf(q, r, p)
  BY NearestEvenOf
<1>2. p \in Nat \ {0}
  BY PowerPositive
<1> HIDE DEF p, v
<1>3. a <= q
  <2> SUFFICES ASSUME a >= q + 1 PROVE FALSE
    BY <1>1
  <2>1. a * p >= (q + 1) * p
    BY <1>2
  <2>2. (q + 1) * p = q * p + p /\ q * p \in Nat /\ a * p \in Int
    BY <1>2
  <2>3. a * p <= n
    BY DEF p
  <2> QED
    BY <1>1, <1>2, <2>1, <2>2, <2>3
<1>4. q < b \/ (q = b /\ r = 0)
  <2> SUFFICES ASSUME q > b \/ (q = b /\ r # 0) PROVE FALSE
    BY <1>1
  <2>1. n <= b * p
    BY DEF p
  <2>2. CASE q = b /\ r # 0
    BY <1>1, <1>2, <2>1, <2>2
  <2>3. CASE q > b
    <3>1. q * p >= (b + 1) * p
      BY <1>2, <2>3
    <3>2. (b + 1) * p = b * p + p /\ b * p \in Nat /\ q * p \in Nat
      BY <1>2
    <3> QED
      BY <1>1, <1>2, <2>1, <3>1, <3>2
  <2> QED
    BY <2>2, <2>3
<1>5. v \in {q, q + 1} /\ (r = 0 => v = q)
  BY <1>1, <1>2 DEF NearestOf
<1> QED
  BY <1>3, <1>4, <1>5 DEF v

(* Rounding moves a number by at most half a unit. *)
LEMMA NearestEvenDistance ==
  ASSUME NEW k \in 0 .. 30, NEW n \in Nat
  PROVE  /\ 2 * (NearestEven(n, k) * Pow2(k)) <= 2 * n + Pow2(k)
         /\ 2 * n <= 2 * (NearestEven(n, k) * Pow2(k)) + Pow2(k)
<1> DEFINE p == Pow2(k)
           v == NearestEven(n, k)
<1>1. PICK q, r \in Nat : n = q * p + r /\ r < p /\ v = NearestOf(q, r, p)
  BY NearestEvenOf
<1>2. p \in Nat \ {0}
  BY PowerPositive
<1> HIDE DEF p, v
<1>3. (v = q /\ 2 * r <= p) \/ (v = q + 1 /\ 2 * r >= p)
  BY <1>1, <1>2 DEF NearestOf
<1>4. (q + 1) * p = q * p + p /\ q * p \in Nat
  BY <1>2
<1>5. 2 * (v * p) <= 2 * n + p /\ 2 * n <= 2 * (v * p) + p
  BY <1>1, <1>2, <1>3, <1>4
<1> QED
  BY <1>5 DEF p, v

(* Twice rounded is once rounded, unless the first rounding makes a tie.   *)
LEMMA RoundedTwice ==
  ASSUME NEW c \in 1 .. 30, NEW d \in 1 .. 30, c + d <= 30, NEW n \in Nat,
         n % Pow2(c) = 0 \/ NearestEven(n, c) % Pow2(d) # Pow2(d - 1)
  PROVE  NearestEven(NearestEven(n, c), d) = NearestEven(n, c + d)
<1> DEFINE u == Pow2(c)
           v == Pow2(d)
           w == Pow2(d - 1)
           s == NearestEven(n, c)
<1>1. u \in Nat \ {0} /\ w \in Nat \ {0} /\ v \in Nat \ {0} /\ v = 2 * w
  <2>1. d - 1 \in 0 .. 29 /\ d = (d - 1) + 1
    OBVIOUS
  <2> QED
    BY <2>1, PowerPositive, PowerStep
<1>2. Pow2(c + d) = u * v
  BY PowerSum
<1>3. PICK a, r \in Nat : /\ n = a * u + r /\ r < u /\ r = n % u
                          /\ s = NearestOf(a, r, u)
  <2>1. c \in 0 .. 30
    OBVIOUS
  <2>2. \E a, r \in Nat : /\ n = a * u + r /\ r < u /\ r = n % u
                          /\ s = NearestOf(a, r, u)
    BY ONLY <2>1, n \in Nat, NearestEvenOf
  <2> QED
    BY <2>2
<1>4. PICK q, b \in Nat : a = q * v + b /\ b < v
  BY <1>1, <1>3, Division
<1>5. r = 0 \/ s % v # w
  BY <1>3
<1>6. NearestEven(n, c + d) = NearestOf(q, b * u + r, u * v)
  <2>1. n = q * (u * v) + (b * u + r)
    BY <1>1, <1>3, <1>4
  <2>2. b * u + r \in Nat /\ b * u + r < u * v
    <3>1. (b + 1) * u <= v * u
      BY <1>1, <1>4
    <3>2. (b + 1) * u = b * u + u /\ v * u = u * v /\ b * u \in Nat
      BY <1>1
    <3> QED
      BY <1>1, <1>3, <3>1, <3>2
  <2>3. c + d \in 0 .. 30
    OBVIOUS
  <2> HIDE DEF u, v
  <2> QED
    BY <1>2, <2>1, <2>2, <2>3, NearestEvenIs
<1>7. \A x, y \in Nat : y < v => NearestEven(x * v + y, d) = NearestOf(x, y, v)
  BY NearestEvenIs
<1>8. \A x, y \in Nat : y < v => (x * v + y) % v = y
  BY <1>1, DivisionUnique
<1> HIDE DEF u, v, w, s
<1>9. CASE s = a /\ r = 0
  <2>1. NearestEven(s, d) = NearestOf(q, b, v)
    BY <1>4, <1>7, <1>9
  <2>2. (2 * (b * u) > u * v <=> 2 * b > v) /\ (2 * (b * u) = u * v <=> 2 * b = v)
    <3>1. 2 * (b * u) = (2 * b) * u /\ u * v = v * u
      BY <1>1
    <3>2. 2 * b > v => (2 * b) * u > v * u
      BY <1>1
    <3>3. 2 * b < v => (2 * b) * u < v * u
      BY <1>1
    <3>4. (2 * b) * u \in Nat /\ v * u \in Nat
      BY <1>1
    <3> QED
      BY <1>1, <3>1, <3>2, <3>3, <3>4
  <2>3. b * u + r = b * u
    BY <1>1, <1>9
  <2> QED
    BY <1>6, <2>1, <2>2, <2>3 DEF NearestOf, s
<1>10. CASE s = a /\ r # 0 /\ 2 * r <= u
  <2>1. NearestEven(s, d) = NearestOf(q, b, v)
    BY <1>4, <1>7, <1>10
  <2>2. b # w
    BY <1>4, <1>5, <1>8, <1>10
  <2>3. CASE b > w
    <3>1. (2 * b) * u >= v * u + 2 * u
      <4>1. (2 * b) * u >= (v + 2) * u
        BY <1>1, <2>3
      <4> QED
        BY <1>1, <4>1
    <3>2. 2 * (b * u + r) > u * v
      BY <1>1, <1>10, <3>1
    <3>3. 2 * b > v
      BY <1>1, <2>3
    <3> QED
      BY <1>6, <2>1, <3>2, <3>3 DEF NearestOf, s
  <2>4. CASE b < w
    <3>1. (2 * b + 2) * u <= v * u
      BY <1>1, <2>4
    <3>2. 2 * (b * u + r) < u * v
      BY <1>1, <1>3, <1>10, <3>1
    <3>3. 2 * b < v
      BY <1>1, <2>4
    <3>4. 2 * (b * u + r) \in Nat /\ u * v \in Nat
      BY <1>1
    <3> QED
      BY <1>1, <1>6, <2>1, <3>2, <3>3, <3>4 DEF NearestOf, s
  <2> QED
    BY <1>1, <2>2, <2>3, <2>4
<1>11. CASE s = a + 1 /\ r # 0 /\ 2 * r >= u
  <2>1. CASE b + 1 = v
    <3>1. s = (q + 1) * v + 0
      BY <1>1, <1>4, <1>11, <2>1
    <3>2. NearestEven(s, d) = NearestOf(q + 1, 0, v)
      BY <1>1, <1>7, <3>1
    <3>3. 2 * (b * u + r) > u * v
      <4>1. b * u + u = v * u
        BY <1>1, <2>1
      <4>2. v * u >= 2 * u
        BY <1>1
      <4> QED
        BY <1>1, <1>11, <4>1, <4>2
    <3> QED
      BY <1>1, <1>6, <3>2, <3>3 DEF NearestOf, s
  <2>2. CASE b + 1 < v
    <3>1. s = q * v + (b + 1)
      BY <1>1, <1>4, <1>11
    <3>2. NearestEven(s, d) = NearestOf(q, b + 1, v)
      BY <1>1, <1>7, <2>2, <3>1
    <3>3. b + 1 # w
      BY <1>5, <1>8, <1>11, <2>2, <3>1
    <3>4. CASE b + 1 > w
      <4>1. (2 * b) * u >= v * u
        BY <1>1, <3>4
      <4>2. 2 * (b * u + r) > u * v
        BY <1>1, <1>11, <4>1
      <4>3. 2 * (b + 1) > v
        BY <1>1, <3>4
      <4> QED
        BY <1>6, <3>2, <4>2, <4>3 DEF NearestOf, s
    <3>5. CASE b + 1 < w
      <4>1. (2 * b + 2) * u <= v * u
        BY <1>1, <3>5
      <4>2. 2 * (b * u + r) < u * v
        BY <1>1, <1>3, <4>1
      <4>3. 2 * (b + 1) < v
        BY <1>1, <3>5
      <4>4. 2 * (b * u + r) \in Nat /\ u * v \in Nat
        BY <1>1
      <4> QED
        BY <1>1, <1>6, <3>2, <4>2, <4>3, <4>4 DEF NearestOf, s
    <3> QED
      BY <1>1, <3>3, <3>4, <3>5
  <2> QED
    BY <1>1, <1>4, <2>1, <2>2
<1>12. \/ s = a /\ r = 0
       \/ s = a /\ r # 0 /\ 2 * r <= u
       \/ s = a + 1 /\ r # 0 /\ 2 * r >= u
  BY <1>1, <1>3 DEF NearestOf
<1> QED
  BY <1>9, <1>10, <1>11, <1>12

-----------------------------------------------------------------------------
(* A number written with more bits is the same number. *)
LEMMA UnitsOfMore ==
  ASSUME NEW n \in Nat \ {0}, NEW j \in 0 .. 23, n * Pow2(j) < 2^24, NEW k \in Int, k >= -10
  PROVE  Units(n * Pow2(j), k + j) = Units(n, k)
<1> DEFINE p == Pow2(j)
           h == Pow2(k)
<1>1. p \in Nat \ {0} /\ n * p \in Nat
  BY PowerPositive
<1>2. CASE k + j <= 0
  <2>1. -k \in 0 .. 30 /\ -(k + j) \in 0 .. 30 /\ j \in 0 .. 30 /\ j + -(k + j) = -k
    BY <1>2
  <2>2. Pow2(-k) = p * Pow2(-(k + j)) /\ Pow2(-(k + j)) \in Nat
    <3> DEFINE i == -(k + j)
    <3>1. i \in 0 .. 30 /\ j + i <= 30 /\ j + i = -k
      BY <2>1
    <3> HIDE DEF i
    <3>2. Pow2(j + i) = Pow2(j) * Pow2(i) /\ Pow2(i) \in Nat
      BY <2>1, <3>1, PowerSum, PowerPositive
    <3> QED
      BY <3>1, <3>2 DEF i
  <2>3. k <= 0
    BY <1>2
  <2>4. n * (p * Pow2(-(k + j))) = (n * p) * Pow2(-(k + j))
    BY <1>1, <2>2
  <2> QED
    BY <1>2, <2>2, <2>3, <2>4 DEF Units
<1>3. CASE k <= 0 /\ k + j > 0
  <2>1. -k \in 0 .. 30 /\ k + j \in 0 .. 30 /\ (-k) + (k + j) = j /\ k + j <= 29
    BY <1>3
  <2>2. p = Pow2(-k) * Pow2(k + j) /\ Pow2(-k) \in Nat /\ Pow2(k + j) \in Nat \ {0}
    <3> DEFINE i == -k
               g == k + j
    <3>1. i \in 0 .. 30 /\ g \in 0 .. 30 /\ i + g <= 30 /\ i + g = j
      BY <2>1
    <3> HIDE DEF i, g
    <3>2. Pow2(i + g) = Pow2(i) * Pow2(g) /\ Pow2(i) \in Nat /\ Pow2(g) \in Nat \ {0}
      BY <3>1, PowerSum, PowerPositive
    <3> QED
      BY <3>1, <3>2 DEF i, g
  <2>3. n * p = (n * Pow2(-k)) * Pow2(k + j) + 0 /\ n * Pow2(-k) \in Nat
    BY <2>2
  <2>4. NearestEven(n * p, k + j) = NearestOf(n * Pow2(-k), 0, Pow2(k + j))
    <3> DEFINE q == n * Pow2(-k)
    <3>1. q \in Nat /\ n * p = q * Pow2(k + j) + 0 /\ 0 \in Nat /\ 0 < Pow2(k + j)
      BY <2>2, <2>3
    <3> DEFINE g == k + j
    <3>2. g \in 0 .. 30 /\ n * p = q * Pow2(g) + 0 /\ 0 < Pow2(g)
      BY <2>1, <3>1
    <3> HIDE DEF q, p, g
    <3>3. NearestEven(q * Pow2(g) + 0, g) = NearestOf(q, 0, Pow2(g))
      BY <3>1, <3>2, NearestEvenIs
    <3> QED
      BY <3>2, <3>3 DEF q, g
  <2>5. NearestOf(n * Pow2(-k), 0, Pow2(k + j)) = n * Pow2(-k)
    BY <2>2 DEF NearestOf
  <2> QED
    BY <1>3, <2>1, <2>4, <2>5 DEF Units
<1>4. CASE k > 0 /\ k + j <= 29
  <2>1. k \in 0 .. 30 /\ k + j \in 0 .. 30 /\ j \in 0 .. 30
    BY <1>4
  <2>2. Pow2(k + j) = h * p /\ h \in Nat \ {0}
    <3>1. k + j <= 30
      BY <1>4
    <3> QED
      BY <2>1, <3>1, PowerSum, PowerPositive
  <2>3. PICK q, r \in Nat : n = q * h + r /\ r < h /\ NearestEven(n, k) = NearestOf(q, r, h)
    BY <2>1, NearestEvenOf
  <2> HIDE DEF h, p
  <2>4. n * p = q * (h * p) + r * p /\ r * p \in Nat
    BY <1>1, <2>2, <2>3
  <2>5. r * p < h * p /\ (2 * (r * p) > h * p <=> 2 * r > h) /\ (2 * (r * p) = h * p <=> 2 * r = h)
    <3>1. 2 * (r * p) = (2 * r) * p
      BY <1>1
    <3>2. \A x, y \in Nat : x < y => x * p < y * p
      BY <1>1
    <3>3. (2 * r) * p \in Nat /\ h * p \in Nat /\ r * p \in Nat /\ 2 * r \in Nat
      BY <1>1, <2>2
    <3> QED
      BY <2>2, <2>3, <3>1, <3>2, <3>3
  <2>6. NearestEven(n * p, k + j) = NearestOf(q, r * p, h * p)
    BY <2>1, <2>2, <2>3, <2>4, <2>5, NearestEvenIs
  <2>7. NearestOf(q, r * p, h * p) = NearestOf(q, r, h)
    BY <2>5 DEF NearestOf
  <2> QED
    BY <1>4, <2>3, <2>6, <2>7 DEF Units, p
<1>5. CASE k > 0 /\ k + j > 29
  <2>1. CASE k > 29
    BY <1>5, <2>1 DEF Units
  <2>2. CASE k <= 29
    <3>1. 24 - j \in 0 .. 30 /\ 25 - j \in 0 .. 30 /\ k \in 0 .. 30 /\ 25 - j < k /\ j \in 0 .. 30
      BY <1>5, <2>2
    <3>2. Pow2(24) = Pow2(24 - j) * p /\ Pow2(24) = 2^24 /\ Pow2(24 - j) \in Nat
      <4>1. (24 - j) + j = 24 /\ 24 \in 0 .. 30
        OBVIOUS
      <4>2. Pow2(24) = Pow2(24 - j) * p
        BY <3>1, <4>1, PowerSum
      <4> QED
        BY <3>1, <4>2, PowerValues, PowerPositive
    <3>3. n < Pow2(24 - j)
      <4> SUFFICES ASSUME n >= Pow2(24 - j) PROVE FALSE
        BY <3>2
      <4>1. n * p >= Pow2(24 - j) * p
        BY <1>1, <3>2
      <4> QED
        BY <1>1, <3>2, <4>1
    <3>4. Pow2(25 - j) = 2 * Pow2(24 - j)
      <4>1. 24 - j \in 0 .. 29 /\ 25 - j = (24 - j) + 1
        OBVIOUS
      <4> QED
        BY <4>1, PowerStep
    <3>5. 2 * Pow2(25 - j) <= Pow2(k) /\ Pow2(25 - j) \in Nat /\ Pow2(k) \in Nat
      BY <3>1, PowerMonotonic, PowerPositive
    <3>6. 2 * n <= Pow2(k)
      BY <3>2, <3>3, <3>4, <3>5
    <3>7. NearestEven(n, k) = 0
      BY <3>1, <3>6, NearestEvenSmall
    <3> QED
      BY <1>5, <2>2, <3>7 DEF Units
  <2> QED
    BY <2>1, <2>2
<1> QED
  BY <1>2, <1>3, <1>4, <1>5

LEMMA NearestHalfOfMore ==
  ASSUME NEW n \in Nat \ {0}, NEW l \in 1 .. 24, BitLength(n) = l, Pow2(l - 1) <= n, n < Pow2(l),
         NEW e \in Int
  PROVE  /\ n * Pow2(24 - l) \in 2^23 .. 2^24 - 1
         /\ NearestHalf(n * Pow2(24 - l), e + l - 24) = NearestHalf(n, e)
<1> DEFINE j == 24 - l
           p == Pow2(j)
           m == n * p
<1>1. j \in 0 .. 23 /\ l \in 0 .. 30 /\ l - 1 \in 0 .. 30 /\ j \in 0 .. 30
  OBVIOUS
<1>2. p \in Nat \ {0} /\ Pow2(l) \in Nat /\ Pow2(l - 1) \in Nat
  BY <1>1, PowerPositive
<1>3. 2^24 = Pow2(l) * p /\ 2^23 = Pow2(l - 1) * p
  <2>1. l + j = 24 /\ (l - 1) + j = 23
    OBVIOUS
  <2>2. Pow2(24) = Pow2(l) * p /\ Pow2(23) = Pow2(l - 1) * p
    BY <1>1, <2>1, PowerSum
  <2> QED
    BY <2>2, PowerValues
<1>4. m \in 2^23 .. 2^24 - 1
  <2>1. Pow2(l - 1) * p <= n * p /\ n * p < Pow2(l) * p
    BY <1>2
  <2> QED
    BY <1>2, <1>3, <2>1
<1>5. m \in Nat \ {0} /\ BitLength(m) = 24
  BY <1>4, SignificandLength
<1> DEFINE i == e + l - 24
<1>6. i \in Int /\ i + 24 - 1 = e + l - 1 /\ 24 \in 1 .. 30 /\ l \in 1 .. 30
  OBVIOUS
<1>7. \A k \in Int : k >= -10 => Units(m, k + j) = Units(n, k)
  BY <1>1, <1>4, UnitsOfMore
<1> HIDE DEF m, p
<1>8. NearestHalf(m, i) = NearestHalf(n, e)
  <2>1. CASE e + l - 1 > 15
    <3>1. i + 24 - 1 > 15
      BY <1>6, <2>1
    <3>2. NearestHalf(m, i) = Infinity
      BY <1>5, <1>6, <3>1, NearestHalfLarge
    <3>3. NearestHalf(n, e) = Infinity
      BY <1>6, <2>1, NearestHalfLarge
    <3> QED
      BY <3>2, <3>3
  <2>2. CASE e + l - 1 >= -14 /\ e + l - 1 <= 15
    <3>1. NearestHalf(m, i) = HalfOrInfinity((i + 24 + 13) * 2^10 + Units(m, 24 - 11))
      <4>1. i + 24 - 1 >= -14 /\ i + 24 - 1 <= 15
        BY <1>6, <2>2
      <4> HIDE DEF i
      <4> QED
        BY <1>5, <1>6, <4>1, NearestHalfNormal
    <3>2. NearestHalf(n, e) = HalfOrInfinity((e + l + 13) * 2^10 + Units(n, l - 11))
      BY <1>6, <2>2, NearestHalfNormal
    <3>3. i + 24 + 13 = e + l + 13 /\ 24 - 11 = (l - 11) + j /\ l - 11 \in Int /\ l - 11 >= -10
      OBVIOUS
    <3>4. Units(m, 24 - 11) = Units(n, l - 11)
      BY <1>7, <3>3
    <3> QED
      BY <3>1, <3>2, <3>3, <3>4
  <2>3. CASE e + l - 1 < -14
    <3>1. NearestHalf(m, i) = HalfOrInfinity(Units(m, -24 - i))
      <4>1. i + 24 - 1 <= -14
        BY <1>6, <2>3
      <4> HIDE DEF i
      <4> QED
        BY <1>5, <1>6, <4>1, NearestHalfSubnormal
    <3>2. NearestHalf(n, e) = HalfOrInfinity(Units(n, -24 - e))
      BY <1>6, <2>3, NearestHalfSubnormal
    <3>3. -24 - i = (-24 - e) + j /\ -24 - e \in Int /\ -24 - e >= -10
      BY <2>3
    <3>4. Units(m, -24 - i) = Units(n, -24 - e)
      BY <1>7, <3>3
    <3> QED
      BY <3>1, <3>2, <3>4
  <2> QED
    BY <2>1, <2>2, <2>3
<1> QED
  BY <1>4, <1>8 DEF m, p

-----------------------------------------------------------------------------
(* A number of more than 24 bits, which a float rounds: the half nearest   *)
(* to the float is the one nearest to the number where the first rounding, *)
(* of c bits, makes no tie for the second, of d bits.                      *)
NoTie(n, c, d) == n % Pow2(c) = 0 \/ NearestEven(n, c) % Pow2(d) # Pow2(d - 1)

(* Of n * 2^e, n of l bits: no tie at the place where a half rounds it,    *)
(* 13 bits of a float and more where the half is subnormal.                *)
Safe(n, e, l) ==
  \/ e + l - 1 >= -14 /\ NoTie(n, l - 24, 13)
  \/ /\ e + l - 1 < -14 /\ l <= 28
     /\ NearestEven(n, l - 24) < 2^24
     /\ \A d \in 13 .. 28 : NoTie(n, l - 24, d)

LEMMA RoundedTo24 ==
  ASSUME NEW l \in 25 .. 30, NEW n \in Nat, Pow2(l - 1) <= n, n < Pow2(l)
  PROVE  NearestEven(n, l - 24) \in 2^23 .. 2^24
<1> DEFINE c == l - 24
<1>1. c \in 0 .. 30 /\ l \in 0 .. 30 /\ l - 1 \in 0 .. 30
  OBVIOUS
<1>2. Pow2(l - 1) = 2^23 * Pow2(c) /\ Pow2(l) = 2^24 * Pow2(c)
  <2>1. 23 \in 0 .. 30 /\ 24 \in 0 .. 30 /\ 23 + c = l - 1 /\ 24 + c = l
    OBVIOUS
  <2>2. Pow2(l - 1) = Pow2(23) * Pow2(c) /\ Pow2(l) = Pow2(24) * Pow2(c)
    BY <1>1, <2>1, PowerSum
  <2> QED
    BY <2>2, PowerValues
<1> DEFINE a == 2^23
           b == 2^24
<1>3. a \in Int /\ b \in Nat /\ a * Pow2(c) <= n /\ n <= b * Pow2(c)
  <2>1. Pow2(l) \in Nat
    BY <1>1, PowerPositive
  <2> QED
    BY <1>2, <2>1
<1>4. NearestEven(n, c) \in Nat
  BY <1>1, NearestEvenType
<1> HIDE DEF a, b, c
<1>5. a <= NearestEven(n, c) /\ NearestEven(n, c) <= b
  BY <1>1, <1>3, NearestEvenBetween
<1> QED
  BY <1>4, <1>5 DEF a, b, c

LEMMA NearestHalfOfRounded ==
  ASSUME NEW l \in 25 .. 30, NEW n \in Nat \ {0}, BitLength(n) = l,
         Pow2(l - 1) <= n, n < Pow2(l), NEW e \in Int, Safe(n, e, l)
  PROVE  /\ NearestEven(n, l - 24) < 2^24 =>
              NearestHalf(NearestEven(n, l - 24), e + l - 24) = NearestHalf(n, e)
         /\ NearestEven(n, l - 24) = 2^24 =>
              e + l - 1 >= -14 /\ NearestHalf(2^23, e + l - 23) = NearestHalf(n, e)
<1> DEFINE c == l - 24
           m == NearestEven(n, c)
<1>1. c \in 1 .. 6 /\ c \in 1 .. 30 /\ m \in 2^23 .. 2^24
  BY RoundedTo24
<1>2. ASSUME NEW d \in 13 .. 28, c + d <= 30, NoTie(n, c, d)
      PROVE  NearestEven(m, d) = NearestEven(n, c + d)
  <2>1. d \in 1 .. 30
    OBVIOUS
  <2> QED
    BY <1>1, <1>2, <2>1, RoundedTwice DEF NoTie
<1> HIDE DEF m
<1>3. CASE e + l - 1 >= -14
  <2>1. NearestEven(m, 13) = NearestEven(n, l - 11)
    <3>1. NoTie(n, c, 13)
      BY <1>3 DEF Safe
    <3>2. 13 \in 13 .. 28 /\ c + 13 = l - 11 /\ c + 13 <= 30
      OBVIOUS
    <3> HIDE DEF c
    <3> QED
      BY <1>2, <3>1, <3>2
  <2>2. Units(m, 13) = NearestEven(m, 13) /\ Units(n, l - 11) = NearestEven(n, l - 11)
    BY DEF Units
  <2>3. e + l - 1 <= 15 =>
          NearestHalf(n, e) = HalfOrInfinity((e + l + 13) * 2^10 + NearestEven(m, 13))
    <3>1. l \in 1 .. 30
      OBVIOUS
    <3>2. e + l - 1 <= 15 =>
            NearestHalf(n, e) = HalfOrInfinity((e + l + 13) * 2^10 + Units(n, l - 11))
      BY <1>3, <3>1, NearestHalfNormal
    <3> QED
      BY <2>1, <2>2, <3>2
  <2>4. e + l - 1 > 15 => NearestHalf(n, e) = Infinity
    <3>1. l \in 1 .. 30
      OBVIOUS
    <3> QED
      BY <3>1, NearestHalfLarge
  <2> DEFINE i == e + l - 24
  <2>5. ASSUME m < 2^24 PROVE NearestHalf(m, i) = NearestHalf(n, e)
    <3>1. m \in Nat \ {0} /\ BitLength(m) = 24 /\ 24 \in 1 .. 30 /\ i \in Int
      BY <1>1, <2>5, SignificandLength
    <3>2. CASE e + l - 1 > 15
      <4>1. i + 24 - 1 > 15
        BY <3>2
      <4> HIDE DEF i
      <4>2. NearestHalf(m, i) = Infinity
        BY <3>1, <4>1, NearestHalfLarge
      <4> QED
        BY <2>4, <3>2, <4>2
    <3>3. CASE e + l - 1 <= 15
      <4>1. i + 24 - 1 >= -14 /\ i + 24 - 1 <= 15 /\ i + 24 + 13 = e + l + 13 /\ 24 - 11 = 13
        BY <1>3, <3>3
      <4> HIDE DEF i
      <4>2. NearestHalf(m, i) = HalfOrInfinity((i + 24 + 13) * 2^10 + Units(m, 24 - 11))
        BY <3>1, <4>1, NearestHalfNormal
      <4> QED
        BY <2>2, <2>3, <3>3, <4>1, <4>2
    <3> QED
      BY <3>2, <3>3
  <2>6. ASSUME m = 2^24 PROVE NearestHalf(2^23, e + l - 23) = NearestHalf(n, e)
    <3> DEFINE g == e + l - 23
               k == 2^23
    <3>1. k \in Nat \ {0} /\ BitLength(k) = 24 /\ 24 \in 1 .. 30 /\ g \in Int
      BY SignificandLength
    <3>2. NearestEven(m, 13) = 2048 /\ NearestEven(k, 13) = 1024
      <4>1. NearestEven(2048 * Pow2(13) + 0, 13) = NearestOf(2048, 0, Pow2(13))
        BY NearestEvenIs, PowerValues
      <4>2. NearestEven(1024 * Pow2(13) + 0, 13) = NearestOf(1024, 0, Pow2(13))
        BY NearestEvenIs, PowerValues
      <4>3. 2048 * Pow2(13) + 0 = m /\ 1024 * Pow2(13) + 0 = k /\ Pow2(13) = 8192
        BY <2>6, PowerValues
      <4> HIDE DEF k
      <4> QED
        BY <4>1, <4>2, <4>3 DEF NearestOf
    <3>3. Units(k, 13) = 1024
      BY <3>2 DEF Units
    <3>4. CASE e + l > 15
      <4>1. g + 24 - 1 > 15
        BY <3>4
      <4>2. NearestHalf(k, g) = Infinity
        <5> HIDE DEF g, k
        <5> QED
          BY <3>1, <4>1, NearestHalfLarge
      <4>3. NearestHalf(n, e) = Infinity
        <5>1. CASE e + l - 1 > 15
          BY <2>4, <5>1
        <5>2. CASE e + l - 1 = 15
          <6>1. (e + l + 13) * 2^10 + 2048 = 31 * 2^10
            BY <5>2
          <6> QED
            BY <2>3, <3>2, <5>2, <6>1 DEF HalfOrInfinity, Infinity
        <5> QED
          BY <3>4, <5>1, <5>2
      <4> QED
        BY <4>2, <4>3
    <3>5. CASE e + l <= 15
      <4>1. g + 24 - 1 >= -14 /\ g + 24 - 1 <= 15 /\ g + 24 + 13 = e + l + 14 /\ 24 - 11 = 13
        BY <1>3, <3>5
      <4>2. NearestHalf(k, g) = HalfOrInfinity((g + 24 + 13) * 2^10 + Units(k, 24 - 11))
        <5> HIDE DEF g, k
        <5> QED
          BY <3>1, <4>1, NearestHalfNormal
      <4>3. (e + l + 14) * 2^10 + 1024 = (e + l + 13) * 2^10 + 2048
        OBVIOUS
      <4> QED
        BY <2>3, <3>2, <3>3, <3>5, <4>1, <4>2, <4>3
    <3> QED
      BY <3>4, <3>5
  <2> QED
    BY <1>3, <2>5, <2>6 DEF m
<1>4. CASE e + l - 1 < -14
  <2>1. l <= 28 /\ m < 2^24 /\ \A d \in 13 .. 28 : NoTie(n, c, d)
    BY <1>4 DEF Safe, m
  <2> DEFINE i == e + l - 24
             k == -24 - e
  <2>2. m \in Nat \ {0} /\ BitLength(m) = 24 /\ 24 \in 1 .. 30 /\ i \in Int
    BY <1>1, <2>1, SignificandLength
  <2>3. NearestHalf(n, e) = HalfOrInfinity(Units(n, k))
    <3>1. l \in 1 .. 30
      OBVIOUS
    <3> QED
      BY <1>4, <3>1, NearestHalfSubnormal
  <2>4. NearestHalf(m, i) = HalfOrInfinity(Units(m, -24 - i))
    <3>1. i + 24 - 1 <= -14
      BY <1>4
    <3> HIDE DEF i
    <3> QED
      BY <2>2, <3>1, NearestHalfSubnormal
  <2>5. Units(m, k - c) = Units(n, k)
    <3>1. k - c \in Int /\ k - c >= 13 /\ k \in Int /\ c <= 4
      BY <1>4, <2>1
    <3>2. CASE k <= 29
      <4> DEFINE d == k - c
      <4>1. d \in 13 .. 28 /\ c + d = k /\ c + d <= 30
        BY <1>1, <3>1, <3>2
      <4>2. NoTie(n, c, d)
        BY <2>1, <4>1
      <4> HIDE DEF d
      <4>3. NearestEven(m, d) = NearestEven(n, c + d)
        BY <1>2, <4>1, <4>2
      <4>4. Units(m, d) = NearestEven(m, d)
        BY <4>1 DEF Units
      <4>5. Units(n, k) = NearestEven(n, k)
        BY <3>1, <3>2, <4>1 DEF Units
      <4> QED
        BY <4>1, <4>3, <4>4, <4>5 DEF d
    <3>3. CASE k > 29
      <4>1. Units(n, k) = 0
        BY <3>3 DEF Units
      <4>2. CASE k - c > 29
        BY <4>1, <4>2 DEF Units
      <4>3. CASE k - c <= 29
        <5> DEFINE d == k - c
        <5>1. d \in 26 .. 29 /\ d \in 0 .. 30
          BY <1>1, <3>1, <3>3, <4>3
        <5>2. 2 * Pow2(25) <= Pow2(d)
          BY <5>1, PowerMonotonic
        <5>3. 2 * m <= Pow2(d)
          BY <1>1, <5>1, <5>2, PowerValues, PowerPositive
        <5> HIDE DEF d
        <5>4. NearestEven(m, d) = 0
          BY <2>2, <5>1, <5>3, NearestEvenSmall
        <5>5. Units(m, d) = 0
          BY <5>1, <5>4 DEF Units
        <5> QED
          BY <4>1, <5>5 DEF d
      <4> QED
        BY <3>1, <4>2, <4>3
    <3> QED
      BY <3>1, <3>2, <3>3
  <2>6. -24 - i = k - c
    OBVIOUS
  <2>7. NearestHalf(m, i) = NearestHalf(n, e)
    BY <2>3, <2>4, <2>5, <2>6
  <2> QED
    BY <2>1, <2>7 DEF m
<1> QED
  BY <1>3, <1>4

-----------------------------------------------------------------------------
(* A number through a float into a half: the numbers an exact result can   *)
(* be, and what is to show of the floats nearest to one.                   *)
ExactNumbers ==
  [kind : {"finite"}, sign : {0, 1}, n : 1 .. 2^30 - 1, e : -70 .. 20]

(* A float holds it exactly, or rounds it without harm. *)
IsSafe(x) == BitLength(x.n) > 24 => Safe(x.n, x.e, BitLength(x.n))

(* The fields of a normal float. *)
NormalExponents == 1 .. 254
Mantissas       == 0 .. 2^23 - 1

LEMMA NormalFloat ==
  ASSUME NEW s \in {0, 1}, NEW x \in NormalExponents, NEW k \in Mantissas
  PROVE  LET f == [sign |-> s, exp |-> x, mant |-> k]
         IN  f \in Float /\ RoundedNearest(f) = Signed(f, NearestHalf(k + 2^23, x - 150))
<1> DEFINE f == [sign |-> s, exp |-> x, mant |-> k]
<1>1. x \in 0 .. 255 /\ x # 0 /\ k \in 0 .. 2^23 - 1
  BY DEF NormalExponents, Mantissas
<1>2. f \in Float
  BY <1>1, FloatType
<1>3. RoundedNearest(f) = Signed(f, NearestHalf(k + 2^23, x - 150))
  BY <1>1 DEF RoundedNearest
<1> QED
  BY <1>2, <1>3

LEMMA SignedBySign ==
  ASSUME NEW f, NEW x, NEW n, f.sign = x.sign
  PROVE  Signed(f, n) = Signed(x, n)
  BY DEF Signed

(* The float f of x rounds to the half nearest to x. *)
RoundedOnce(f, x) ==
  /\ f \in Float
  /\ UndefinedShift(f) => x.e + BitLength(x.n) - 1 \in -38 .. -33
  /\ RoundedNearest(f) = Signed(x, NearestHalf(x.n, x.e))

LEMMA FloatOfNumber ==
  ASSUME NEW x \in ExactNumbers, IsSafe(x)
  PROVE  \A f \in Floats24(x) : RoundedOnce(f, x)
<1> DEFINE n == x.n
           e == x.e
           l == BitLength(n)
           m == IF l <= 24 THEN n * Pow2(24 - l) ELSE NearestEven(n, l - 24)
           f == [sign |-> x.sign, exp |-> 126 + e + l + (m \div 2^24), mant |-> m % 2^23]
<1>1. /\ x.kind = "finite" /\ x.sign \in {0, 1} /\ n \in 1 .. 2^30 - 1 /\ n \in Nat \ {0}
      /\ e \in -70 .. 20 /\ e \in Int
  <2>1. /\ x.kind = "finite" /\ x.sign \in {0, 1}
        /\ n \in 1 .. 2^30 - 1 /\ e \in -70 .. 20
    BY DEF ExactNumbers
  <2> HIDE DEF n, e
  <2> QED
    BY <2>1
<1>2. l \in 1 .. 30 /\ Pow2(l - 1) <= n /\ n < Pow2(l)
  BY <1>1, BitLengthOf
<1>3. Floats24(x) = {f}
  BY <1>1 DEF Floats24, IsInf, IsZero, Finite
<1>4. /\ m \in 2^23 .. 2^24
      /\ m < 2^24 => NearestHalf(m, e + l - 24) = NearestHalf(n, e)
      /\ m = 2^24 => e + l - 1 >= -14 /\ NearestHalf(2^23, e + l - 23) = NearestHalf(n, e)
  <2>1. CASE l <= 24
    <3>1. l \in 1 .. 24
      BY <1>2, <2>1
    <3> HIDE DEF n, e, l
    <3>2. /\ n * Pow2(24 - l) \in 2^23 .. 2^24 - 1
          /\ NearestHalf(n * Pow2(24 - l), e + l - 24) = NearestHalf(n, e)
      BY <1>1, <1>2, <3>1, NearestHalfOfMore DEF l
    <3>3. m = n * Pow2(24 - l)
      BY <2>1
    <3> HIDE DEF m
    <3>4. m \in 2^23 .. 2^24 - 1 /\ NearestHalf(m, e + l - 24) = NearestHalf(n, e)
      BY <3>2, <3>3
    <3> QED
      BY <3>4
  <2>2. CASE l > 24
    <3>1. l \in 25 .. 30
      BY <1>2, <2>2
    <3>2. Safe(n, e, l)
      BY <2>2 DEF IsSafe
    <3>3. m = NearestEven(n, l - 24)
      BY <1>2, <2>2
    <3>4. BitLength(n) = l
      OBVIOUS
    <3> HIDE DEF n, e, l, m
    <3>5. NearestEven(n, l - 24) \in 2^23 .. 2^24
      BY <1>1, <1>2, <3>1, RoundedTo24
    <3>6. /\ NearestEven(n, l - 24) < 2^24 =>
               NearestHalf(NearestEven(n, l - 24), e + l - 24) = NearestHalf(n, e)
          /\ NearestEven(n, l - 24) = 2^24 =>
               e + l - 1 >= -14 /\ NearestHalf(2^23, e + l - 23) = NearestHalf(n, e)
      BY <1>1, <1>2, <3>1, <3>2, <3>4, NearestHalfOfRounded
    <3> QED
      BY <3>3, <3>5, <3>6
  <2> QED
    BY <1>2, <2>1, <2>2
<1> HIDE DEF m
<1>5. CASE m < 2^24
  <2>1. m \div 2^24 = 0 /\ m % 2^23 = m - 2^23
    BY <1>4, <1>5
  <2> DEFINE g == 126 + e + l
             k == m - 2^23
  <2>2. g \in NormalExponents /\ k \in Mantissas /\ k + 2^23 = m /\ g - 150 = e + l - 24
    BY <1>1, <1>2, <1>4, <1>5 DEF NormalExponents, Mantissas
  <2>3. f = [sign |-> x.sign, exp |-> g, mant |-> k]
    <3>1. 126 + e + l + 0 = g
      BY <1>1, <1>2
    <3> QED
      BY <2>1, <3>1
  <2> HIDE DEF g, k, f
  <2>4. f \in Float /\ RoundedNearest(f) = Signed(f, NearestHalf(k + 2^23, g - 150))
    <3>1. x.sign \in {0, 1} /\ g \in NormalExponents /\ k \in Mantissas
      BY <1>1, <2>2
    <3> QED
      BY ONLY <2>3, <3>1, NormalFloat
  <2>5. RoundedNearest(f) = Signed(x, NearestHalf(n, e))
    BY <1>4, <1>5, <2>2, <2>3, <2>4, SignedBySign
  <2>6. UndefinedShift(f) => e + l - 1 \in -38 .. -33
    BY <1>1, <1>2, <2>3 DEF UndefinedShift, g
  <2> QED
    BY <1>3, <2>4, <2>5, <2>6 DEF RoundedOnce
<1>6. CASE m = 2^24
  <2>1. m \div 2^24 = 1 /\ m % 2^23 = 0
    BY <1>6
  <2> DEFINE g == 127 + e + l
             k == 0
  <2>2. g \in NormalExponents /\ k \in Mantissas /\ k + 2^23 = 2^23 /\ g - 150 = e + l - 23
    BY <1>1, <1>2, <1>4, <1>6 DEF NormalExponents, Mantissas
  <2>3. f = [sign |-> x.sign, exp |-> g, mant |-> k]
    <3>1. 126 + e + l + 1 = g
      BY <1>1, <1>2
    <3> QED
      BY <2>1, <3>1
  <2> HIDE DEF g, k, f
  <2>4. f \in Float /\ RoundedNearest(f) = Signed(f, NearestHalf(k + 2^23, g - 150))
    <3>1. x.sign \in {0, 1} /\ g \in NormalExponents /\ k \in Mantissas
      BY <1>1, <2>2
    <3> QED
      BY ONLY <2>3, <3>1, NormalFloat
  <2>5. RoundedNearest(f) = Signed(x, NearestHalf(n, e))
    BY <1>4, <1>6, <2>2, <2>3, <2>4, SignedBySign
  <2>6. ~UndefinedShift(f)
    BY <1>1, <1>2, <1>4, <1>6, <2>3 DEF UndefinedShift, g
  <2> QED
    BY <1>3, <2>4, <2>5, <2>6 DEF RoundedOnce
<1> QED
  BY <1>4, <1>5, <1>6

-----------------------------------------------------------------------------
(* The numbers of halves and the results of their operations. *)
ElevenBits == 1024 .. 2047

(* What a half stands for: a number of eleven bits, a zero, an infinity or *)
(* nothing.                                                                *)
Nonzeros  == [kind : {"finite"}, sign : {0, 1}, n : ElevenBits, e : -34 .. 5]
Zeros     == [kind : {"finite"}, sign : {0, 1}, n : {0}, e : Int]
Infinites == [kind : {"infinite"}, sign : {0, 1}, n : {0}, e : {0}]

OperandNumbers == Nonzeros \cup Zeros \cup Infinites \cup {NoNumber}

(* What an operation has as its exact result, by the lemmas below.         *)
Results == {x \in ExactNumbers : IsSafe(x)} \cup Zeros \cup Infinites \cup {NoNumber}

LEMMA ShortSafe ==
  ASSUME NEW x \in ExactNumbers, x.n < 2^24
  PROVE  x \in Results
<1> DEFINE n == x.n
           l == BitLength(n)
<1>1. n \in 1 .. 2^30 - 1 /\ n < 2^24
  BY DEF ExactNumbers
<1>2. l \in 1 .. 30 /\ Pow2(l - 1) <= n
  BY <1>1, BitLengthOf
<1> HIDE DEF n, l
<1>3. l <= 24
  <2> SUFFICES ASSUME l > 24 PROVE FALSE
    BY <1>2
  <2>1. l - 1 = 24 \/ 2 * Pow2(24) <= Pow2(l - 1)
    BY <1>2, PowerMonotonic
  <2> QED
    BY <1>1, <1>2, <2>1, PowerValues
<1>4. IsSafe(x)
  BY <1>2, <1>3 DEF IsSafe, n, l
<1> QED
  BY <1>4 DEF Results

LEMMA NearMultiple ==
  ASSUME NEW c \in 1 .. 6, NEW N \in Nat, NEW k \in Nat,
         (k * 8192) * Pow2(c) - 4094 <= N, N <= (k * 8192) * Pow2(c) + 4094
  PROVE  NearestEven(N, c) % 8192 # 4096
<1> DEFINE u == Pow2(c)
           g == k * 8192
           v == NearestEven(N, c)
           a == g - 2048
           b == g + 2048
<1>1. u \in Nat /\ u >= 2
  <2>1. c = 1 \/ 2 * Pow2(1) <= Pow2(c)
    BY PowerMonotonic
  <2> QED
    BY <2>1, PowerValues, PowerPositive
<1>2. g \in Nat /\ g * u \in Nat /\ c \in 0 .. 30
  BY <1>1
<1>3. a \in Int /\ b \in Nat /\ a * Pow2(c) <= N /\ N <= b * Pow2(c)
  <2>1. (g - 2048) * u = g * u - 2048 * u /\ (g + 2048) * u = g * u + 2048 * u
    BY <1>1, <1>2
  <2>2. 2048 * u >= 4096 /\ 2048 * u \in Nat
    BY <1>1
  <2>3. g * u - 4094 <= N /\ N <= g * u + 4094
    OBVIOUS
  <2>4. a * u <= N /\ N <= b * u
    <3> HIDE DEF g, u
    <3> QED
      BY <1>2, <2>1, <2>2, <2>3
  <2> QED
    BY <1>2, <2>4
<1>4. v \in Nat
  <2>1. c \in 0 .. 30
    OBVIOUS
  <2> QED
    BY ONLY <2>1, N \in Nat, NearestEvenType
<1>5. a <= v /\ v <= b
  <2> HIDE DEF a, b
  <2> QED
    BY <1>2, <1>3, NearestEvenBetween
<1> HIDE DEF v
<1>6. CASE v >= g
  <2>1. v = k * 8192 + (v - g) /\ v - g \in 0 .. 2048
    BY <1>4, <1>5, <1>6
  <2>2. v % 8192 = v - g
    BY <2>1
  <2> QED
    BY <2>1, <2>2 DEF v
<1>7. CASE v < g
  <2>1. v = (k - 1) * 8192 + (8192 - (g - v)) /\ g - v \in 1 .. 2048 /\ k - 1 \in Nat
    BY <1>4, <1>5, <1>7
  <2>2. v % 8192 = 8192 - (g - v)
    BY <2>1
  <2> QED
    BY <2>1, <2>2 DEF v
<1> QED
  BY <1>2, <1>4, <1>6, <1>7

(* n is h * 2^t but for its last twelve bits. *)
Near(n, h, t) == h * Pow2(t) - 4094 <= n /\ n <= h * Pow2(t) + 4094

(* The first rounding of n makes no tie thirteen bits further up. *)
LongSafe(n) == BitLength(n) > 24 => NoTie(n, BitLength(n) - 24, 13)

(* A sum of more than 24 bits is the larger operand, followed by thirteen  *)
(* zeros and more, and the smaller one within the last twelve bits.        *)
LEMMA LongSumSafe ==
  ASSUME NEW h \in ElevenBits, NEW t \in 1 .. 18, NEW N \in ThirtyBits,
         Near(N, h, t)
  PROVE  LongSafe(N)
<1> SUFFICES ASSUME BitLength(N) > 24 PROVE NoTie(N, BitLength(N) - 24, 13)
  BY DEF LongSafe
<1> USE DEF ElevenBits
<1> DEFINE l == BitLength(N)
           c == l - 24
           p == Pow2(t)
           A == h * p
<1>1. l \in 25 .. 30 /\ Pow2(l - 1) <= N /\ N < Pow2(l)
  <2>1. Spans(l, N)
    BY BitLengthSpans
  <2> QED
    BY <2>1 DEF Spans
<1>2. p \in Nat \ {0} /\ A \in Nat /\ N \in Nat
  <2>1. t \in 0 .. 30
    OBVIOUS
  <2> QED
    BY <2>1, PowerPositive DEF ThirtyBits
<1>0. A - 4094 <= N /\ N <= A + 4094
  BY DEF Near
<1> HIDE DEF l, A
<1>3. N >= 2^24
  <2>1. l - 1 = 24 \/ 2 * Pow2(24) <= Pow2(l - 1)
    BY <1>1, PowerMonotonic
  <2> QED
    BY <1>1, <1>2, <2>1, PowerValues
<1>4. t \in 14 .. 18
  <2> SUFFICES ASSUME t <= 13 PROVE FALSE
    OBVIOUS
  <2>1. p <= 8192
    <3>1. t = 13 \/ 2 * p <= Pow2(13)
      BY PowerMonotonic
    <3> QED
      BY <1>2, <3>1, PowerValues
  <2>2. A <= 2047 * 8192
    <3>1. A <= 2047 * p
      BY <1>2 DEF A
    <3> QED
      BY <1>2, <2>1, <3>1
  <2> HIDE DEF p
  <2> QED
    BY ONLY <1>0, <1>2, <1>3, <2>2
<1>5. N < 2048 * p
  <2>1. p >= 16384
    <3>1. t = 14 \/ 2 * Pow2(14) <= p
      BY <1>4, PowerMonotonic
    <3> QED
      BY <1>2, <3>1, PowerValues
  <2>2. A <= 2047 * p
    BY <1>2 DEF A
  <2> HIDE DEF p
  <2> QED
    BY ONLY <1>0, <1>2, <2>1, <2>2
<1>6. l <= t + 11
  <2> SUFFICES ASSUME l - 1 >= t + 11 PROVE FALSE
    BY <1>1
  <2>1. t + 11 \in 0 .. 30 /\ l - 1 \in 0 .. 30 /\ t \in 0 .. 30 /\ 11 \in 0 .. 30 /\ t + 11 <= 30
    BY <1>1, <1>4
  <2>2. Pow2(t + 11) = p * Pow2(11)
    BY <2>1, PowerSum
  <2>3. l - 1 = t + 11 \/ 2 * Pow2(t + 11) <= Pow2(l - 1)
    BY <2>1, PowerMonotonic
  <2>4. Pow2(t + 11) = 2048 * p
    BY <1>2, <2>2, PowerValues
  <2> QED
    <3>1. Pow2(l - 1) \in Nat /\ Pow2(t + 11) \in Nat
      BY <2>1, PowerPositive
    <3>2. Pow2(l - 1) >= Pow2(t + 11)
      BY <2>3, <3>1
    <3> QED
      BY <1>1, <1>2, <1>5, <2>4, <3>1, <3>2
<1>7. c \in 1 .. 6 /\ c + 13 <= t
  BY <1>1, <1>6
<1> DEFINE i == t - 13 - c
           g == h * Pow2(i) * 8192
           u == Pow2(c)
<1>8. p = Pow2(i) * 8192 * u /\ Pow2(i) \in Nat /\ u \in Nat /\ u >= 2
  <2>1. i \in 0 .. 30 /\ i + 13 \in 0 .. 30 /\ c \in 0 .. 30 /\ 13 \in 0 .. 30
        /\ i + 13 <= 30 /\ (i + 13) + c <= 30 /\ (i + 13) + c = t
    BY <1>4, <1>7
  <2> HIDE DEF i, c
  <2>2. Pow2(i + 13) = Pow2(i) * Pow2(13)
    BY <2>1, PowerSum
  <2>3. Pow2((i + 13) + c) = Pow2(i + 13) * u
    BY <2>1, PowerSum
  <2>4. c = 1 \/ 2 * Pow2(1) <= u
    BY <1>7, <2>1, PowerMonotonic
  <2>5. Pow2(i) \in Nat /\ u \in Nat
    BY <2>1, PowerPositive
  <2> QED
    BY <2>1, <2>2, <2>3, <2>4, <2>5, PowerValues
<1>9. g \in Nat /\ A = g * u
  BY <1>8 DEF A
<1>10. NearestEven(N, c) % 8192 # 4096
  <2> DEFINE k == h * Pow2(i)
  <2>1. k \in Nat /\ A = (k * 8192) * u
    BY <1>8, <1>9
  <2>2. (k * 8192) * Pow2(c) - 4094 <= N /\ N <= (k * 8192) * Pow2(c) + 4094
    BY <1>0, <2>1
  <2> HIDE DEF k, c
  <2> QED
    BY <1>2, <1>7, <2>1, <2>2, NearMultiple
<1> QED
  BY <1>10, PowerValues DEF NoTie, l

(* What the long division leaves is less than one unit of the divisor. *)
QuotientOf(N, X, Y) == X * 2^27 - Y < Y * N /\ Y * N < X * 2^27 + Y

(* A quotient that rounds to a multiple of 2^12 is that multiple: the      *)
(* divisor is too short for it to be anything nearby.                      *)
LEMMA QuotientExact ==
  ASSUME NEW X \in ElevenBits, NEW Y \in ElevenBits, NEW N \in Nat, QuotientOf(N, X, Y),
         NEW c \in 1 .. 4, NEW g \in Nat, NearestEven(N, c) = g * 4096
  PROVE  N = (g * 4096) * Pow2(c)
<1> USE DEF ElevenBits, QuotientOf
<1> DEFINE u == Pow2(c)
           m == (g * 4096) * u
           x == X * 2^27
           z == Y * m
           w == Y * N
<1>1. u \in {2, 4, 8, 16}
  <2>1. c = 1 \/ c = 2 \/ c = 3 \/ c = 4
    OBVIOUS
  <2> QED
    BY <2>1, PowerValues
<1>2. m \in Nat /\ x \in Nat /\ z \in Nat /\ w \in Nat /\ x - Y < w /\ w < x + Y
  <2>1. u \in Nat
    BY <1>1
  <2> HIDE DEF u
  <2>2. m \in Nat
    BY <2>1
  <2> HIDE DEF m
  <2> QED
    BY <2>2
<1>3. 2 * m <= 2 * N + u /\ 2 * N <= 2 * m + u
  <2>1. c \in 0 .. 30
    OBVIOUS
  <2>2. /\ 2 * (NearestEven(N, c) * Pow2(c)) <= 2 * N + Pow2(c)
        /\ 2 * N <= 2 * (NearestEven(N, c) * Pow2(c)) + Pow2(c)
    BY <2>1, NearestEvenDistance
  <2> QED
    BY <2>2
<1> HIDE DEF m, u
<1>4. 2 * z <= 2 * w + Y * u /\ 2 * w <= 2 * z + Y * u /\ Y * u \in Nat
  <2>1. Y * (2 * m) <= Y * (2 * N + u) /\ Y * (2 * N) <= Y * (2 * m + u)
    BY <1>1, <1>2, <1>3
  <2>2. Y * (2 * m) = 2 * z /\ Y * (2 * N + u) = 2 * w + Y * u /\ Y * (2 * N) = 2 * w
        /\ Y * (2 * m + u) = 2 * z + Y * u /\ Y * u \in Nat
    BY <1>1, <1>2
  <2> QED
    BY <2>1, <2>2
<1>5. \E i \in Int : x - z = i * (4096 * u)
  <2>1. \E k \in Nat : 2^27 = k * (4096 * u)
    <3>1. 2^27 = 16384 * (4096 * 2) /\ 2^27 = 8192 * (4096 * 4)
          /\ 2^27 = 4096 * (4096 * 8) /\ 2^27 = 2048 * (4096 * 16)
      OBVIOUS
    <3> QED
      BY <1>1, <3>1
  <2>2. PICK k \in Nat : 2^27 = k * (4096 * u)
    BY <2>1
  <2> DEFINE p == 4096 * u
             i == X * k - Y * g
  <2>3. p \in Nat /\ x = X * (k * p) /\ m = g * p
    BY <1>1, <2>2 DEF m
  <2> HIDE DEF p
  <2>4. i \in Int /\ x - z = i * p
    BY <2>3
  <2> HIDE DEF i
  <2> QED
    BY <2>4 DEF p
<1>6. x = z
  <2>1. PICK i \in Int : x - z = i * (4096 * u)
    BY <1>5
  <2> HIDE DEF x, z, w
  <2>2. Y * u <= 2047 * u
    BY <1>1
  <2>3. 2 * (x - z) < 8192 * u /\ -(8192 * u) < 2 * (x - z)
    <3>1. CASE u = 2
      BY <1>2, <1>4, <2>2, <3>1
    <3>2. CASE u # 2
      BY <1>1, <1>2, <1>4, <2>2, <3>2
    <3> QED
      BY <3>1, <3>2
  <2>4. i = 0
    BY <1>1, <2>1, <2>3
  <2>5. x - z = 0 * (4096 * u) /\ 0 * (4096 * u) = 0
    BY <1>1, <2>1, <2>4
  <2> QED
    BY <1>2, <2>5
<1>7. Y * N < Y * (m + 1) /\ Y * (m - 1) < Y * N
  <2>1. Y * (m + 1) = z + Y /\ Y * (m - 1) = z - Y
    BY <1>2
  <2> QED
    BY <1>2, <1>6, <2>1
<1>8. N < m + 1 /\ m - 1 < N
  BY <1>2, <1>7
<1>9. N = m
  BY <1>2, <1>8
<1> QED
  BY <1>9 DEF m, u

-----------------------------------------------------------------------------
(* The results of the four operations.  First the sum: what Cut leaves of  *)
(* the smaller operand, in twelve bits.                                    *)
CutParts == 0 .. 4094

LEMMA CutBound ==
  ASSUME NEW n \in ElevenBits, NEW k \in 0 .. 22
  PROVE  Cut(n, k) \in CutParts
<1> USE DEF ElevenBits, CutParts
<1> DEFINE p == Pow2(k)
<1>1. p \in Nat \ {0} /\ (p = 1 \/ p >= 2)
  BY PowerPositive
<1> HIDE DEF p
<1>2. n \div p \in Nat /\ n % p \in Nat /\ n = (n \div p) * p + (n % p)
  BY <1>1, Division
<1>0. Cut(n, k) = 2 * (n \div p) + (IF n % p = 0 THEN 0 ELSE 1)
  BY DEF Cut, p
<1>3. CASE p = 1
  <2>1. n \div 1 = n /\ n % 1 = 0
    OBVIOUS
  <2> QED
    BY <1>0, <1>3, <2>1
<1>4. CASE p >= 2
  <2>1. (n \div p) * 2 <= (n \div p) * p
    BY <1>1, <1>2, <1>4
  <2>2. n \div p <= 1023
    BY <1>1, <1>2, <2>1
  <2> DEFINE a == n \div p
             b == n % p
  <2>3. a \in 0 .. 1023
    BY <1>2, <2>2
  <2> HIDE DEF a, b
  <2>4. 2 * a + (IF b = 0 THEN 0 ELSE 1) \in 0 .. 4094
    BY <2>3
  <2>5. Cut(n, k) = 2 * a + (IF b = 0 THEN 0 ELSE 1)
    BY <1>0 DEF a, b
  <2> QED
    BY <2>4, <2>5
<1> QED
  BY <1>1, <1>3, <1>4

LEMMA NumberIs ==
  ASSUME NEW s, NEW n, NEW e
  PROVE  /\ Number(s, n, e).kind = "finite" /\ Number(s, n, e).sign = s
         /\ Number(s, n, e).n = n /\ Number(s, n, e).e = e
  BY DEF Number

LEMMA ZeroNumber ==
  ASSUME NEW s \in {0, 1}, NEW e \in Int
  PROVE  Number(s, 0, e) \in Zeros
  BY DEF Number, Zeros

LEMMA ExactNumber ==
  ASSUME NEW s \in {0, 1}, NEW n \in ThirtyBits, NEW e, e \in -70 .. 20
  PROVE  Number(s, n, e) \in ExactNumbers
  BY DEF Number, ExactNumbers, ThirtyBits

LEMMA NonzerosAreResults == Nonzeros \subseteq Results
<1> SUFFICES ASSUME NEW x \in Nonzeros PROVE x \in Results
  OBVIOUS
<1>1. x \in ExactNumbers /\ x.n < 2^24
  <2>1. x = [kind |-> "finite", sign |-> x.sign, n |-> x.n, e |-> x.e]
    BY DEF Nonzeros
  <2>2. x.sign \in {0, 1} /\ x.n \in 1024 .. 2047 /\ x.e \in -34 .. 5
    BY DEF Nonzeros, ElevenBits
  <2>3. x.n \in ThirtyBits /\ x.e \in -70 .. 20 /\ x.n < 2^24
    <3> DEFINE n == x.n
    <3>1. n \in 1024 .. 2047
      BY <2>2
    <3> HIDE DEF n
    <3>2. n \in ThirtyBits /\ n < 2^24
      BY <3>1 DEF ThirtyBits
    <3>3. x.e \in -70 .. 20
      BY <2>2
    <3> QED
      BY <3>2, <3>3 DEF n
  <2>4. x = Number(x.sign, x.n, x.e)
    BY <2>1 DEF Number
  <2>5. Number(x.sign, x.n, x.e) \in ExactNumbers
    BY <2>2, <2>3, ExactNumber
  <2> QED
    BY <2>3, <2>4, <2>5
<1> QED
  BY <1>1, ShortSafe

(* The total of A and L with either sign each. *)
TotalOf(total, A, L) ==
  total \in Int /\ total \in {A + L, A - L, L - A, -A - L}

(* The sum of two numbers whose lowest bits are t and no bits apart. *)
LEMMA AlignedSum ==
  ASSUME NEW h \in ElevenBits, NEW t \in 1 .. 18, NEW L \in CutParts, NEW e \in -35 .. 20,
         NEW total, TotalOf(total, h * Pow2(t), L)
  PROVE  Number(IF total < 0 THEN 1 ELSE 0, IF total < 0 THEN -total ELSE total, e) \in Results
<1> USE DEF CutParts
<1> DEFINE A == h * Pow2(t)
           N == IF total < 0 THEN -total ELSE total
           s == IF total < 0 THEN 1 ELSE 0
           x == Number(s, N, e)
<1>1. A \in Nat /\ A <= 2047 * 262144
  <2>1. t \in 0 .. 30
    OBVIOUS
  <2>2. Pow2(t) \in Nat /\ Pow2(t) <= 262144
    <3>1. Pow2(t) \in Nat
      BY <2>1, PowerPositive
    <3>2. t = 18 \/ 2 * Pow2(t) <= Pow2(18)
      BY PowerMonotonic
    <3> QED
      BY <3>1, <3>2, PowerValues
  <2> DEFINE p == Pow2(t)
  <2>3. p \in Nat /\ p <= 262144
    BY <2>2
  <2> HIDE DEF p
  <2>4. h * p \in Nat /\ h * p <= 2047 * p
    BY <2>3 DEF ElevenBits
  <2>5. h * p \in Nat /\ h * p <= 2047 * 262144
    BY <2>3, <2>4
  <2> QED
    BY <2>5 DEF p
<1>2. total \in Int /\ total \in {A + L, A - L, L - A, -A - L}
  BY DEF TotalOf
<1> HIDE DEF A
<1>3. N \in Nat /\ A - 4094 <= N /\ N <= A + 4094
  <2>1. CASE total = A + L
    BY <1>1, <2>1
  <2>2. CASE total = A - L
    BY <1>1, <2>2
  <2>3. CASE total = L - A
    BY <1>1, <2>3
  <2>4. CASE total = -A - L
    BY <1>1, <2>4
  <2> QED
    BY <1>2, <2>1, <2>2, <2>3, <2>4
<1>4. s \in {0, 1} /\ e \in Int /\ e \in -70 .. 20
  OBVIOUS
<1> HIDE DEF N, s
<1>5. CASE N = 0
  <2>1. Number(s, 0, e) \in Zeros
    BY <1>4, ZeroNumber
  <2> QED
    BY <1>5, <2>1 DEF Results, N, s
<1>6. CASE N # 0
  <2>1. N \in 1 .. 2^30 - 1
    BY <1>1, <1>3, <1>6
  <2>0. N \in ThirtyBits
    BY <2>1 DEF ThirtyBits
  <2>2. x \in ExactNumbers
    BY <1>4, <2>0, ExactNumber
  <2>3. x.n = N /\ x.e = e
    BY NumberIs
  <2>4. IsSafe(x)
    <3> DEFINE l == BitLength(N)
    <3> SUFFICES ASSUME l > 24 PROVE Safe(N, e, l)
      BY <2>3 DEF IsSafe
    <3>1. NoTie(N, l - 24, 13)
      <4>1. Near(N, h, t)
        BY <1>3 DEF A, Near
      <4>2. LongSafe(N)
        BY <2>0, <4>1, LongSumSafe
      <4> QED
        BY <4>2 DEF LongSafe
    <3>2. l \in 1 .. 30
      <4>2. Spans(l, N)
        BY <2>0, BitLengthSpans
      <4> QED
        BY <4>2 DEF Spans
    <3> HIDE DEF l
    <3>3. e + l - 1 >= -14
      BY <3>2
    <3> QED
      BY <3>1, <3>3 DEF Safe
  <2> QED
    BY <2>2, <2>4 DEF Results, N, s
<1> QED
  BY <1>3, <1>5, <1>6

(* Sum of two numbers other than zero, the one of the higher lowest bit    *)
(* first.                                                                  *)
Aligned(high, low) ==
  LET d     == high.e - low.e
      cut   == IF d > 17 THEN d - 17 ELSE 0
      value(z, n) == IF z.sign = 1 THEN -n ELSE n
      total == value(high, high.n * Pow2(d - cut + 1)) + value(low, Cut(low.n, cut))
  IN  Number(IF total < 0 THEN 1 ELSE 0, IF total < 0 THEN -total ELSE total, low.e + cut - 1)

LEMMA AlignedResult ==
  ASSUME NEW high \in Nonzeros, NEW low \in Nonzeros, high.e >= low.e
  PROVE  Aligned(high, low) \in Results
<1> DEFINE d   == high.e - low.e
           cut == IF d > 17 THEN d - 17 ELSE 0
           t   == d - cut + 1
           h   == high.n
           L   == Cut(low.n, cut)
           p   == Pow2(t)
           e   == low.e + cut - 1
           A   == h * p
           a   == IF high.sign = 1 THEN -A ELSE A
           b   == IF low.sign = 1 THEN -L ELSE L
           total == a + b
<1>1. high.e \in -34 .. 5 /\ low.e \in -34 .. 5 /\ h \in ElevenBits /\ low.n \in ElevenBits
  BY DEF Nonzeros
<1>2. d \in 0 .. 39
  BY <1>1
<1> HIDE DEF d
<1>3. cut \in 0 .. 22 /\ t \in 1 .. 18
  BY <1>2
<1>4. e \in -35 .. 20
  <2>1. CASE d > 17
    <3>1. e = high.e - 18 /\ high.e >= -16
      BY <1>1, <2>1 DEF d
    <3> HIDE DEF e
    <3> QED
      BY <1>1, <3>1
  <2>2. CASE ~(d > 17)
    <3>1. e = low.e - 1
      BY <1>1, <2>2
    <3> QED
      BY <1>1, <3>1
  <2> QED
    BY <2>1, <2>2
<1>5. L \in CutParts
  <2> HIDE DEF cut
  <2> QED
    BY <1>1, <1>3, CutBound
<1>6. Aligned(high, low)
        = Number(IF total < 0 THEN 1 ELSE 0, IF total < 0 THEN -total ELSE total, e)
  BY DEF Aligned, d
<1> HIDE DEF cut, t, h, L, e
<1>7. A \in Int
  <2>1. h \in Int
    BY <1>1 DEF ElevenBits
  <2>2. p \in Int
    BY <1>3, PowerPositive
  <2> HIDE DEF p
  <2> QED
    BY <2>1, <2>2
<1> HIDE DEF A
<1>8. TotalOf(total, A, L)
  <2> USE DEF TotalOf, CutParts
  <2>1. CASE high.sign = 1 /\ low.sign = 1
    BY <1>5, <1>7, <2>1
  <2>2. CASE high.sign = 1 /\ low.sign # 1
    BY <1>5, <1>7, <2>2
  <2>3. CASE high.sign # 1 /\ low.sign = 1
    BY <1>5, <1>7, <2>3
  <2>4. CASE high.sign # 1 /\ low.sign # 1
    BY <1>5, <1>7, <2>4
  <2> QED
    BY <2>1, <2>2, <2>3, <2>4
<1> HIDE DEF total
<1>9. TotalOf(total, h * Pow2(t), L)
  BY <1>8 DEF A
<1> QED
  BY <1>1, <1>3, <1>4, <1>5, <1>6, <1>8, <1>9, AlignedSum

LEMMA SumResult ==
  ASSUME NEW x \in Nonzeros \cup Zeros, NEW y \in Nonzeros \cup Zeros
  PROVE  Sum(x, y) \in Results
<1>1. \A z \in Nonzeros : z.n # 0 /\ z.e \in Int
  BY DEF Nonzeros, ElevenBits
<1>2. \A z \in Zeros : z.n = 0 /\ z.sign \in {0, 1}
  BY DEF Zeros
<1>3. CASE x \in Zeros /\ y \in Zeros
  <2>1. Sum(x, y) = Number(x.sign * y.sign, 0, 0)
    BY <1>2, <1>3 DEF Sum
  <2>2. x.sign * y.sign \in {0, 1} /\ 0 \in Int
    BY <1>2, <1>3
  <2> QED
    BY <2>1, <2>2, ZeroNumber DEF Results
<1>4. CASE x \in Zeros /\ y \in Nonzeros
  <2>1. Sum(x, y) = y
    BY <1>1, <1>2, <1>4 DEF Sum
  <2> QED
    BY <1>4, <2>1, NonzerosAreResults
<1>5. CASE x \in Nonzeros /\ y \in Zeros
  <2>1. Sum(x, y) = x
    BY <1>1, <1>2, <1>5 DEF Sum
  <2> QED
    BY <1>5, <2>1, NonzerosAreResults
<1>6. CASE x \in Nonzeros /\ y \in Nonzeros
  <2>1. x.n # 0 /\ y.n # 0
    BY <1>1, <1>6
  <2>2. CASE x.e >= y.e
    <3>1. Sum(x, y) = Aligned(x, y)
      BY <2>1, <2>2 DEF Sum, Aligned
    <3> QED
      BY <1>6, <2>2, <3>1, AlignedResult
  <2>3. CASE ~(x.e >= y.e)
    <3>1. Sum(x, y) = Aligned(y, x)
      BY <2>1, <2>3 DEF Sum, Aligned
    <3>2. y.e >= x.e
      BY <1>1, <1>6, <2>3
    <3> QED
      BY <1>6, <3>1, <3>2, AlignedResult
  <2> QED
    BY <2>2, <2>3
<1> QED
  BY <1>3, <1>4, <1>5, <1>6

(* The product of two numbers of eleven bits fits a float.                 *)
LEMMA ProductResult ==
  ASSUME NEW x \in Nonzeros, NEW y \in Nonzeros, NEW s \in {0, 1}
  PROVE  Number(s, x.n * y.n, x.e + y.e) \in Results
<1> DEFINE n == x.n * y.n
           e == x.e + y.e
<1>1. x.n \in 1024 .. 2047 /\ y.n \in 1024 .. 2047 /\ x.e \in -34 .. 5 /\ y.e \in -34 .. 5
  BY DEF Nonzeros, ElevenBits
<1>2. n \in Nat /\ n >= 1 /\ n <= 2047 * 2047
  <2> DEFINE a == x.n
             b == y.n
  <2>1. a \in 1024 .. 2047 /\ b \in 1024 .. 2047
    BY <1>1
  <2> HIDE DEF a, b
  <2>2. a * b >= 1024 * 1024 /\ a * b <= 2047 * b /\ a * b \in Nat
    BY <2>1
  <2>3. a * b \in Nat /\ a * b >= 1 /\ a * b <= 2047 * 2047
    BY <2>1, <2>2
  <2> QED
    BY <2>3 DEF a, b
<1>3. e \in -70 .. 20
  BY <1>1
<1> HIDE DEF n, e
<1>4. n \in ThirtyBits /\ n < 2^24
  BY <1>2 DEF ThirtyBits
<1>5. Number(s, n, e) \in ExactNumbers /\ Number(s, n, e).n = n
  BY <1>3, <1>4, ExactNumber, NumberIs
<1>6. Number(s, n, e) \in Results
  BY <1>4, <1>5, ShortSafe
<1> QED
  BY <1>6 DEF n, e

(* The division in two steps is exact up to its odd last bit. *)
LEMMA LongDivision ==
  ASSUME NEW X \in ElevenBits, NEW Y \in ElevenBits
  PROVE  LET first  == X * 2^13
             second == (first % Y) * 2^13
             N == 2 * ((first \div Y) * 2^13 + (second \div Y)) + (IF second % Y = 0 THEN 0 ELSE 1)
         IN  N \in Nat /\ QuotientOf(N, X, Y)
<1> DEFINE first  == X * 2^13
           a == first \div Y
           b == first % Y
           second == b * 2^13
           c == second \div Y
           r == second % Y
           q == a * 2^13 + c
           i == IF r = 0 THEN 0 ELSE 1
           N == 2 * q + i
<1>1. X \in Nat /\ Y \in Nat \ {0} /\ first \in Nat
  BY DEF ElevenBits
<1>2. a \in Nat /\ b \in Nat /\ first = a * Y + b
  <2> HIDE DEF first
  <2> QED
    BY <1>1, Division
<1> HIDE DEF a, b
<1>3. second \in Nat
  BY <1>2
<1>4. c \in Nat /\ r \in Nat /\ r < Y /\ second = c * Y + r
  <2> HIDE DEF second
  <2> QED
    BY <1>1, <1>3, Division
<1> HIDE DEF c, r
<1>5. q \in Nat /\ q * Y = X * 2^26 - r
  <2>1. q * Y = (a * Y) * 2^13 + c * Y
    BY <1>1, <1>2, <1>4
  <2>2. a * Y = first - b /\ c * Y = second - r
    BY <1>1, <1>2, <1>3, <1>4
  <2>3. q * Y = (X * 8192 - b) * 8192 + (b * 8192 - r)
    BY <2>1, <2>2
  <2>4. (X * 8192 - b) * 8192 + (b * 8192 - r) = X * 2^26 - r
    BY <1>1, <1>2, <1>4
  <2> QED
    BY <1>2, <1>4, <2>3, <2>4
<1> HIDE DEF q
<1>6. Y * N = 2 * (q * Y) + i * Y
  BY <1>1, <1>5
<1>7. N \in Nat /\ QuotientOf(N, X, Y)
  <2>1. CASE r = 0
    <3>1. Y * N = X * 2^27
      BY <1>1, <1>5, <1>6, <2>1
    <3> QED
      BY <1>1, <1>5, <2>1, <3>1 DEF QuotientOf
  <2>2. CASE r # 0
    <3>1. Y * N = X * 2^27 - 2 * r + Y
      BY <1>1, <1>4, <1>5, <1>6, <2>2
    <3> QED
      BY <1>1, <1>4, <1>5, <2>2, <3>1 DEF QuotientOf
  <2> QED
    BY <2>1, <2>2
<1> QED
  BY <1>7 DEF q, a, b, c, r

LEMMA QuotientBounds ==
  ASSUME NEW X \in ElevenBits, NEW Y \in ElevenBits, NEW N \in Nat, QuotientOf(N, X, Y)
  PROVE  N \in ThirtyBits /\ N < 2^28
<1>1. X \in 1024 .. 2047 /\ Y \in 1024 .. 2047 /\ X * 2^27 - Y < Y * N /\ Y * N < X * 2^27 + Y
  BY DEF ElevenBits, QuotientOf
<1>2. N # 0
  BY <1>1
<1>3. 1024 * N <= Y * N
  BY <1>1
<1>4. 1024 * N < 2047 * 2^27 + 2047
  BY <1>1, <1>3
<1> QED
  BY <1>2, <1>4 DEF ThirtyBits

(* So the first rounding of a quotient makes no tie for the second,        *)
(* wherever a half rounds it, unless it rounds nothing.                    *)
LEMMA QuotientNoTie ==
  ASSUME NEW X \in ElevenBits, NEW Y \in ElevenBits, NEW N \in Nat, QuotientOf(N, X, Y),
         NEW c \in 1 .. 4, NEW d \in 13 .. 28
  PROVE  NoTie(N, c, d)
<1> DEFINE v == NearestEven(N, c)
<1> SUFFICES ASSUME v % Pow2(d) = Pow2(d - 1) PROVE N % Pow2(c) = 0
  BY DEF NoTie
<1>1. X \in 1024 .. 2047 /\ Y \in 1024 .. 2047 /\ X * 2^27 - Y < Y * N /\ Y * N < X * 2^27 + Y
  BY DEF ElevenBits, QuotientOf
<1>2. c \in 0 .. 30 /\ v \in Nat
  <2>1. c \in 0 .. 30
    OBVIOUS
  <2> QED
    BY ONLY <2>1, N \in Nat, NearestEvenType
<1> HIDE DEF v
<1>3. \E g \in Nat : v = g * 4096
  <2>1. PICK i \in 0 .. 15 : i = d - 13
    OBVIOUS
  <2>2. Pow2(d) = Pow2(i) * 8192 /\ Pow2(d - 1) = Pow2(i) * 4096 /\ Pow2(i) \in Nat \ {0}
    <3>1. i \in 0 .. 30 /\ 12 \in 0 .. 30 /\ 13 \in 0 .. 30 /\ i + 12 = d - 1 /\ i + 13 = d
          /\ i + 12 <= 30 /\ i + 13 <= 30
      BY <2>1
    <3>2. Pow2(i + 12) = Pow2(i) * Pow2(12) /\ Pow2(i + 13) = Pow2(i) * Pow2(13)
      BY <3>1, PowerSum
    <3>3. Pow2(i) \in Nat \ {0}
      BY <3>1, PowerPositive
    <3> QED
      BY <3>1, <3>2, <3>3, PowerValues
  <2> DEFINE p == Pow2(i)
             w == v \div Pow2(d)
  <2>3. w \in Nat /\ v = w * (p * 8192) + p * 4096
    <3>1. Pow2(d) \in Nat \ {0}
      BY <2>2
    <3>2. w \in Nat /\ v = w * Pow2(d) + (v % Pow2(d))
      BY <1>2, <3>1, Division
    <3> QED
      BY <2>2, <3>2
  <2> HIDE DEF p, w
  <2>4. p \in Nat
    BY <2>2 DEF p
  <2>5. w * p * 2 + p \in Nat /\ v = (w * p * 2 + p) * 4096
    BY <2>3, <2>4
  <2> QED
    BY <2>5
<1>4. PICK g \in Nat : v = g * 4096
  BY <1>3
<1>5. N = (g * 4096) * Pow2(c)
  <2>1. NearestEven(N, c) = g * 4096
    BY <1>4 DEF v
  <2> QED
    BY <1>1, <2>1, QuotientExact
<1>6. Pow2(c) \in Nat \ {0} /\ g * 4096 \in Nat
  BY <1>2, PowerPositive
<1> DEFINE h == g * 4096
<1>7. h \in Nat /\ 0 \in Nat /\ 0 < Pow2(c) /\ N = h * Pow2(c) + 0
  BY <1>5, <1>6
<1> HIDE DEF h
<1> QED
  BY <1>6, <1>7, DivisionUnique

LEMMA QuotientShort ==
  ASSUME NEW X \in ElevenBits, NEW Y \in ElevenBits, NEW N \in Nat, QuotientOf(N, X, Y),
         NEW l \in 25 .. 28, N < Pow2(l)
  PROVE  NearestEven(N, l - 24) < 2^24
<1> DEFINE c == l - 24
<1>1. c \in 0 .. 30 /\ c \in 1 .. 4 /\ 24 \in 0 .. 30 /\ 24 + c = l
  OBVIOUS
<1>2. Pow2(l) = 2^24 * Pow2(c)
  BY <1>1, PowerSum, PowerValues
<1> HIDE DEF c
<1>3. NearestEven(N, c) <= 2^24 /\ NearestEven(N, c) \in Nat
  <2>1. N < 2^24 * Pow2(c) /\ 2^24 \in Nat
    BY <1>2
  <2>2. NearestEven(N, c) <= 2^24
    BY ONLY <1>1, <2>1, N \in Nat, NearestEvenBound
  <2>3. NearestEven(N, c) \in Nat
    BY ONLY <1>1, N \in Nat, NearestEvenType
  <2> QED
    BY <2>2, <2>3
<1>4. ASSUME NearestEven(N, c) = 2^24 PROVE FALSE
  <2>1. NearestEven(N, c) = 4096 * 4096 /\ 4096 \in Nat
    BY <1>4
  <2>2. N = (4096 * 4096) * Pow2(c)
    BY <1>1, <2>1, QuotientExact
  <2> QED
    BY <1>1, <1>2, <2>2, PowerPositive
<1> QED
  BY <1>3, <1>4 DEF c

LEMMA QuotientResult ==
  ASSUME NEW x \in Nonzeros, NEW y \in Nonzeros, NEW s \in {0, 1}
  PROVE  Quotient(s, x, y) \in Results
<1> DEFINE first  == x.n * 2^13
           second == (first % y.n) * 2^13
           N == 2 * ((first \div y.n) * 2^13 + (second \div y.n))
                  + (IF second % y.n = 0 THEN 0 ELSE 1)
           e == x.e - y.e - 27
           z == Number(s, N, e)
           l == BitLength(N)
<1>1. x.n \in ElevenBits /\ y.n \in ElevenBits /\ x.e \in -34 .. 5 /\ y.e \in -34 .. 5
  BY DEF Nonzeros
<1>2. Quotient(s, x, y) = z
  BY DEF Quotient
<1>3. N \in Nat /\ QuotientOf(N, x.n, y.n)
  BY <1>1, LongDivision
<1>4. e \in -70 .. 20
  BY <1>1
<1> HIDE DEF N, e
<1>5. N \in ThirtyBits /\ N < 2^28
  BY <1>1, <1>3, QuotientBounds
<1>6. z \in ExactNumbers /\ z.n = N /\ z.e = e
  BY <1>4, <1>5, ExactNumber, NumberIs
<1>7. l \in 1 .. 30 /\ Pow2(l - 1) <= N /\ N < Pow2(l)
  <2>1. Spans(l, N)
    BY <1>5, BitLengthSpans
  <2> QED
    BY <2>1 DEF Spans
<1> HIDE DEF l
<1>8. ASSUME l > 24 PROVE Safe(N, e, l)
  <2>1. l <= 28
    <3>1. l - 1 \in 0 .. 30 /\ 28 \in 0 .. 30
      BY <1>7
    <3>2. l - 1 < 28 \/ l - 1 = 28 \/ 2 * Pow2(28) <= Pow2(l - 1)
      BY <3>1, PowerMonotonic
    <3>3. Pow2(28) = 2^28 /\ Pow2(l - 1) \in Nat
      BY <3>1, PowerValues, PowerPositive
    <3> QED
      BY <1>3, <1>5, <1>7, <3>2, <3>3
  <2>2. l \in 25 .. 28 /\ l - 24 \in 1 .. 4 /\ 13 \in 13 .. 28
    BY <1>7, <1>8, <2>1
  <2>3. NearestEven(N, l - 24) < 2^24
    BY <1>1, <1>3, <1>7, <2>2, QuotientShort
  <2>4. \A d \in 13 .. 28 : NoTie(N, l - 24, d)
    BY <1>1, <1>3, <2>2, QuotientNoTie
  <2>5. e + l - 1 >= -14 \/ e + l - 1 < -14
    BY <1>4, <1>7
  <2> QED
    BY <2>1, <2>2, <2>3, <2>4, <2>5 DEF Safe
<1>9. IsSafe(z)
  BY <1>6, <1>8 DEF IsSafe, l
<1> QED
  BY <1>2, <1>6, <1>9 DEF Results

(* The operands that are numbers, and those with the infinities.           *)
FiniteNumbers == Nonzeros \cup Zeros
SomeNumbers   == FiniteNumbers \cup Infinites

LEMMA KindsOfNumbers ==
  /\ \A z \in Nonzeros  : Finite(z) /\ ~IsInf(z) /\ ~IsZero(z)
  /\ \A z \in Zeros     : Finite(z) /\ ~IsInf(z) /\ IsZero(z)
  /\ \A z \in Infinites : ~Finite(z) /\ IsInf(z) /\ ~IsZero(z)
  /\ \A z \in SomeNumbers : z.kind # "none" /\ z.sign \in {0, 1}
<1>1. \A z \in Nonzeros : z.kind = "finite" /\ z.n # 0 /\ z.sign \in {0, 1}
  BY DEF Nonzeros, ElevenBits
<1>2. \A z \in Zeros : z.kind = "finite" /\ z.n = 0 /\ z.sign \in {0, 1}
  BY DEF Zeros
<1>3. \A z \in Infinites : z.kind = "infinite" /\ z.sign \in {0, 1}
  BY DEF Infinites
<1> QED
  BY <1>1, <1>2, <1>3 DEF Finite, IsInf, IsZero, SomeNumbers, FiniteNumbers

LEMMA NegativeType == \A z \in SomeNumbers : Negative(z) \in SomeNumbers
<1>1. ASSUME NEW z \in Nonzeros PROVE Negative(z) \in Nonzeros
  BY DEF Negative, Nonzeros
<1>2. ASSUME NEW z \in Zeros PROVE Negative(z) \in Zeros
  BY DEF Negative, Zeros
<1>3. ASSUME NEW z \in Infinites PROVE Negative(z) \in Infinites
  BY DEF Negative, Infinites
<1> QED
  BY <1>1, <1>2, <1>3 DEF SomeNumbers, FiniteNumbers

LEMMA PlusResult ==
  ASSUME NEW x \in SomeNumbers, NEW y \in SomeNumbers
  PROVE  Plus(x, y) \in Results
<1>1. CASE x \in FiniteNumbers /\ y \in FiniteNumbers
  <2>1. Plus(x, y) = Sum(x, y)
    BY <1>1, KindsOfNumbers DEF Plus, FiniteNumbers
  <2> QED
    BY <1>1, <2>1, SumResult DEF FiniteNumbers
<1>2. CASE x \in Infinites
  <2>1. Plus(x, y) \in {x, NoNumber}
    BY <1>2, KindsOfNumbers DEF Plus
  <2> QED
    BY <1>2, <2>1 DEF Results
<1>3. CASE x \in FiniteNumbers /\ y \in Infinites
  <2>1. Plus(x, y) = y
    BY <1>3, KindsOfNumbers DEF Plus, FiniteNumbers
  <2> QED
    BY <1>3, <2>1 DEF Results
<1> QED
  BY <1>1, <1>2, <1>3 DEF SomeNumbers

LEMMA SignOfTwo ==
  ASSUME NEW x \in SomeNumbers, NEW y \in SomeNumbers
  PROVE  (x.sign + y.sign) % 2 \in {0, 1}
<1>1. x.sign \in {0, 1} /\ y.sign \in {0, 1}
  BY KindsOfNumbers DEF SomeNumbers, FiniteNumbers
<1> QED
  BY <1>1

LEMMA InfiniteResult ==
  ASSUME NEW s \in {0, 1}
  PROVE  Infinite(s) \in Infinites
  BY DEF Infinite, Infinites

LEMMA TimesResult ==
  ASSUME NEW x \in SomeNumbers, NEW y \in SomeNumbers
  PROVE  Times(x, y) \in Results
<1> DEFINE s == (x.sign + y.sign) % 2
<1>1. s \in {0, 1}
  BY SignOfTwo
<1> HIDE DEF s
<1>2. CASE x \in Nonzeros /\ y \in Nonzeros
  <2>1. Times(x, y) = Number(s, x.n * y.n, x.e + y.e)
    BY <1>2, KindsOfNumbers DEF Times, s
  <2> QED
    BY <1>1, <1>2, <2>1, ProductResult
<1>3. CASE x \in FiniteNumbers /\ y \in FiniteNumbers /\ (x \in Zeros \/ y \in Zeros)
  <2>1. Times(x, y) = Number(s, x.n * y.n, x.e + y.e)
    BY <1>3, KindsOfNumbers DEF Times, FiniteNumbers, s
  <2>2. x.e \in Int /\ y.e \in Int /\ x.n \in Int /\ y.n \in Int /\ (x.n = 0 \/ y.n = 0)
    BY <1>3 DEF FiniteNumbers, Nonzeros, Zeros, ElevenBits
  <2>3. x.n * y.n = 0 /\ x.e + y.e \in Int
    BY <2>2
  <2> QED
    BY <1>1, <2>1, <2>3, ZeroNumber DEF Results
<1>4. CASE x \in Infinites \/ y \in Infinites
  <2>1. Times(x, y) \in {NoNumber, Infinite(s)}
    BY <1>4, KindsOfNumbers DEF Times, s
  <2> QED
    BY <1>1, <2>1, InfiniteResult DEF Results
<1> QED
  BY <1>2, <1>3, <1>4 DEF SomeNumbers, FiniteNumbers

LEMMA OverResult ==
  ASSUME NEW x \in SomeNumbers, NEW y \in SomeNumbers
  PROVE  Over(x, y) \in Results
<1> DEFINE s == (x.sign + y.sign) % 2
<1>1. s \in {0, 1}
  BY SignOfTwo
<1> HIDE DEF s
<1>2. CASE x \in Nonzeros /\ y \in Nonzeros
  <2>1. Over(x, y) = Quotient(s, x, y)
    BY <1>2, KindsOfNumbers DEF Over, s
  <2> QED
    BY <1>1, <1>2, <2>1, QuotientResult
<1>3. CASE x \notin Nonzeros \/ y \notin Nonzeros
  <2>1. Over(x, y) \in {NoNumber, Infinite(s), Number(s, 0, 0)}
    BY <1>3, KindsOfNumbers DEF Over, SomeNumbers, FiniteNumbers, s
  <2> QED
    BY <1>1, <2>1, InfiniteResult, ZeroNumber DEF Results
<1> QED
  BY <1>2, <1>3

LEMMA ExactResult ==
  ASSUME NEW op \in Operator, NEW v \in OperandNumbers, NEW w \in OperandNumbers
  PROVE  Exact(op, v, w) \in Results
<1>1. CASE v.kind = "none" \/ w.kind = "none"
  BY <1>1 DEF Exact, Results
<1>2. CASE ~(v.kind = "none" \/ w.kind = "none")
  <2>1. v \in SomeNumbers /\ w \in SomeNumbers
    BY <1>2 DEF OperandNumbers, SomeNumbers, FiniteNumbers, NoNumber
  <2>2. Negative(w) \in SomeNumbers
    BY <2>1, NegativeType
  <2>3. CASE op = "+"
    BY <1>2, <2>1, <2>3, PlusResult DEF Exact
  <2>4. CASE op = "-"
    BY <1>2, <2>1, <2>2, <2>4, PlusResult DEF Exact
  <2>5. CASE op = "*"
    BY <1>2, <2>1, <2>5, TimesResult DEF Exact
  <2>6. CASE op = "/"
    BY <1>2, <2>1, <2>6, OverResult DEF Exact
  <2> QED
    BY <2>3, <2>4, <2>5, <2>6 DEF Operator
<1> QED
  BY <1>1, <1>2

-----------------------------------------------------------------------------
(* A half through a float is its number. *)

LEMMA HalfNumberIs ==
  ASSUME NEW b \in Half, NonZero(b)
  PROVE  HalfNumber(b) = Number(SignOf(b), Significand(b), Scale(b) - 25)
<1>1. ExpOf(b) \in 0 .. 31 /\ MantOf(b) \in 0 .. 1023
  BY FieldsOfHalf
<1>2. CASE ExpOf(b) = 0
  <2> DEFINE m == MantOf(b)
  <2>1. m \in 1 .. 1023 /\ m + 0 = m
    BY <1>1, <1>2 DEF NonZero
  <2>2. /\ HalfNumber(b) = Number(SignOf(b), m * Pow2(11 - BitLength(m)),
                                   1 - 25 - (11 - BitLength(m)))
        /\ Significand(b) = m * Pow2(Places(m)) /\ Scale(b) = 1 - Places(m)
    BY <1>2, <2>1 DEF HalfNumber, Significand, Scale
  <2> HIDE DEF m
  <2>3. Places(m) = 11 - BitLength(m) /\ Places(m) \in 1 .. 10
    <3>1. m \in SubnormalMantissas
      BY <2>1 DEF SubnormalMantissas
    <3>2. Fitting(m) /\ Places(m) = 11 - BitLength(m)
      BY <3>1, PlacesFit
    <3> QED
      BY <3>2 DEF Fitting
  <2>4. 1 - 25 - Places(m) = (1 - Places(m)) - 25
    BY <2>3
  <2> QED
    BY <2>2, <2>3, <2>4
<1>3. CASE ExpOf(b) # 0
  <2> DEFINE n == MantOf(b) + 2^10
  <2>1. n \in Nat /\ Pow2(10) <= n /\ n < Pow2(11) /\ n # 0
    BY <1>1, PowerValues
  <2>2. /\ HalfNumber(b) = Number(SignOf(b), n * Pow2(11 - BitLength(n)),
                                   ExpOf(b) - 25 - (11 - BitLength(n)))
        /\ Significand(b) = n /\ Scale(b) = ExpOf(b)
    BY <1>3, <2>1 DEF HalfNumber, Significand, Scale, NonZero
  <2> HIDE DEF n
  <2>3. BitLength(n) = 11
    <3>1. 11 \in 1 .. 30 /\ 11 - 1 = 10
      OBVIOUS
    <3> QED
      BY <2>1, <3>1, BitLengthIs
  <2>4. n * Pow2(11 - 11) = n /\ ExpOf(b) - 25 - (11 - 11) = ExpOf(b) - 25
    BY <1>1, <2>1, PowerValues
  <2> QED
    BY <2>2, <2>3, <2>4
<1> QED
  BY <1>2, <1>3

(* The conversion of an operand keeps its number. *)
LEMMA OperandKept ==
  ASSUME NEW b \in Half
  PROVE  NumberOf(Fp16Bits2Float(b)) = HalfNumber(b) /\ HalfNumber(b) \in OperandNumbers
<1>1. SignOf(b) \in {0, 1} /\ ExpOf(b) \in 0 .. 31 /\ MantOf(b) \in 0 .. 1023
  BY FieldsOfHalf
<1>2. CASE NonZero(b)
  <2> DEFINE n == Significand(b)
             s == Scale(b)
  <2>1. n \in 1024 .. 2047 /\ s \in -9 .. 30
    BY <1>2, SignificandType
  <2>2. Fp16Bits2Float(b) = [sign |-> SignOf(b), exp |-> s + 112, mant |-> (n - 1024) * 2^13]
    BY <1>2, WidenedIs
  <2>3. HalfNumber(b) = Number(SignOf(b), n, s - 25)
    BY <1>2, HalfNumberIs
  <2> HIDE DEF n, s
  <2>4. ((n - 1024) * 2^13 + 2^23) \div 2^13 = n
    BY <2>1
  <2>5. s + 112 # 255 /\ s + 112 # 0 /\ (s + 112) - 137 = s - 25 /\ s - 25 \in -34 .. 5
    BY <2>1
  <2>6. NumberOf(Fp16Bits2Float(b)) = Number(SignOf(b), n, s - 25)
    BY <2>2, <2>4, <2>5 DEF NumberOf
  <2>7. Number(SignOf(b), n, s - 25) \in Nonzeros
    BY <1>1, <2>1, <2>5 DEF Number, Nonzeros, ElevenBits
  <2> QED
    BY <2>3, <2>6, <2>7 DEF OperandNumbers
<1>3. CASE ExpOf(b) = 0 /\ MantOf(b) = 0
  <2>1. HalfNumber(b) = Number(SignOf(b), 0, 0)
    BY <1>3 DEF HalfNumber
  <2>2. NumberOf(Fp16Bits2Float(b)) = Number(SignOf(b), 0, 0)
    BY <1>3, WidenedZero DEF NumberOf
  <2> QED
    BY <1>1, <2>1, <2>2, ZeroNumber DEF OperandNumbers
<1>4. CASE ExpOf(b) = 31
  <2>1. NumberOf(Fp16Bits2Float(b)) = IF MantOf(b) = 0 THEN Infinite(SignOf(b)) ELSE NoNumber
    BY <1>4, WidenedInfinite DEF NumberOf
  <2>2. HalfNumber(b) = IF MantOf(b) = 0 THEN Infinite(SignOf(b)) ELSE NoNumber
    BY <1>4 DEF HalfNumber
  <2> QED
    BY <1>1, <2>1, <2>2, InfiniteResult DEF OperandNumbers
<1> QED
  BY <1>2, <1>3, <1>4 DEF NonZero

-----------------------------------------------------------------------------
(* A result as a half: what ArithmeticRoundsOnce says of the bits b where  *)
(* the exact result is x.                                                  *)
RoundedResult(x, b) ==
  /\ IsInf(x) => b % 2^15 = Infinity /\ SignOf(b) = x.sign
  /\ Finite(x) => \/ x.n # 0 /\ x.e + BitLength(x.n) - 1 \in -38 .. -33
                  \/ b = Signed(x, NearestHalf(x.n, x.e))

LEMMA InfiniteHalf ==
  ASSUME NEW f, f.exp = 255, f.sign \in {0, 1}, NEW b \in Float2Fp16Bits(f)
  PROVE  b % 2^15 = Infinity /\ SignOf(b) = f.sign
<1>1. b = Signed(f, Infinity)
  BY DEF Float2Fp16Bits
<1>2. b = IF f.sign = 1 THEN 31744 + 32768 ELSE 31744
  BY <1>1 DEF Signed, Infinity
<1> QED
  BY <1>2 DEF Infinity, SignOf

LEMMA ResultRounded ==
  ASSUME NEW x \in Results, NEW f \in Floats24(x)
  PROVE  f \in Float /\ \A b \in Float2Fp16Bits(f) : RoundedResult(x, b)
<1>1. CASE x \in ExactNumbers /\ IsSafe(x)
  <2>1. RoundedOnce(f, x)
    BY <1>1, FloatOfNumber
  <2>2. x.kind = "finite" /\ x.n # 0
    <3>1. x.kind = "finite" /\ x.n \in 1 .. 2^30 - 1
      BY <1>1 DEF ExactNumbers
    <3> DEFINE n == x.n
    <3>2. n \in 1 .. 2^30 - 1
      BY <3>1
    <3> HIDE DEF n
    <3>3. n # 0
      BY <3>2
    <3> QED
      BY <3>1, <3>3 DEF n
  <2>3. CASE UndefinedShift(f)
    BY <2>1, <2>2, <2>3 DEF RoundedOnce, RoundedResult, Finite, IsInf
  <2>4. CASE ~UndefinedShift(f)
    <3>1. Float2Fp16Bits(f) = {RoundedNearest(f)}
      BY <2>1, <2>4, ToNearest DEF RoundedOnce
    <3> QED
      BY <2>1, <2>2, <3>1 DEF RoundedOnce, RoundedResult, Finite, IsInf
  <2> QED
    BY <2>3, <2>4
<1>2. CASE x \in Zeros
  <2>1. x.kind = "finite" /\ x.n = 0 /\ x.sign \in {0, 1}
    BY <1>2 DEF Zeros
  <2>2. f = [sign |-> x.sign, exp |-> 0, mant |-> 0]
    BY <2>1 DEF Floats24, IsInf, IsZero, Finite
  <2>3. f \in Float
    <3>1. [sign |-> x.sign, exp |-> 0, mant |-> 0] \in Float
      BY ONLY <2>1, SpecialFloats
    <3> QED
      BY <2>2, <3>1
  <2>4. Float2Fp16Bits(f) = {RoundedNearest(f)}
    BY <2>2, <2>3, ToNearest DEF UndefinedShift
  <2>5. RoundedNearest(f) = Signed(x, NearestHalf(x.n, x.e))
    BY <2>1, <2>2, NearestHalfZero, SignedBySign DEF RoundedNearest
  <2> QED
    BY <2>1, <2>3, <2>4, <2>5 DEF RoundedResult, Finite, IsInf
<1>3. CASE x \in Infinites
  <2>1. x.kind = "infinite" /\ x.sign \in {0, 1}
    BY <1>3 DEF Infinites
  <2>2. f = [sign |-> x.sign, exp |-> 255, mant |-> 0]
    BY <2>1 DEF Floats24, IsInf, IsZero, Finite
  <2>3. f \in Float
    <3>1. [sign |-> x.sign, exp |-> 255, mant |-> 0] \in Float
      BY ONLY <2>1, SpecialFloats
    <3> QED
      BY <2>2, <3>1
  <2> QED
    BY <2>1, <2>2, <2>3, InfiniteHalf DEF RoundedResult, Finite, IsInf
<1>4. CASE x = NoNumber
  <2>1. x.kind = "none"
    BY <1>4 DEF NoNumber
  <2>2. PICK s \in {0, 1} : f = [sign |-> s, exp |-> 255, mant |-> 2^22]
    BY <2>1 DEF Floats24, IsInf, IsZero, Finite
  <2>3. f \in Float
    <3>1. [sign |-> s, exp |-> 255, mant |-> 2^22] \in Float
      BY ONLY s \in {0, 1}, SpecialFloats
    <3> QED
      BY <2>2, <3>1
  <2> QED
    BY <2>1, <2>3 DEF RoundedResult, Finite, IsInf
<1> QED
  BY <1>1, <1>2, <1>3, <1>4 DEF Results

LEMMA ArithmeticRounded ==
  ASSUME NEW op \in Operator, NEW b \in Half, NEW c \in Half,
         NEW f \in FloatResults(op, Fp16Bits2Float(b), Fp16Bits2Float(c))
  PROVE  /\ f \in Float
         /\ \A a \in Float2Fp16Bits(f) : RoundedResult(Exact(op, HalfNumber(b), HalfNumber(c)), a)
<1> DEFINE x == Exact(op, HalfNumber(b), HalfNumber(c))
<1>1. /\ NumberOf(Fp16Bits2Float(b)) = HalfNumber(b) /\ HalfNumber(b) \in OperandNumbers
      /\ NumberOf(Fp16Bits2Float(c)) = HalfNumber(c) /\ HalfNumber(c) \in OperandNumbers
  BY OperandKept
<1>2. f \in Floats24(x)
  <2> DEFINE X == Fp16Bits2Float(b)
             Y == Fp16Bits2Float(c)
             Numbers == {Exact(op, v, w) : v \in {NumberOf(X)}, w \in {NumberOf(Y)}}
  <2>1. Numbers = {x}
    BY <1>1
  <2>2. FloatResults(op, X, Y) = UNION {Floats24(z) : z \in Numbers}
    BY DEF FloatResults
  <2> HIDE DEF Numbers, x
  <2>3. FloatResults(op, X, Y) = Floats24(x)
    BY <2>1, <2>2
  <2> QED
    BY <2>3
<1>3. x \in Results
  BY <1>1, ExactResult
<1> QED
  BY <1>2, <1>3, ResultRounded

-----------------------------------------------------------------------------
(* There and back: the half of the float of a half.                        *)
LEMMA BitsOfHalf ==
  ASSUME NEW b \in Half
  PROVE  b = SignOf(b) * 32768 + ExpOf(b) * 1024 + MantOf(b)
  BY DEF Half, SignOf, ExpOf, MantOf

(* The bits of a half below its sign. *)
LowBits == 0 .. 2^15 - 1

LEMMA SignedIs ==
  ASSUME NEW f, f.sign \in {0, 1}, NEW n \in LowBits
  PROVE  Signed(f, n) = f.sign * 32768 + n
<1>1. n % 2^16 = n /\ n < 2^15 /\ n \in Nat
  BY DEF LowBits
<1> QED
  BY <1>1 DEF Signed

LEMMA NearestEvenExact ==
  ASSUME NEW k \in 0 .. 30, NEW q \in Nat
  PROVE  NearestEven(q * Pow2(k), k) = q
<1>1. Pow2(k) \in Nat \ {0} /\ 0 \in Nat /\ 0 < Pow2(k)
  BY PowerPositive
<1>2. NearestEven(q * Pow2(k) + 0, k) = NearestOf(q, 0, Pow2(k))
  BY <1>1, NearestEvenIs
<1>3. q * Pow2(k) + 0 = q * Pow2(k)
  BY <1>1
<1> QED
  BY <1>1, <1>2, <1>3 DEF NearestOf

LEMMA NearestToItself ==
  ASSUME NEW b \in Half, NonZero(b)
  PROVE  NearestHalf(Significand(b) * 2^13, Scale(b) - 38) = ExpOf(b) * 1024 + MantOf(b)
<1> DEFINE n == Significand(b)
           s == Scale(b)
           m == n * 2^13
           e == s - 38
<1>1. ExpOf(b) \in 0 .. 31 /\ MantOf(b) \in 0 .. 1023 /\ ExpOf(b) # 31
  BY FieldsOfHalf DEF NonZero
<1>2. n \in 1024 .. 2047 /\ s \in -9 .. 30
  BY SignificandType
<1> HIDE DEF n, s
<1>3. m \in Nat \ {0} /\ 2^23 <= m /\ m < 2^24
  BY <1>2
<1> HIDE DEF m
<1>4. BitLength(m) = 24 /\ 24 \in 1 .. 30 /\ 13 \in 0 .. 30
  BY <1>3, SignificandLength
<1>5. CASE ExpOf(b) # 0
  <2>1. n = MantOf(b) + 1024 /\ s = ExpOf(b)
    BY <1>5 DEF n, s, Significand, Scale
  <2>2. e \in Int /\ e + 24 - 1 >= -14 /\ e + 24 - 1 <= 15
    BY <1>1, <1>5, <2>1
  <2> HIDE DEF e
  <2>3. NearestHalf(m, e) = HalfOrInfinity((e + 24 + 13) * 2^10 + Units(m, 24 - 11))
    BY <1>3, <1>4, <2>2, NearestHalfNormal
  <2>4. Units(m, 24 - 11) = n
    <3>1. n \in Nat /\ m = n * Pow2(13)
      BY <1>2, PowerValues DEF m
    <3>2. NearestEven(m, 13) = n
      BY <1>4, <3>1, NearestEvenExact
    <3> QED
      BY <3>2 DEF Units
  <2> DEFINE x == ExpOf(b)
             i == MantOf(b)
  <2>5. (e + 24 + 13) * 2^10 + n = x * 1024 + i /\ ~(x * 1024 + i > 31 * 2^10)
    <3>1. x \in 0 .. 30 /\ i \in 0 .. 1023 /\ n = i + 1024 /\ s = x
      BY <1>1, <2>1
    <3> HIDE DEF x, i
    <3> QED
      BY <3>1 DEF e
  <2> QED
    BY <2>3, <2>4, <2>5 DEF HalfOrInfinity, m, n, e, s
<1>6. CASE ExpOf(b) = 0
  <2> DEFINE i == MantOf(b)
             k == Places(i)
  <2>1. i \in 1 .. 1023
    BY <1>1, <1>6 DEF NonZero
  <2>2. n = i * Pow2(k) /\ s = 1 - k
    BY <1>6 DEF n, s, Significand, Scale
  <2> HIDE DEF i
  <2>3. k \in 1 .. 10
    <3>1. i \in SubnormalMantissas
      BY <2>1 DEF SubnormalMantissas
    <3>2. Fitting(i)
      BY <3>1, PlacesFit
    <3> QED
      BY <3>2 DEF Fitting
  <2> HIDE DEF k
  <2>4. e \in Int /\ e + 24 - 1 <= -14 /\ -24 - e = k + 13 /\ k + 13 \in 1 .. 29
    BY <2>2, <2>3
  <2> HIDE DEF e
  <2>5. NearestHalf(m, e) = HalfOrInfinity(Units(m, k + 13))
    <3>1. NearestHalf(m, e) = HalfOrInfinity(Units(m, -24 - e))
      BY <1>3, <1>4, <2>4, NearestHalfSubnormal
    <3> QED
      BY <2>4, <3>1
  <2>6. m = i * Pow2(k + 13)
    <3>1. k \in 0 .. 30 /\ k + 13 \in 0 .. 30 /\ k + 13 <= 30
      BY <2>3
    <3>2. Pow2(k + 13) = Pow2(k) * Pow2(13)
      BY <1>4, <3>1, PowerSum
    <3>3. Pow2(k) \in Nat
      BY <3>1, PowerPositive
    <3> QED
      BY <2>1, <2>2, <3>2, <3>3, PowerValues DEF m
  <2>7. Units(m, k + 13) = i
    <3>1. k + 13 \in 0 .. 30 /\ i \in Nat
      BY <2>1, <2>3
    <3>2. NearestEven(m, k + 13) = i
      BY <2>6, <3>1, NearestEvenExact
    <3> QED
      BY <2>3, <3>2 DEF Units
  <2>8. ~(i > 31 * 2^10) /\ i = ExpOf(b) * 1024 + MantOf(b)
    BY <1>6, <2>1 DEF i
  <2> QED
    BY <2>5, <2>7, <2>8 DEF HalfOrInfinity, m, n, e, s
<1> QED
  BY <1>5, <1>6

(***************************************************************************)
(* A half converted to a float and back is the same half, its sign         *)
(* included; only of a NaN the infinity of its sign remains.               *)
(***************************************************************************)
THEOREM ThereAndBack ==
  \A b \in Half :
    Float2Fp16Bits(Fp16Bits2Float(b)) =
      {IF ExpOf(b) = 31 /\ MantOf(b) # 0 THEN b - MantOf(b) ELSE b}
<1> SUFFICES ASSUME NEW b \in Half
             PROVE  Float2Fp16Bits(Fp16Bits2Float(b)) =
                      {IF ExpOf(b) = 31 /\ MantOf(b) # 0 THEN b - MantOf(b) ELSE b}
  OBVIOUS
<1> DEFINE f == Fp16Bits2Float(b)
           g == SignOf(b)
           x == ExpOf(b)
           i == MantOf(b)
           low == x * 1024 + i
<1>1. g \in {0, 1} /\ x \in 0 .. 31 /\ i \in 0 .. 1023
  BY FieldsOfHalf
<1>2. b = g * 32768 + x * 1024 + i
  BY BitsOfHalf
<1>3. f \in Float
  BY Fp16Bits2FloatType
<1> HIDE DEF g, x, i
<1>4. low \in Nat /\ low \in LowBits /\ b = g * 32768 + low
  BY <1>1, <1>2 DEF LowBits
<1> HIDE DEF low
<1>5. ASSUME f.sign = g, NEW n \in LowBits
      PROVE  Signed(f, n) = g * 32768 + n
  BY <1>1, <1>5, SignedIs
<1>6. CASE NonZero(b)
  <2> DEFINE n == Significand(b)
             s == Scale(b)
  <2>1. n \in 1024 .. 2047 /\ s \in -9 .. 30
    BY <1>6, SignificandType
  <2>2. f = [sign |-> SignOf(b), exp |-> s + 112, mant |-> (n - 1024) * 2^13]
    BY <1>6, WidenedIs
  <2>3. NearestHalf(n * 2^13, s - 38) = low
    BY <1>6, NearestToItself DEF low, x, i
  <2> HIDE DEF n, s, f
  <2>4. (n - 1024) * 2^13 + 2^23 = n * 2^13 /\ (s + 112) - 150 = s - 38 /\ s + 112 # 0
        /\ s + 112 \notin 89 .. 94
    BY <2>1
  <2>5. Float2Fp16Bits(f) = {RoundedNearest(f)}
    BY <1>3, <2>2, <2>4, ToNearest DEF UndefinedShift
  <2>6. RoundedNearest(f) = Signed(f, low)
    BY <2>2, <2>3, <2>4 DEF RoundedNearest
  <2>7. Signed(f, low) = b
    BY <1>4, <1>5, <2>2 DEF g
  <2> QED
    BY <1>6, <2>5, <2>6, <2>7 DEF NonZero, f
<1>7. CASE ExpOf(b) = 0 /\ MantOf(b) = 0
  <2>1. f = [sign |-> SignOf(b), exp |-> 0, mant |-> 0]
    BY <1>7, WidenedZero
  <2> HIDE DEF f
  <2>2. Float2Fp16Bits(f) = {RoundedNearest(f)}
    BY <1>3, <2>1, ToNearest DEF UndefinedShift
  <2>3. RoundedNearest(f) = Signed(f, 0)
    BY <2>1, NearestHalfZero DEF RoundedNearest
  <2>4. 0 \in LowBits /\ low = 0
    BY <1>7 DEF low, x, i, LowBits
  <2>5. Signed(f, 0) = b
    BY <1>4, <1>5, <2>1, <2>4 DEF g
  <2> QED
    BY <1>7, <2>2, <2>3, <2>5 DEF f
<1>8. CASE ExpOf(b) = 31
  <2> DEFINE mant == IF MantOf(b) # 0 THEN 2^22 ELSE 0
  <2>1. f = [sign |-> SignOf(b), exp |-> 255, mant |-> mant]
    BY <1>8, WidenedInfinite
  <2> HIDE DEF f, mant
  <2>2. Float2Fp16Bits(f) = {Signed(f, Infinity)}
    BY <2>1 DEF Float2Fp16Bits
  <2>3. Infinity \in LowBits /\ Infinity = low - i
    <3>1. x = 31
      BY <1>8 DEF x
    <3> QED
      BY <1>1, <3>1 DEF Infinity, low, LowBits
  <2>4. Signed(f, Infinity) = g * 32768 + Infinity
    BY <1>5, <2>1, <2>3 DEF g
  <2>5. Signed(f, Infinity) = b - i /\ (i = 0 => b - i = b)
    BY <1>1, <1>4, <2>3, <2>4
  <2> QED
    BY <1>8, <2>2, <2>5 DEF f, i
<1> QED
  BY <1>6, <1>7, <1>8 DEF NonZero

-----------------------------------------------------------------------------
(* What every step of the client keeps. *)
LEMMA TypeInit == Init => TypeOK
<1> SUFFICES ASSUME Init PROVE TypeOK
  OBVIOUS
<1>1. Zero \in Float /\ 0 \in Half
  <2>1. Zero \in Float
    BY SpecialFloats DEF Zero
  <2>2. 0 \in Half
    BY DEF Half
  <2> QED
    BY <2>1, <2>2
<1>2. float \in Float /\ bits \in Half
  BY <1>1, InputsHaveTheirWidth DEF Init
<1>3. operands = <<>> /\ last \in {"none", "fromBits"}
  BY DEF Init
<1> QED
  BY <1>2, <1>3 DEF TypeOK, HoldsHalf, Operator

LEMMA TypeStep == TypeOK /\ [Next]_vars => TypeOK'
<1> SUFFICES ASSUME TypeOK, [Next]_vars PROVE TypeOK'
  OBVIOUS
<1>1. float \in Float /\ bits \in Half
  BY DEF TypeOK
<1>2. CASE Construct
  <2>1. bits' \in Half
    BY <1>1, <1>2, Float2Fp16BitsType DEF Construct
  <2>2. operands = <<>>
    BY <1>2 DEF Construct, TypeOK, HoldsHalf
  <2> QED
    BY <1>1, <1>2, <2>1, <2>2 DEF Construct, TypeOK, HoldsHalf, Operator
<1>3. CASE Convert
  <2>1. float' \in Float
    BY <1>1, <1>3, Fp16Bits2FloatType DEF Convert
  <2> QED
    BY <1>1, <1>3, <2>1 DEF Convert, TypeOK, HoldsHalf, Operator
<1>4. CASE Negate
  <2>1. bits' \in Half
    BY <1>1, <1>4 DEF Negate, Half
  <2> QED
    BY <1>1, <1>4, <2>1 DEF Negate, TypeOK, HoldsHalf, Operator
<1>5. ASSUME bits \in Operands, NEW op \in Operator, NEW rhs \in Operands, Arithmetic(op, rhs)
      PROVE  TypeOK'
  <2>1. rhs \in Half
    BY InputsHaveTheirWidth
  <2>2. PICK f \in FloatResults(op, Fp16Bits2Float(bits), Fp16Bits2Float(rhs)) :
          bits' \in Float2Fp16Bits(f)
    BY <1>5 DEF Arithmetic
  <2>3. f \in Float
    BY <1>1, <2>1, ArithmeticRounded
  <2>4. bits' \in Half
    BY <2>2, <2>3, Float2Fp16BitsType
  <2>5. last' = op /\ operands' = <<bits, rhs>> /\ float' = float
    BY <1>5 DEF Arithmetic
  <2> QED
    BY <1>1, <1>5, <2>4, <2>5 DEF TypeOK, HoldsHalf
<1>6. CASE UNCHANGED vars
  BY <1>6 DEF vars, TypeOK, HoldsHalf
<1> QED
  BY <1>2, <1>3, <1>4, <1>5, <1>6 DEF Next

(***************************************************************************)
(* The conversions and the arithmetic of float16_t yield floats and halves *)
(* of their width from any floats and halves, undefined shifts included.   *)
(***************************************************************************)
THEOREM Float16Type == Spec => []TypeOK
<1>1. Init => TypeOK
  BY TypeInit
<1>2. TypeOK /\ [Next]_vars => TypeOK'
  BY TypeStep
<1> QED
  BY <1>1, <1>2, PTL DEF Spec

LEMMA ConstructRounds == TypeOK /\ Construct => RoundsToNearest'
<1> SUFFICES ASSUME TypeOK, Construct, ~UndefinedShift(float)
             PROVE  bits' = RoundedNearest(float')
  BY DEF Construct, RoundsToNearest
<1>1. Float2Fp16Bits(float) = {RoundedNearest(float)}
  BY ToNearest DEF TypeOK
<1> QED
  BY <1>1 DEF Construct

(***************************************************************************)
(* Of all 2^32 floats, every one that is a number and whose shift is       *)
(* defined is converted to the nearest half, ties to even: rounding, the   *)
(* carry into the exponent, subnormals and overflow of Float2Fp16Bits.     *)
(***************************************************************************)
THEOREM RoundsToNearestAlways == Spec => []RoundsToNearest
<1>1. Init => TypeOK /\ RoundsToNearest
  BY TypeInit DEF Init, RoundsToNearest
<1>2. TypeOK /\ RoundsToNearest /\ [Next]_vars => TypeOK' /\ RoundsToNearest'
  <2> SUFFICES ASSUME TypeOK, RoundsToNearest, [Next]_vars PROVE RoundsToNearest'
    BY TypeStep
  <2>1. CASE Construct
    BY <2>1, ConstructRounds
  <2>2. CASE Convert
    BY <2>2 DEF Convert, RoundsToNearest
  <2>3. CASE Negate
    BY <2>3 DEF Negate, RoundsToNearest
  <2>4. ASSUME NEW op \in Operator, NEW rhs, Arithmetic(op, rhs) PROVE RoundsToNearest'
    BY <2>4 DEF Arithmetic, Operator, RoundsToNearest
  <2>5. CASE UNCHANGED vars
    BY <2>5 DEF vars, RoundsToNearest
  <2> QED
    BY <2>1, <2>2, <2>3, <2>4, <2>5 DEF Next
<1> QED
  BY <1>1, <1>2, PTL DEF Spec

LEMMA ConvertWidens == TypeOK /\ Convert => WidensExactly'
<1> DEFINE Widened(m, e) ==
             /\ float'.sign = SignOf(bits)
             /\ m = 0 => float'.exp = 0 /\ float'.mant = 0
             /\ m # 0 => /\ float'.exp \in 1 .. e + 112
                         /\ float'.mant + 2^23 = m * Pow2(125 + e - float'.exp)
<1> SUFFICES ASSUME TypeOK, Convert, ExpOf(bits) # 31
             PROVE  IF ExpOf(bits) = 0 THEN Widened(MantOf(bits), 1)
                    ELSE Widened(MantOf(bits) + 2^10, ExpOf(bits))
  BY DEF Convert, WidensExactly, ExpOf, MantOf, SignOf
<1>0. CASE ExpOf(bits) = 0 /\ MantOf(bits) = 0
  <2>1. float' = [sign |-> SignOf(bits), exp |-> 0, mant |-> 0]
    BY <1>0, WidenedZero DEF Convert, TypeOK
  <2> QED
    BY <1>0, <2>1
<1> SUFFICES ASSUME NonZero(bits)
             PROVE  LET e == IF ExpOf(bits) = 0 THEN 1 ELSE ExpOf(bits)
                        m == IF ExpOf(bits) = 0 THEN MantOf(bits) ELSE MantOf(bits) + 2^10
                    IN  /\ float'.sign = SignOf(bits)
                        /\ m # 0
                        /\ float'.exp \in 1 .. e + 112
                        /\ float'.mant + 2^23 = m * Pow2(125 + e - float'.exp)
  BY <1>0 DEF NonZero
<1>1. bits \in Half
  BY DEF TypeOK
<1>2. NonZero(bits)
  OBVIOUS
<1>3. ExpOf(bits) \in 0 .. 31 /\ MantOf(bits) \in 0 .. 1023
  BY <1>1, FieldsOfHalf
<1> DEFINE n == Significand(bits)
           s == Scale(bits)
<1>4. float' = [sign |-> SignOf(bits), exp |-> s + 112, mant |-> (n - 1024) * 2^13]
  <2>1. Fp16Bits2Float(bits) = [sign |-> SignOf(bits), exp |-> s + 112, mant |-> (n - 1024) * 2^13]
    BY <1>1, <1>2, WidenedIs
  <2> QED
    BY <2>1 DEF Convert
<1>5. n \in 1024 .. 2047 /\ s \in -9 .. 30
  BY <1>1, <1>2, SignificandType
<1>6. CASE ExpOf(bits) = 0
  <2> DEFINE m == MantOf(bits)
             k == Places(m)
  <2>1. m \in 1 .. 1023
    BY <1>2, <1>3, <1>6 DEF NonZero
  <2>2. n = m * Pow2(k) /\ s = 1 - k
    BY <1>6 DEF Significand, Scale
  <2>3. k \in 1 .. 10
    <3> HIDE DEF m
    <3>1. m \in SubnormalMantissas
      BY <2>1 DEF SubnormalMantissas
    <3>2. Fitting(m)
      BY <3>1, PlacesFit
    <3> QED
      BY <3>2 DEF Fitting
  <2> HIDE DEF m, k, n, s
  <2>4. Pow2(k + 13) = Pow2(k) * 8192 /\ Pow2(k) \in Nat
    <3>1. k \in 0 .. 30 /\ 13 \in 0 .. 30 /\ k + 13 <= 30
      BY <2>3
    <3>2. Pow2(k + 13) = Pow2(k) * Pow2(13)
      BY <3>1, PowerSum
    <3> QED
      BY <3>1, <3>2, PowerValues, PowerPositive
  <2>5. (n - 1024) * 2^13 + 2^23 = m * Pow2(k + 13)
    <3>1. (n - 1024) * 2^13 + 2^23 = n * 8192
      BY <1>5
    <3>2. n * 8192 = m * (Pow2(k) * 8192)
      BY <2>1, <2>2, <2>4
    <3> QED
      BY <2>4, <3>1, <3>2
  <2>6. 125 + 1 - (s + 112) = k + 13 /\ s + 112 \in 1 .. 1 + 112
    BY <2>2, <2>3
  <2>7. m # 0
    BY <2>1
  <2> QED
    BY <1>4, <1>6, <2>5, <2>6, <2>7 DEF m
<1>7. CASE ExpOf(bits) # 0
  <2>1. n = MantOf(bits) + 2^10 /\ s = ExpOf(bits)
    BY <1>7 DEF Significand, Scale
  <2> HIDE DEF n, s
  <2>2. (n - 1024) * 2^13 + 2^23 = n * Pow2(13)
    BY <1>5, PowerValues
  <2>3. 125 + s - (s + 112) = 13 /\ s + 112 \in 1 .. s + 112
    BY <1>3, <2>1
  <2>4. MantOf(bits) + 2^10 # 0
    BY <1>3
  <2> QED
    BY <1>4, <1>7, <2>1, <2>2, <2>3, <2>4
<1> QED
  BY <1>6, <1>7

(***************************************************************************)
(* Fp16Bits2Float of any finite half is the same number: a zero keeps its  *)
(* sign, and a subnormal half is brought to a normal float without loss.   *)
(***************************************************************************)
THEOREM WidensExactlyAlways == Spec => []WidensExactly
<1>1. Init => TypeOK /\ WidensExactly
  BY TypeInit DEF Init, WidensExactly
<1>2. TypeOK /\ WidensExactly /\ [Next]_vars => TypeOK' /\ WidensExactly'
  <2> SUFFICES ASSUME TypeOK, WidensExactly, [Next]_vars PROVE WidensExactly'
    BY TypeStep
  <2>1. CASE Construct
    BY <2>1 DEF Construct, WidensExactly
  <2>2. CASE Convert
    BY <2>2, ConvertWidens
  <2>3. CASE Negate
    BY <2>3 DEF Negate, WidensExactly
  <2>4. ASSUME NEW op \in Operator, NEW rhs, Arithmetic(op, rhs) PROVE WidensExactly'
    BY <2>4 DEF Arithmetic, Operator, WidensExactly
  <2>5. CASE UNCHANGED vars
    BY <2>5 DEF vars, WidensExactly
  <2> QED
    BY <2>1, <2>2, <2>3, <2>4, <2>5 DEF Next
<1> QED
  BY <1>1, <1>2, PTL DEF Spec

LEMMA ArithmeticRounds ==
  ASSUME TypeOK, bits \in Operands, NEW op \in Operator, NEW rhs \in Operands, Arithmetic(op, rhs)
  PROVE  ArithmeticRoundsOnce'
<1>1. bits \in Half /\ rhs \in Half
  BY InputsHaveTheirWidth DEF TypeOK
<1>2. PICK f \in FloatResults(op, Fp16Bits2Float(bits), Fp16Bits2Float(rhs)) :
        bits' \in Float2Fp16Bits(f)
  BY DEF Arithmetic
<1>3. RoundedResult(Exact(op, HalfNumber(bits), HalfNumber(rhs)), bits')
  BY <1>1, <1>2, ArithmeticRounded
<1>4. last' = op /\ operands'[1] = bits /\ operands'[2] = rhs
  BY DEF Arithmetic
<1> QED
  BY <1>3, <1>4 DEF ArithmeticRoundsOnce, RoundedResult

(***************************************************************************)
(* An operator of float16_t, which rounds to a float and then to a half,   *)
(* gives for any two halves what rounding the exact result once would,     *)
(* where that result is a number or an infinity and its shift is defined:  *)
(* double rounding does no harm.  Nothing is said of a NaN.                *)
(***************************************************************************)
THEOREM ArithmeticRoundsOnceAlways == Spec => []ArithmeticRoundsOnce
<1>1. Init => TypeOK /\ ArithmeticRoundsOnce
  BY TypeInit DEF Init, ArithmeticRoundsOnce, Operator
<1>2. TypeOK /\ ArithmeticRoundsOnce /\ [Next]_vars => TypeOK' /\ ArithmeticRoundsOnce'
  <2> SUFFICES ASSUME TypeOK, ArithmeticRoundsOnce, [Next]_vars PROVE ArithmeticRoundsOnce'
    BY TypeStep
  <2>1. CASE Construct
    BY <2>1 DEF Construct, ArithmeticRoundsOnce, Operator
  <2>2. CASE Convert
    BY <2>2 DEF Convert, ArithmeticRoundsOnce, Operator
  <2>3. CASE Negate
    BY <2>3 DEF Negate, ArithmeticRoundsOnce, Operator
  <2>4. ASSUME bits \in Operands, NEW op \in Operator, NEW rhs \in Operands, Arithmetic(op, rhs)
        PROVE  ArithmeticRoundsOnce'
    BY <2>4, ArithmeticRounds
  <2>5. CASE UNCHANGED vars
    BY <2>5 DEF vars, ArithmeticRoundsOnce
  <2> QED
    BY <2>1, <2>2, <2>3, <2>4, <2>5 DEF Next
<1> QED
  BY <1>1, <1>2, PTL DEF Spec

=============================================================================
