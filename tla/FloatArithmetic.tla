---------------------------- MODULE FloatArithmetic ----------------------------
(***************************************************************************)
(* The numbers that floats and halves stand for and what the four          *)
(* operations of the machine make of them (IEEE 754, not code of this      *)
(* repository).  A number is its sign and n * 2^e; the n of an operand is  *)
(* 0 or has eleven bits, which every half fits.  An inexact result is kept *)
(* to 18 bits and more with an odd last one that stands for "and a little  *)
(* more", which rounds like the exact result.                              *)
(***************************************************************************)
EXTENDS Integers

(* A one shifted to the left by k. *)
Pow2(k) == 2^k

Number(sign, n, e) == [kind |-> "finite", sign |-> sign, n |-> n, e |-> e]
Infinite(sign)     == [kind |-> "infinite", sign |-> sign, n |-> 0, e |-> 0]
NoNumber           == [kind |-> "none", sign |-> 0, n |-> 0, e |-> 0]

Finite(x) == x.kind = "finite"
IsInf(x)  == x.kind = "infinite"
IsZero(x) == Finite(x) /\ x.n = 0

Negative(x) == [x EXCEPT !.sign = 1 - @]

BitLength(n) == CHOOSE l \in 0 .. 30 : n < Pow2(l) /\ (l = 0 \/ Pow2(l - 1) <= n)

(* n in units of 2^k, to the nearest, a tie to the even one. *)
NearestEven(n, k) ==
  LET low  == n \div Pow2(k)
      rest == n % Pow2(k)
  IN  IF 2 * rest > Pow2(k) \/ (2 * rest = Pow2(k) /\ low % 2 = 1) THEN low + 1 ELSE low

(* Twice n in units of 2^k, odd where something is cut off. *)
Cut(n, k) == 2 * (n \div Pow2(k)) + (IF n % Pow2(k) = 0 THEN 0 ELSE 1)

Sum(x, y) ==
  LET high  == IF x.e >= y.e THEN x ELSE y
      low   == IF x.e >= y.e THEN y ELSE x
      d     == high.e - low.e
      cut   == IF d > 17 THEN d - 17 ELSE 0
      value(z, n) == IF z.sign = 1 THEN -n ELSE n
      total == value(high, high.n * Pow2(d - cut + 1)) + value(low, Cut(low.n, cut))
  IN  IF x.n = 0 /\ y.n = 0 THEN Number(x.sign * y.sign, 0, 0)
      ELSE IF x.n = 0 THEN y
      ELSE IF y.n = 0 THEN x
      ELSE Number(IF total < 0 THEN 1 ELSE 0, IF total < 0 THEN -total ELSE total,
                  low.e + cut - 1)

(* A long division in two steps of thirteen bits. *)
Quotient(sign, x, y) ==
  LET first  == x.n * 2^13
      second == (first % y.n) * 2^13
      q      == (first \div y.n) * 2^13 + (second \div y.n)
  IN  Number(sign, 2 * q + (IF second % y.n = 0 THEN 0 ELSE 1), x.e - y.e - 27)

(* The results for infinite operands, zero divisors and the rest. *)
Plus(x, y) ==
  IF Finite(x) /\ Finite(y) THEN Sum(x, y)
  ELSE IF Finite(y) \/ x = y THEN x
  ELSE IF Finite(x) THEN y
  ELSE NoNumber

Times(x, y) ==
  LET sign == (x.sign + y.sign) % 2
  IN  IF Finite(x) /\ Finite(y) THEN Number(sign, x.n * y.n, x.e + y.e)
      ELSE IF IsZero(x) \/ IsZero(y) THEN NoNumber
      ELSE Infinite(sign)

Over(x, y) ==
  LET sign == (x.sign + y.sign) % 2
  IN  IF (IsZero(x) /\ IsZero(y)) \/ (IsInf(x) /\ IsInf(y)) THEN NoNumber
      ELSE IF IsInf(x) \/ IsZero(y) THEN Infinite(sign)
      ELSE IF IsInf(y) \/ IsZero(x) THEN Number(sign, 0, 0)
      ELSE Quotient(sign, x, y)

Operator == {"+", "-", "*", "/"}

Exact(op, x, y) ==
  IF x.kind = "none" \/ y.kind = "none" THEN NoNumber
  ELSE CASE op = "+" -> Plus(x, y)
         [] op = "-" -> Plus(x, Negative(y))
         [] op = "*" -> Times(x, y)
         [] op = "/" -> Over(x, y)

-----------------------------------------------------------------------------
(* The number of a float that holds a half: the last 13 bits are zero.     *)
NumberOf(f) ==
  IF f.exp = 255 THEN IF f.mant = 0 THEN Infinite(f.sign) ELSE NoNumber
  ELSE IF f.exp = 0 THEN Number(f.sign, 0, 0)
  ELSE Number(f.sign, (f.mant + 2^23) \div 2^13, f.exp - 137)

(* The nearest floats; which sign a NaN has is the machine's choice. *)
Floats24(x) ==
  LET l == BitLength(x.n)
      m == IF l <= 24 THEN x.n * Pow2(24 - l) ELSE NearestEven(x.n, l - 24)
      float(exp, mant) == [sign |-> x.sign, exp |-> exp, mant |-> mant]
  IN  CASE x.kind = "none" -> {[sign |-> s, exp |-> 255, mant |-> 2^22] : s \in {0, 1}}
        [] IsInf(x)  -> {float(255, 0)}
        [] IsZero(x) -> {float(0, 0)}
        [] OTHER     -> {float(126 + x.e + l + (m \div 2^24), m % 2^23)}

(* The half nearest to a number: its bits without the sign, or those of    *)
(* infinity (31 * 2^10).  A unit is 2^-24 for a subnormal half and 2^-10   *)
(* of its power of two otherwise; consecutive halves have consecutive bits.*)
NearestHalf(n, e) ==
  LET power == e + BitLength(n) - 1
      least == IF power < -14 THEN -14 ELSE power
      k     == least - 10 - e
      units == IF k <= 0 THEN n * Pow2(-k) ELSE IF k > 29 THEN 0 ELSE NearestEven(n, k)
      half  == (least + 14) * 2^10 + units
  IN  IF n = 0 THEN 0 ELSE IF power > 15 \/ half > 31 * 2^10 THEN 31 * 2^10 ELSE half

=============================================================================
