-------------------------------- MODULE Float16 --------------------------------
(***************************************************************************)
(* The conversions of float16_t (include/utils/fp16.hpp) between the bits  *)
(* of a float and of a half, and its arithmetic.  A client holds a float   *)
(* and a float16_t; it constructs the one from the other, converts back,   *)
(* negates and computes.  A float is a record of its three fields, a half  *)
(* its 16 bits as a number.                                                *)
(***************************************************************************)
EXTENDS Integers, FloatArithmetic

CONSTANTS
  Floats,   \* floats a client starts from
  Halves,   \* bit patterns a client passes to fromBits
  Operands  \* bound: the halves, made by fromBits, that are computed with

VARIABLES
  float,   \* the float the client holds
  bits,    \* the member bits of its float16_t
  last,    \* what ran last: "none", "constructor", "fromBits", "negation",
           \* "operator float" or one of the four operators
  operands \* the two halves of the operator, if it ran last

vars == <<float, bits, last, operands>>

Float == [sign : {0, 1}, exp : 0 .. 255, mant : 0 .. 2^23 - 1]
Half  == 0 .. 2^16 - 1

ASSUME InputsHaveTheirWidth ==
  Floats \subseteq Float /\ Halves \subseteq Half /\ Operands \subseteq Half

Zero == [sign |-> 0, exp |-> 0, mant |-> 0]

Infinity == 31 * 2^10

Init ==
  /\ \/ float \in Floats /\ bits = 0 /\ last = "none"
     \/ float = Zero /\ bits \in Halves /\ last = "fromBits"
  /\ operands = <<>>

-----------------------------------------------------------------------------
(* float to half.  Nothing is left of 24 bits shifted by more than 24.     *)
ShiftedRight(m, k) == IF k > 24 THEN 0 ELSE m \div Pow2(k)

(* Wrong: a tie is always rounded up. *)
RoundedOffHalfUp(m, k) == ShiftedRight(m, k) + (IF k > 0 THEN ShiftedRight(m, k - 1) % 2 ELSE 0)

(* m shifted by k, rounded by the bit below and, on a tie, to even. *)
RoundedOff(m, k) ==
  LET kept   == ShiftedRight(m, k)
      half   == k > 0 /\ ShiftedRight(m, k - 1) % 2 = 1
      sticky == m # ShiftedRight(m, k - 1) * Pow2(k - 1)
  IN  IF half /\ (sticky \/ kept % 2 = 1) THEN kept + 1 ELSE kept

WithHidden(f) == IF f.exp # 0 THEN f.mant + 2^23 ELSE f.mant

(* The sign bit ORed to the low 16 bits of a number. *)
Signed(f, n) ==
  LET low == n % 2^16 IN IF f.sign = 1 /\ low < 2^15 THEN low + 2^15 ELSE low

(* A shift of 32 or more is undefined: the value may be shifted out, or    *)
(* the count taken modulo 32.                                              *)
Subnormal(f) ==
  LET shift == 113 - f.exp
      m     == WithHidden(f)
  IN  IF shift > 24 THEN {0}
      ELSE IF shift + 13 < 32 THEN {RoundedOff(m, shift + 13)}
      ELSE {0, RoundedOff(m, shift + 13 - 32)}

Normal(f) ==
  LET combined == RoundedOff(f.mant, 13)
      exp_adj  == IF combined = 2^10 THEN f.exp - 111 ELSE f.exp - 112
  IN  IF exp_adj >= 31 THEN Infinity ELSE exp_adj * 2^10 + (combined % 2^10)

Float2Fp16Bits(f) ==
  IF f.exp - 112 >= 31 THEN {Signed(f, Infinity)}
  ELSE IF f.exp - 112 <= 0 THEN {Signed(f, n) : n \in Subnormal(f)}
  ELSE {Signed(f, Normal(f))}

-----------------------------------------------------------------------------
(* half to float *)
SignOf(b) == b \div 2^15
ExpOf(b)  == (b \div 2^10) % 2^5
MantOf(b) == b % 2^10

(* Wrong: off by one, the highest bit stays in the mantissa. *)
PlacesShort(m) == CHOOSE s \in 0 .. 9 : m * Pow2(s) \in 2^9 .. 2^10 - 1

(* Places to the left that bring the highest bit of m to bit 10. *)
Places(m) == CHOOSE s \in 1 .. 10 : m * Pow2(s) \in 2^10 .. 2^11 - 1

(* Wrong: the bit that became implicit stays in the mantissa. *)
NormalisedUnmasked(m) == m * Pow2(Places(m))

Normalised(m) == (m * Pow2(Places(m))) % 2^10

Fp16Bits2Float(b) ==
  LET e == ExpOf(b)
      m == MantOf(b)
      fields(exp, mant) == [sign |-> SignOf(b), exp |-> exp, mant |-> mant]
  IN  IF e = 0 /\ m = 0 THEN fields(0, 0)
      ELSE IF e = 0 THEN fields(1 - Places(m) + 112, Normalised(m) * 2^13)
      ELSE IF e = 31 THEN fields(255, IF m # 0 THEN 2^22 ELSE 0)
      ELSE fields(e + 112, m * 2^13)

-----------------------------------------------------------------------------
HoldsHalf == last \in {"constructor", "fromBits", "negation"} \cup Operator

(* float16_t(float) *)
Construct ==
  /\ ~HoldsHalf
  /\ bits' \in Float2Fp16Bits(float)
  /\ last' = "constructor"
  /\ UNCHANGED <<float, operands>>

(* operator float() *)
Convert ==
  /\ HoldsHalf
  /\ float' = Fp16Bits2Float(bits)
  /\ last' = "operator float"
  /\ operands' = <<>>
  /\ UNCHANGED bits

(* operator-(): the sign bit flips, also of zero and NaN. *)
Negate ==
  /\ HoldsHalf
  /\ bits' = (bits + 2^15) % 2^16
  /\ last' = "negation"
  /\ operands' = <<>>
  /\ UNCHANGED float

(* What the machine computes of two floats. *)
FloatResults(op, x, y) ==
  UNION {Floats24(z) : z \in {Exact(op, v, w) : v \in {NumberOf(x)}, w \in {NumberOf(y)}}}

(* Wrong: the operands change places. *)
ArithmeticSwapped(op, rhs) ==
  /\ \E f \in FloatResults(op, Fp16Bits2Float(rhs), Fp16Bits2Float(bits)) :
       bits' \in Float2Fp16Bits(f)
  /\ last' = op
  /\ operands' = <<bits, rhs>>
  /\ UNCHANGED float

(* operator+= and its three companions, which the binary operators call on *)
(* a copy of the left operand. *)
Arithmetic(op, rhs) ==
  /\ \E f \in FloatResults(op, Fp16Bits2Float(bits), Fp16Bits2Float(rhs)) :
       bits' \in Float2Fp16Bits(f)
  /\ last' = op
  /\ operands' = <<bits, rhs>>
  /\ UNCHANGED float

Next ==
  \/ Construct
  \/ Convert
  \/ Negate
  \/ /\ last = "fromBits" /\ bits \in Operands
     /\ \E op \in Operator, rhs \in Operands : Arithmetic(op, rhs)

Spec == Init /\ [][Next]_vars

-----------------------------------------------------------------------------
TypeOK ==
  /\ float \in Float
  /\ bits \in Half
  /\ HoldsHalf \/ last \in {"none", "operator float"}
  /\ IF last \in Operator THEN operands \in Operands \X Operands ELSE operands = <<>>

IsNaN(f) == f.exp = 255 /\ f.mant # 0

(* The exponents whose shift is undefined. *)
UndefinedShift(f) == f.exp \in 89 .. 94

RoundedNearest(f) ==
  Signed(f, IF f.exp = 0 THEN NearestHalf(f.mant, -149)
            ELSE NearestHalf(f.mant + 2^23, f.exp - 150))

(***************************************************************************)
(* A half constructed from a float that is a number is the nearest one,    *)
(* ties to even, also where rounding carries into the exponent, makes the  *)
(* smallest normal half of a subnormal one or infinity of the largest.     *)
(* Excluded are the exponents whose shift is undefined.                    *)
(***************************************************************************)
RoundsToNearest ==
  last = "constructor" /\ ~IsNaN(float) /\ ~UndefinedShift(float) =>
    bits = RoundedNearest(float)

(***************************************************************************)
(* The float of a finite half is the same number: a zero of its sign, or   *)
(* the significand, hidden bit included, is the half's at the distance of  *)
(* the two exponents.  Subnormal halves become normal floats.              *)
(***************************************************************************)
WidensExactly ==
  last = "operator float" /\ ExpOf(bits) # 31 =>
    LET e == IF ExpOf(bits) = 0 THEN 1 ELSE ExpOf(bits)
        m == IF ExpOf(bits) = 0 THEN MantOf(bits) ELSE MantOf(bits) + 2^10
    IN  /\ float.sign = SignOf(bits)
        /\ m = 0 => float.exp = 0 /\ float.mant = 0
        /\ m # 0 => /\ float.exp \in 1 .. e + 112
                    /\ float.mant + 2^23 = m * Pow2(125 + e - float.exp)

(* The number a half stands for. *)
HalfNumber(b) ==
  LET normal == ExpOf(b) # 0
      n      == MantOf(b) + (IF normal THEN 2^10 ELSE 0)
      places == 11 - BitLength(n)
  IN  IF ExpOf(b) = 31 THEN IF MantOf(b) = 0 THEN Infinite(SignOf(b)) ELSE NoNumber
      ELSE IF n = 0 THEN Number(SignOf(b), 0, 0)
      ELSE Number(SignOf(b), n * Pow2(places), (IF normal THEN ExpOf(b) ELSE 1) - 25 - places)

(***************************************************************************)
(* Although every operation rounds twice, to a float and then to a half,   *)
(* its result is the half nearest to the exact one, subnormal results and  *)
(* those at the edge of infinity included, and infinity of the right sign  *)
(* where the exact result is infinite.  Excluded are results so small that *)
(* their shift is undefined, and operations whose result is no number (a   *)
(* NaN operand, 0 / 0): nothing is said of those.                          *)
(***************************************************************************)
ArithmeticRoundsOnce ==
  last \in Operator =>
    \A v \in {HalfNumber(operands[1])}, w \in {HalfNumber(operands[2])} :
      \A x \in {Exact(last, v, w)} :
        /\ IsInf(x) => bits % 2^15 = Infinity /\ SignOf(bits) = x.sign
        /\ Finite(x) => \/ x.n # 0 /\ x.e + BitLength(x.n) - 1 \in -38 .. -33
                        \/ bits = Signed(x, NearestHalf(x.n, x.e))

(***************************************************************************)
(* "Convert float32 to float16 (with rounding)" (fp16.hpp:21) and          *)
(* "ROUND_STYLE = round_to_nearest" (fp16.hpp:196), of every number.       *)
(***************************************************************************)
RoundsEveryNumber ==
  last = "constructor" /\ ~IsNaN(float) => bits = RoundedNearest(float)

=============================================================================
