------------------------------- MODULE MCFloat16 -------------------------------
(* Instances of Float16 for TLC. *)
EXTENDS Float16, TLC

(* Every place rounding can cut a mantissa, and its neighbours. *)
Cuts == UNION {{2^k - 1, 2^k, 2^k + 1, 3 * 2^k} : k \in 0 .. 21}
Mantissas == Cuts \cup {2^23 - 1 - m : m \in Cuts} \cup {2^22, 2^22 + 1, 5 * 2^12, 7 * 2^12}

EveryExponent == [sign : {0, 1}, exp : 0 .. 255, mant : Mantissas]
(* Halves of every exponent, zeros, infinities and NaNs included. *)
ManyOperands ==
  {s * 2^15 + e * 2^10 + m : s \in {0, 1}, e \in 0 .. 31,
                             m \in {0, 1, 511, 512, 1022, 1023}}

EveryHalf     == 0 .. 2^16 - 1
=============================================================================
