------------------------------ MODULE Rounding ------------------------------
(***************************************************************************)
(* Floating point as FPN_ToDouble and FP64_DivNoAssert use it: a double is *)
(* a whole number of Mantissa bits times a power of two, and a result that *)
(* is none is rounded to the nearest one, a tie to the even one.  A long   *)
(* double has LongMantissa bits.  Only magnitudes are rounded here.        *)
(***************************************************************************)
EXTENDS Integers

CONSTANTS
  Mantissa,      \* bits of a double (53)
  LongMantissa,  \* bits of a long double (64)
  Exponents      \* powers of two tried as the spacing of doubles

(* The distance of neighbours around p / d: what is needed for the bits     *)
(* above it to be no more than bits, and 1 at least.                        *)
Spacing(p, d, bits) ==
  LET up[e \in 0 .. Exponents] ==
        IF e = 0 THEN 1
        ELSE IF p >= d * 2 ^ (e - 1 + bits) THEN 2 ^ e ELSE up[e - 1]
  IN  up[Exponents]

(* The whole number nearest to p / y.                                       *)
NearestEven(p, y) ==
  LET q == p \div y
      r == 2 * (p % y)
  IN  IF r < y \/ (r = y /\ q % 2 = 0) THEN q ELSE q + 1

Rounded(p, d, bits) ==
  LET u == Spacing(p, d, bits) IN u * NearestEven(p, d * u)

AsDouble(n) == Rounded(n, 1, Mantissa)
=============================================================================
