---------------------------- MODULE FixedPoint64 ----------------------------
(***************************************************************************)
(* FP64, the number FPN<64> is forwarded to in a build with USE_NATIVE_128 *)
(* (FixedPoint/FixedPoint64.hpp): a sign and one magnitude of two words.   *)
(* Addition and multiplication split it into the words hi and lo.          *)
(*                                                                         *)
(* Division goes through doubles, and a long double for the quotient.      *)
(***************************************************************************)
EXTENDS Rounding

CONSTANT Word   \* values of a word: 2^64 in the code, and the value of 1.0

\* What the theorems ask of it; FormatAssumption of FixedPoint gives it for
\* every instance the run uses.
WordOK == Word \in Nat /\ Word > 1

MaxMag == Word * Word - 1
FP64s  == [mag : 0 .. MaxMag, neg : BOOLEAN]

Lo(m) == m % Word
Hi(m) == m \div Word
Join(hi, lo) == hi * Word + lo
Borrow(p) == IF p THEN 1 ELSE 0

Value(v) == IF v.neg THEN 0 - v.mag ELSE v.mag

-----------------------------------------------------------------------------
(* The 128-bit addition wraps; that it did is seen from the sum. *)
WrappedSum(a, b) == (a + b) % (Word * Word)
SaturatedSum(a, b) ==
  LET sum == WrappedSum(a, b) IN IF sum < a THEN MaxMag ELSE sum

\* Slip: the borrow of the lower word is forgotten.
WordDifferenceNoBorrow(a, b) ==
  Join((Hi(a) - Hi(b)) % Word, (Lo(a) - Lo(b)) % Word)

(* a - b on the words, with the borrow of the lower one. *)
WordDifference(a, b) ==
  LET lo == (Lo(a) - Lo(b)) % Word
      hi == (Hi(a) - Hi(b) - Borrow(Lo(a) < Lo(b))) % Word
  IN  Join(hi, lo)

MagGe(a, b) == Hi(a) > Hi(b) \/ (Hi(a) = Hi(b) /\ Lo(a) >= Lo(b))

AddSat(a, b) ==
  LET ge  == MagGe(a.mag, b.mag)
      mag == IF a.neg = b.neg THEN SaturatedSum(a.mag, b.mag)
             ELSE IF ge THEN WordDifference(a.mag, b.mag)
             ELSE WordDifference(b.mag, a.mag)
      neg == IF a.neg = b.neg \/ ge THEN a.neg ELSE b.neg
  IN  [mag |-> mag, neg |-> neg /\ mag # 0]

Negate(v)    == [v EXCEPT !.neg = (@ # (v.mag # 0))]
SubSat(a, b) == AddSat(a, Negate(b))

(* The middle 128 bits of the product; mid and shifted are 128-bit sums. *)
Mul(a, b) ==
  LET ll == Lo(a.mag) * Lo(b.mag)
      lh == Lo(a.mag) * Hi(b.mag)
      hl == Hi(a.mag) * Lo(b.mag)
      hh == Hi(a.mag) * Hi(b.mag)
      mid     == (lh + hl + Hi(ll)) % (Word * Word)
      shifted == (hh + Hi(mid)) % (Word * Word)
      mag     == IF Hi(shifted) # 0 THEN MaxMag ELSE Join(Lo(shifted), Lo(mid))
  IN  [mag |-> mag, neg |-> a.neg # b.neg /\ mag # 0]

(* A double is its sign and its magnitude in units of Word^-3.             *)
FromDouble(neg, m) ==
  LET mag == m \div (Word * Word) IN [mag |-> mag, neg |-> neg /\ mag # 0]

Magnitude(v) == AsDouble(AsDouble(Hi(v.mag)) * Word + AsDouble(Lo(v.mag)))
ToDouble(v)  == [neg |-> v.neg, m |-> Magnitude(v) * Word * Word]

(* The quotient of two doubles, in units of Word^-2, is rounded twice.     *)
DivNoAssert(a, b) ==
  IF b.mag = 0 THEN [mag |-> MaxMag, neg |-> a.neg]
  ELSE LET fq  == Rounded(Magnitude(a) * Word * Word, Magnitude(b), LongMantissa)
           mag == FromDouble(FALSE, AsDouble(fq) * Word).mag
       IN  [mag |-> mag, neg |-> a.neg # b.neg /\ mag # 0]

-----------------------------------------------------------------------------
BothZero(a, b) == a.mag = 0 /\ b.mag = 0

Equal(a, b) == BothZero(a, b) \/ (a.mag = b.mag /\ a.neg = b.neg)

LessThan(a, b) ==
  \/ a.neg # b.neg /\ a.neg /\ ~BothZero(a, b)
  \/ a.neg = b.neg /\ (a.mag < b.mag) # a.neg /\ a.mag # b.mag

LessThanOrEqual(a, b)    == LessThan(a, b) \/ Equal(a, b)
GreaterThan(a, b)        == LessThan(b, a)
GreaterThanOrEqual(a, b) == ~LessThan(a, b)

MinFP(a, b) == IF LessThan(a, b) THEN a ELSE b

MaxFP(a, b) ==
  IF \/ a.neg # b.neg /\ ~a.neg
     \/ a.neg = b.neg /\ (a.mag > b.mag) # a.neg /\ a.mag # b.mag
  THEN a ELSE b

Abs(v)  == [v EXCEPT !.neg = FALSE]
Sign(v) == [mag |-> IF v.mag # 0 THEN Word ELSE 0, neg |-> v.neg /\ v.mag # 0]

-----------------------------------------------------------------------------
(* The fraction is the lower word.  The bump is added to the 128-bit        *)
(* magnitude and wraps.                                                     *)
Truncated(m) == m - Lo(m)
Bumped(m, bump) == (Truncated(m) + (IF bump THEN Word ELSE 0)) % (Word * Word)

Floor(v) == [mag |-> Bumped(v.mag, v.neg /\ Lo(v.mag) # 0), neg |-> v.neg]

Ceil(v) ==
  LET mag == Bumped(v.mag, ~v.neg /\ Lo(v.mag) # 0)
  IN  [mag |-> mag, neg |-> v.neg /\ mag # 0]

Round(v) ==
  LET mag == Bumped(v.mag, Lo(v.mag) >= Word \div 2)
  IN  [mag |-> mag, neg |-> v.neg /\ mag # 0]

Lerp(a, b, t) == AddSat(a, Mul(SubSat(b, a), t))
=============================================================================
