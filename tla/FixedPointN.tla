----------------------------- MODULE FixedPointN -----------------------------
(***************************************************************************)
(* FPN<F>, the sign-magnitude fixed-point number every price, quantity and *)
(* balance of the engine is made of (FixedPoint/FixedPointN.hpp).  A       *)
(* magnitude is N little-endian words, the lower half of them fractional;  *)
(* every operation works word by word with explicit carries, borrows and   *)
(* masks.  A word here holds Bits bits instead of 64, the decimal radix is *)
(* Radix instead of 10, and sign 1 is the Boolean neg.                     *)
(*                                                                         *)
(* The module has no state.  Loops over words are recursive functions.     *)
(***************************************************************************)
EXTENDS Sequences, Rounding

CONSTANTS
  Bits,    \* bits of a word (64 in the code)
  N,       \* words of a number, even (2 for FPN<64>)
  Radix,   \* radix of the strings (10 in the code)
  Places   \* fractional digits FPN_ToString writes by default (20 for FPN<64>)

B  == 2 ^ Bits
FW == N \div 2
Words == [0 .. N - 1 -> 0 .. B - 1]
FPNs  == [w : Words, neg : BOOLEAN]

Bit(p) == IF p THEN 1 ELSE 0

(* The weights of the words, for as many as a product has.                  *)
Powers[i \in 0 .. 2 * N] == IF i = 0 THEN 1 ELSE B * Powers[i - 1]

(* The integer n words stand for, and what those from word i on stand for   *)
(* by themselves.                                                           *)
Tails(w, n) ==
  LET sum[i \in 0 .. n] == IF i = n THEN 0 ELSE w[i] + B * sum[i + 1]
  IN  sum
Digits(w) == Tails(w, N)[0]
Value(v)  == IF v.neg THEN 0 - Digits(v.w) ELSE Digits(v.w)

-----------------------------------------------------------------------------
(* Magnitudes: little-endian arrays of words of any length. *)

MagIsZero(w) == \A i \in DOMAIN w : w[i] = 0

MagGe(a, b) ==
  LET ge[i \in 0 .. N - 1] ==
        IF i = 0 THEN a[0] >= b[0]
        ELSE a[i] > b[i] \/ (a[i] = b[i] /\ ge[i - 1])
  IN  ge[N - 1]

MagEq(a, b) == \A i \in 0 .. N - 1 : a[i] = b[i]
MagGt(a, b) == MagGe(a, b) /\ ~MagEq(a, b)

\* Slip: the carry is added after the word was cut to its width.
MagAddNWide(a, b) ==
  [i \in 0 .. N - 1 |-> ((a[i] + b[i]) % B) + Bit(i > 0 /\ a[i - 1] + b[i - 1] >= B)]

(* carry[i] is the carry into word i: out of the sum of the two words below *)
(* it, or out of adding the carry into them.                                *)
MagAddN(a, b) ==
  LET t == [i \in 0 .. N - 1 |-> (a[i] + b[i]) % B]
      carry[i \in 0 .. N] ==
        IF i = 0 THEN 0
        ELSE LET c == carry[i - 1]
             IN  Bit(t[i - 1] < a[i - 1] \/ (t[i - 1] + c) % B < t[i - 1])
  IN  [i \in 0 .. N - 1 |-> (t[i] + carry[i]) % B]

MagSubN(a, b) ==
  LET t == [i \in 0 .. N - 1 |-> (a[i] - b[i]) % B]
      borrow[i \in 0 .. N] ==
        IF i = 0 THEN 0
        ELSE LET c == borrow[i - 1]
             IN  Bit(a[i - 1] < b[i - 1] \/ t[i - 1] < c)
  IN  [i \in 0 .. N - 1 |-> (t[i] - borrow[i]) % B]

ZeroWords == [i \in 0 .. N - 1 |-> 0]
MaxWords  == [i \in 0 .. N - 1 |-> B - 1]
Zero == [w |-> ZeroWords, neg |-> FALSE]
One  == [w |-> [ZeroWords EXCEPT ![FW] = 1], neg |-> FALSE]

(* In-place multiplication and division of an array by one word; both leave *)
(* the array in .w and return the digit that left it in .out.               *)
MulSingle(a, b) ==
  LET n == Len(a)
      carry[i \in 0 .. n] ==
        IF i = 0 THEN 0 ELSE (a[i] * b + carry[i - 1]) \div B
  IN  [w |-> [i \in 1 .. n |-> (a[i] * b + carry[i - 1]) % B], out |-> carry[n]]

DivModSingle(a, b) ==
  LET n == Len(a)
      rem[i \in 1 .. n + 1] ==
        IF i = n + 1 THEN 0 ELSE (rem[i + 1] * B + a[i]) % b
  IN  [w |-> [i \in 1 .. n |-> (rem[i + 1] * B + a[i]) \div b], out |-> rem[1]]

-----------------------------------------------------------------------------
(* Conversions.  A double is its sign and its magnitude in units of        *)
(* B^-3, finer than the two words below the point that take it: the rest  *)
(* is cut off.  The integer part fits one word.                             *)
FromDouble(neg, m) ==
  LET w == [i \in 0 .. N - 1 |->
              CASE i = FW     -> m \div (B * B * B)
                [] i = FW - 1 -> (m \div (B * B)) % B
                [] i = FW - 2 -> (m \div B) % B
                [] OTHER      -> 0]
  IN  [w |-> w, neg |-> neg /\ ~MagIsZero(w)]

(* FPN_ToDouble: every word is converted and every sum rounded.  int adds   *)
(* the integer words from the lowest up, the fraction are the two words     *)
(* below them.                                                              *)
ToDouble(v) ==
  LET d(i) == AsDouble(v.w[i])
      int[i \in FW .. N - 1] ==
        IF i = FW THEN d(i) ELSE AsDouble(int[i - 1] + d(i) * Powers[i - FW])
  IN  [neg |-> v.neg,
       m   |-> IF FW >= 2
               THEN AsDouble(int[N - 1] * B * B
                               + AsDouble(d(FW - 1) * B + d(FW - 2))) * B
               ELSE AsDouble(int[N - 1] * B + d(FW - 1)) * B * B]

(* The two words around the point are those of an FP64. *)
FromFP64(v) ==
  [w |-> [ZeroWords EXCEPT ![FW - 1] = v.mag % B, ![FW] = v.mag \div B],
   neg |-> v.neg]
ToFP64(v) ==
  LET mag == v.w[FW] * B + v.w[FW - 1]
  IN  [mag |-> mag, neg |-> v.neg /\ mag # 0]

IntWords(w)  == [i \in 1 .. N - FW |-> w[FW + i - 1]]
FracWords(w) == [i \in 1 .. FW |-> w[i - 1]]

(* The digits of FPN_ToString: the integer part by repeated division, the  *)
(* fraction by repeated multiplication, the digits that overflow it.       *)
ToString(v) ==
  LET ints[k \in 0 .. N * Bits] ==
        IF k = 0 THEN [w |-> IntWords(v.w), out |-> 0]
        ELSE DivModSingle(ints[k - 1].w, Radix)
      len == CHOOSE k \in 1 .. N * Bits :
               /\ MagIsZero(ints[k].w)
               /\ k = 1 \/ ~MagIsZero(ints[k - 1].w)
      fracs[k \in 0 .. Places] ==
        IF k = 0 THEN [w |-> FracWords(v.w), out |-> 0]
        ELSE MulSingle(fracs[k - 1].w, Radix)
  IN  [neg  |-> v.neg /\ ~MagIsZero(v.w),
       int  |-> [i \in 1 .. len |-> ints[len + 1 - i].out],
       frac |-> [i \in 1 .. Places |-> fracs[i].out]]

(* FPN_FromString: the integer part is multiplied up digit by digit, its   *)
(* overflow dropped; the fraction is divided down from the last digit.     *)
AddDigit(a, d) ==
  LET carry[i \in 0 .. Len(a)] ==
        IF i = 0 THEN d ELSE (a[i] + carry[i - 1]) \div B
  IN  [i \in 1 .. Len(a) |-> (a[i] + carry[i - 1]) % B]

FromString(s) ==
  LET ints[k \in 0 .. Len(s.int)] ==
        IF k = 0 THEN [i \in 1 .. N - FW |-> 0]
        ELSE AddDigit(MulSingle(ints[k - 1], Radix).w, s.int[k])
      n == Len(s.frac)
      fracs[k \in 0 .. n] ==
        IF k = 0 THEN [i \in 1 .. FW + 1 |-> 0]
        ELSE DivModSingle([fracs[k - 1] EXCEPT ![FW + 1] = s.frac[n + 1 - k]], Radix).w
      w == [i \in 0 .. N - 1 |-> IF i < FW THEN fracs[n][i + 1]
                                 ELSE ints[Len(s.int)][i - FW + 1]]
  IN  [w |-> w, neg |-> s.neg /\ ~MagIsZero(w)]

-----------------------------------------------------------------------------
(* Guards and comparisons: the signs and the magnitudes combined as the     *)
(* bits of the code are.                                                    *)

BothZero(a, b) == MagIsZero(a.w) /\ MagIsZero(b.w)

LessThan(a, b) ==
  \/ a.neg # b.neg /\ a.neg /\ ~BothZero(a, b)
  \/ a.neg = b.neg /\ MagGt(b.w, a.w) # a.neg /\ ~MagEq(a.w, b.w)

Equal(a, b) == BothZero(a, b) \/ (MagEq(a.w, b.w) /\ a.neg = b.neg)

LessThanOrEqual(a, b)    == LessThan(a, b) \/ Equal(a, b)
GreaterThan(a, b)        == LessThan(b, a)
GreaterThanOrEqual(a, b) == ~LessThan(a, b)

MinFP(a, b) == IF LessThan(a, b) THEN a ELSE b

MaxFP(a, b) ==
  IF \/ a.neg # b.neg /\ ~a.neg
     \/ a.neg = b.neg /\ MagGt(a.w, b.w) # a.neg /\ ~MagEq(a.w, b.w)
  THEN a ELSE b

Negate(v) == [v EXCEPT !.neg = (@ # ~MagIsZero(v.w))]
Abs(v)    == [v EXCEPT !.neg = FALSE]
Sign(v)   == IF MagIsZero(v.w) THEN Zero ELSE [One EXCEPT !.neg = v.neg]

-----------------------------------------------------------------------------
(* Arithmetic. *)

(* FPN_AddSat: the sum of the magnitudes, or the smaller taken from the     *)
(* larger; the carry out of the last word is dropped.                       *)
AddSat(a, b) ==
  LET ge == MagGe(a.w, b.w)
      w  == IF a.neg = b.neg THEN MagAddN(a.w, b.w)
            ELSE IF ge THEN MagSubN(a.w, b.w) ELSE MagSubN(b.w, a.w)
      neg == IF a.neg = b.neg \/ ge THEN a.neg ELSE b.neg
  IN  [w |-> w, neg |-> neg /\ ~MagIsZero(w)]

SubSat(a, b) == AddSat(a, Negate(b))

(* FPN_Mul: row i adds a[i] * b to the 2N-word product from word i on and   *)
(* carries to its end; words beyond the shifted result mean overflow.       *)
MulRow(p, i, ai, b) ==
  LET term(k) == (IF k < i + N THEN ai * b[k - i] ELSE 0) + p[k]
      carry[k \in i .. 2 * N] ==
        IF k = i THEN 0 ELSE (term(k - 1) + carry[k - 1]) \div B
  IN  [k \in 0 .. 2 * N - 1 |-> IF k < i THEN p[k] ELSE (term(k) + carry[k]) % B]

Mul(a, b) ==
  LET rows[i \in 0 .. N] ==
        IF i = 0 THEN [k \in 0 .. 2 * N - 1 |-> 0]
        ELSE MulRow(rows[i - 1], i - 1, a.w[i - 1], b.w)
      p == rows[N]
      w == IF \E k \in FW + N .. 2 * N - 1 : p[k] # 0 THEN MaxWords
           ELSE [i \in 0 .. N - 1 |-> p[FW + i]]
  IN  [w |-> w, neg |-> a.neg # b.neg /\ ~MagIsZero(w)]

(* FPN_DivNoAssert: one bit of the quotient per round, from the top.  The   *)
(* remainder has 2N words, of which the upper N are compared and reduced;   *)
(* the bit shifted out of them is lost.  A zero divisor gives the maximum   *)
(* with the sign of the dividend.                                           *)
ShiftLeft1(v) ==
  [i \in 0 .. 2 * N - 1 |->
     ((2 * v[i]) % B) + (IF i = 0 THEN 0 ELSE v[i - 1] \div (B \div 2))]

\* Slip: the remainder is reduced only when it is larger than the divisor.
CondSubStrict(v, d) ==
  LET top == [i \in 0 .. N - 1 |-> v[N + i]]
      gt  == MagGt(top, d)
      res == IF gt THEN MagSubN(top, d) ELSE top
  IN  [rem |-> [i \in 0 .. 2 * N - 1 |-> IF i < N THEN v[i] ELSE res[i - N]],
       bit |-> Bit(gt)]

CondSub(v, d) ==
  LET top == [i \in 0 .. N - 1 |-> v[N + i]]
      ge  == MagGe(top, d)
      res == IF ge THEN MagSubN(top, d) ELSE top
  IN  [rem |-> [i \in 0 .. 2 * N - 1 |-> IF i < N THEN v[i] ELSE res[i - N]],
       bit |-> Bit(ge)]

Quotient(a, d) ==
  LET round[k \in 0 .. N * Bits] ==
        IF k = 0
        THEN [rem |-> [i \in 0 .. 2 * N - 1 |->
                         IF i \in FW .. FW + N - 1 THEN a[i - FW] ELSE 0],
              q   |-> ZeroWords]
        ELSE LET last == round[k - 1]
                 step == CondSub(ShiftLeft1(last.rem), d)
                 i    == N - 1 - (k - 1) \div Bits
             IN  [rem |-> step.rem,
                  q   |-> [last.q EXCEPT
                             ![i] = @ + step.bit * 2 ^ (Bits - 1 - ((k - 1) % Bits))]]
  IN  round[N * Bits].q

DivNoAssert(a, b) ==
  IF MagIsZero(b.w) THEN [w |-> MaxWords, neg |-> a.neg]
  ELSE LET w == Quotient(a.w, b.w)
       IN  [w |-> w, neg |-> a.neg # b.neg /\ ~MagIsZero(w)]

-----------------------------------------------------------------------------
(* Rounding and the functions built from the others. *)

HasFrac(v) == \E i \in 0 .. FW - 1 : v.w[i] # 0

(* The fraction cleared and the integer words raised by bump, the carry out *)
(* of the last one dropped.                                                 *)
Bumped(v, bump) ==
  LET carry[i \in FW .. N] ==
        IF i = FW THEN Bit(bump)
        ELSE LET c == carry[i - 1]
             IN  Bit((v.w[i - 1] + c) % B < v.w[i - 1])
  IN  [i \in 0 .. N - 1 |-> IF i < FW THEN 0 ELSE (v.w[i] + carry[i]) % B]

Floor(v) == [w |-> Bumped(v, v.neg /\ HasFrac(v)), neg |-> v.neg]

\* Slip: negative fractions are rounded away from zero, too.
CeilBothSigns(v) == [w |-> Bumped(v, HasFrac(v)), neg |-> v.neg]

Ceil(v) ==
  LET w == Bumped(v, ~v.neg /\ HasFrac(v))
  IN  [w |-> w, neg |-> v.neg /\ ~MagIsZero(w)]

Round(v) ==
  LET w == Bumped(v, v.w[FW - 1] >= B \div 2)
  IN  [w |-> w, neg |-> v.neg /\ ~MagIsZero(w)]

Truncate(v) == [v EXCEPT !.w = [i \in 0 .. N - 1 |-> IF i < FW THEN 0 ELSE @[i]]]

Mod(a, b) == SubSat(a, Mul(Truncate(DivNoAssert(a, b)), b))

Lerp(a, b, t) == AddSat(a, Mul(SubSat(b, a), t))

SmoothStep(edge0, edge1, x) ==
  LET t     == DivNoAssert(SubSat(x, edge0), SubSat(edge1, edge0))
      three == FromDouble(FALSE, 3 * (B * B * B))
      two   == FromDouble(FALSE, 2 * (B * B * B))
      poly  == Mul(Mul(t, t), SubSat(three, Mul(two, t)))
      below == LessThanOrEqual(x, edge0)
      above == GreaterThanOrEqual(x, edge1)
  IN  CASE above            -> One
        [] below /\ ~above -> Zero
        [] OTHER            -> poly
=============================================================================
