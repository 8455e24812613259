----------------------------- MODULE FixedPoint -----------------------------
(***************************************************************************)
(* A chain of fixed-point operations, the way the engine computes a fee or *)
(* a gate: a register acc takes the result of an operation on itself and   *)
(* on operands.  The operations are those of FixedPointN, and for two      *)
(* words the results are compared with FixedPoint64, which a build with    *)
(* USE_NATIVE_128 calls instead.                                           *)
(***************************************************************************)
EXTENDS FixedPointN

CONSTANTS
  Operands,  \* numbers the register is combined with
  Ends       \* the ends, edges and weights of Lerp and SmoothStep

FP64 == INSTANCE FixedPoint64 WITH Word <- B

(* The weights of the digits of a string.                                   *)
Scale[k \in 0 .. Places] == IF k = 0 THEN 1 ELSE Radix * Scale[k - 1]

Unit    == Powers[FW]         \* 1.0 in units of the last fractional bit
Limit   == Digits(MaxWords)   \* the largest magnitude
Size(n) == IF n < 0 THEN 0 - n ELSE n

\* Words of some bits, an even number of them, and as many digits as tell the
\* fractions apart.
FormatOK == Bits \in Nat \ {0} /\ N \in Nat \ {0} /\ N % 2 = 0
DigitsOK == Radix \in 2 .. B /\ Places \in Nat /\ Scale[Places] >= Unit

\* Floating point with some bits, more of them in a long double.
DoublesOK ==
  Mantissa \in Nat \ {0} /\ LongMantissa \in Nat /\ LongMantissa >= Mantissa
  /\ Exponents \in Nat

ASSUME FormatAssumption ==
  FormatOK /\ DigitsOK /\ DoublesOK /\ Operands \subseteq FPNs /\ Ends \subseteq FPNs

VARIABLES
  acc,       \* the register
  last       \* history: the operation that just filled it and its operands

vars == <<acc, last>>

Fresh == [op |-> "none", a |-> Zero, b |-> Zero, c |-> Zero]

TypeOK == acc \in FPNs /\ {last.a, last.b, last.c} \subseteq FPNs

Init == acc = Zero /\ last = Fresh

-----------------------------------------------------------------------------
(* The history is forgotten before the next operation of the chain. *)
Continue == last # Fresh /\ last' = Fresh /\ UNCHANGED acc

Compute3(op, b, c, result) ==
  /\ last = Fresh
  /\ acc' = result
  /\ last' = [op |-> op, a |-> acc, b |-> b, c |-> c]
Compute2(op, b, result) == Compute3(op, b, Zero, result)
Compute1(op, result)    == Compute2(op, Zero, result)

Load     == \E b \in Operands : Compute2("Load", b, b)
Add      == \E b \in Operands : Compute2("AddSat", b, AddSat(acc, b))
Subtract == \E b \in Operands : Compute2("SubSat", b, SubSat(acc, b))
Multiply == \E b \in Operands : Compute2("Mul", b, Mul(acc, b))
Divide   == \E b \in Operands : Compute2("DivNoAssert", b, DivNoAssert(acc, b))
Remain   ==   \* FPN_Mod asserts that the divisor is not zero
  \E b \in Operands : ~MagIsZero(b.w) /\ Compute2("Mod", b, Mod(acc, b))
Lesser   == \E b \in Operands : Compute2("Min", b, MinFP(acc, b))
Greater  == \E b \in Operands : Compute2("Max", b, MaxFP(acc, b))
Oppose   == Compute1("Negate", Negate(acc))
Strip    == Compute1("Abs", Abs(acc))
Signum   == Compute1("Sign", Sign(acc))
Down     == Compute1("Floor", Floor(acc))
Up       == Compute1("Ceil", Ceil(acc))
Nearest  == Compute1("Round", Round(acc))
Blend    == \E b, t \in Ends : Compute3("Lerp", b, t, Lerp(acc, b, t))
Smooth ==   \* needs room for 3.0
  /\ B > 3
  /\ \E e0, e1 \in Ends : Compute3("SmoothStep", e0, e1, SmoothStep(e0, e1, acc))

(* Out and back: through a string with the default number of digits, *)
(* through a double, through an FP64.                                 *)
Text == Compute1("Text", FromString(ToString(acc)))
Double ==   \* the integer part fits the one word FPN_FromDouble fills
  LET d == ToDouble(acc)
  IN  /\ d.m < B * B * B * B
      /\ Compute1("Double", FromDouble(d.neg, d.m))
Narrow == Compute1("Narrow", FromFP64(ToFP64(acc)))

Next ==
  \/ Load \/ Add \/ Subtract \/ Multiply \/ Divide \/ Remain \/ Lesser \/ Greater
  \/ Oppose \/ Strip \/ Signum \/ Down \/ Up \/ Nearest \/ Blend \/ Smooth
  \/ Text \/ Double \/ Narrow \/ Continue

Spec == Init /\ [][Next]_vars

-----------------------------------------------------------------------------
(* What the operands and the result are worth. *)
Did(op) == last.op = op
ValA == Value(last.a)
ValB == Value(last.b)
ValC == Value(last.c)
Result == Value(acc)

(* A sum or a difference is exact while its magnitude fits; beyond, the      *)
(* magnitude wraps and keeps its sign: FPN_AddSat saturates nothing.         *)
ExactOrWrapped(r, s) ==
  IF Size(s) <= Limit THEN r = s
  ELSE Size(r) = Size(s) - (Limit + 1) /\ (r # 0 => (r < 0 <=> s < 0))

SumsMatch ==
  /\ Did("AddSat") => ExactOrWrapped(Result, ValA + ValB)
  /\ Did("SubSat") => ExactOrWrapped(Result, ValA - ValB)

(* A product is cut off towards zero to the last bit, and saturates when the *)
(* carries of the partial products reach the words beyond the result.        *)
ProductsMatch ==
  Did("Mul") =>
    LET p == (Size(ValA) * Size(ValB)) \div Unit
    IN  /\ Size(Result) = IF p > Limit THEN Limit ELSE p
        /\ Result # 0 => (Result < 0 <=> (ValA < 0 <=> ~(ValB < 0)))

(* A quotient that fits is cut off towards zero, as long as the divisor      *)
(* leaves the top bit free that the remainder is shifted through; a zero     *)
(* divisor gives the largest magnitude with the sign of the dividend.        *)
DivisionFits(a, b) ==
  /\ b # 0 /\ 2 * Size(b) <= Limit + 1
  /\ (Size(a) * Unit) \div Size(b) <= Limit

QuotientsMatch ==
  Did("DivNoAssert") =>
    /\ DivisionFits(ValA, ValB) =>
         /\ Size(Result) = (Size(ValA) * Unit) \div Size(ValB)
         /\ Result # 0 => (Result < 0 <=> (ValA < 0 <=> ~(ValB < 0)))
    /\ ValB = 0 => Size(Result) = Limit /\ acc.neg = last.a.neg

(* The remainder of FPN_Mod, put together from a quotient cut off twice, is  *)
(* smaller than the divisor, has the sign of the dividend and differs from   *)
(* it by a multiple of the divisor.                                          *)
RemaindersMatch ==
  Did("Mod") /\ DivisionFits(ValA, ValB) =>
    /\ Size(Result) < Size(ValB)
    /\ Result # 0 => (Result < 0 <=> ValA < 0)
    /\ (ValA - Result) % Size(ValB) = 0

(* The comparisons, built from sign bits and magnitudes, order numbers as    *)
(* their values are ordered, whatever signs the zeros carry, and the guards  *)
(* return the operand the comparison says.                                   *)
OrderMatchesValues ==
  /\ LessThan(last.a, last.b) <=> ValA < ValB
  /\ LessThanOrEqual(last.a, last.b) <=> ValA <= ValB
  /\ GreaterThan(last.a, last.b) <=> ValA > ValB
  /\ GreaterThanOrEqual(last.a, last.b) <=> ValA >= ValB
  /\ Equal(last.a, last.b) <=> ValA = ValB
  /\ Did("Min") => Result = IF ValA < ValB THEN ValA ELSE ValB
  /\ Did("Max") => Result = IF ValA > ValB THEN ValA ELSE ValB

(* Floor, Ceil and Round give the whole number below, above and nearest (a   *)
(* half away from zero), unless the carry out of the integer words is lost.  *)
RoundingBrackets ==
  Size(ValA) + Unit <= Limit =>
    /\ Did("Floor") => Result % Unit = 0 /\ Result <= ValA /\ ValA < Result + Unit
    /\ Did("Ceil")  => Result % Unit = 0 /\ Result >= ValA /\ ValA > Result - Unit
    /\ Did("Round") =>
         /\ Result % Unit = 0 /\ 2 * Size(ValA - Result) <= Unit
         /\ 2 * Size(ValA - Result) = Unit => Size(Result) > Size(ValA)

(* A negative zero comes from a Floor whose carry was lost and from nowhere  *)
(* else: the other operations hand one on at most.                           *)
NegativeZero(v) == v.neg /\ MagIsZero(v.w)
NegativeZeroContained ==
  NegativeZero(acc) /\ last # Fresh =>
    \/ Did("Floor")
    \/ NegativeZero(last.a) /\ last.op \in {"Negate", "Min", "Max"}
    \/ NegativeZero(last.b) /\ last.op \in {"Load", "Min", "Max"}

(* Interpolating with a weight between zero and one stays between the ends.  *)
BlendsBetween ==
  Did("Lerp") /\ 0 <= ValC /\ ValC <= Unit /\ Size(ValB - ValA) <= Limit =>
    \/ ValA <= Result /\ Result <= ValB
    \/ ValB <= Result /\ Result <= ValA

(* A smooth step lies between zero and one and is at its ends outside the    *)
(* edges; with equal edges the upper one wins.                               *)
SmoothStepClamped ==
  Did("SmoothStep") /\ ValB <= ValC /\ 2 * (ValC - ValB) <= Limit + 1 =>
    /\ 0 <= Result /\ Result <= Unit
    /\ ValA >= ValC => Result = Unit
    /\ ValA <= ValB /\ ValB < ValC => Result = 0

(* Numbers a double holds, in units of the last bit.                         *)
FitsDouble(n) ==
  \E e \in 0 .. N * Bits : n % 2 ^ e = 0 /\ n < 2 ^ (e + Mantissa)

(* Reading back what was written loses at most the last bit, towards zero.   *)
(* Two words come back from a double as they were if a double holds them,    *)
(* and with a relative error of at most three roundings if none does; from   *)
(* an FP64 they always do.                                                   *)
RoundTrips ==
  /\ Did("Text") =>
       /\ Size(Result) = Size(ValA) \/ Size(Result) = Size(ValA) - 1
       /\ Result # 0 => (Result < 0 <=> ValA < 0)
  /\ Did("Double") /\ N = 2 =>
       /\ Size(Result - ValA) * 2 ^ Mantissa <= 3 * Size(ValA)
       /\ FitsDouble(Size(ValA)) => Result = ValA
  /\ Did("Narrow") /\ N = 2 => Result = ValA

(* What the operations compute is what integers compute, step after step of  *)
(* a chain, whatever the carries, borrows and masks did on the way.          *)
ArithmeticMatchesIntegers ==
  /\ SumsMatch /\ ProductsMatch /\ QuotientsMatch /\ RemaindersMatch
  /\ BlendsBetween /\ SmoothStepClamped /\ RoundTrips

(* Signs, magnitudes and whole parts tell the same story.                    *)
OrderAndRounding ==
  OrderMatchesValues /\ RoundingBrackets /\ NegativeZeroContained

(* FixedPointN.hpp:203 says of the string conversions that they preserve     *)
(* every bit.                                                                *)
StringsPreserveEveryBit == Did("Text") => Result = ValA

(* What the two builds have in common.  Of the operations forwarded, sums    *)
(* and differences that fit, products, comparisons, guards and conversions   *)
(* from and to a double give the same; a sum that does not fit wraps in one  *)
(* build and saturates in the other.  A quotient is the same for a divisor   *)
(* of zero, and where the operands and the exact quotient are doubles;       *)
(* elsewhere the 128-bit build rounds it and the other cuts it off, and      *)
(* nothing is claimed.  Sign, Floor, Ceil and Round are not forwarded and    *)
(* would give the same; Lerp is put together from forwarded operations.      *)
(* Square roots are forwarded and not modelled.                              *)
ExactQuotient(a, b) ==
  /\ DivisionFits(a, b) /\ (Size(a) * Unit) % Size(b) = 0
  /\ FitsDouble(Size(a)) /\ FitsDouble(Size(b))
  /\ FitsDouble((Size(a) * Unit) \div Size(b))
Native(v) == [mag |-> Digits(v.w), neg |-> v.neg]
BuildsAgree ==
  N = 2 =>
    LET a == Native(last.a)
        b == Native(last.b)
        t == Native(last.c)
        r == Native(acc)
    IN  /\ Did("AddSat") =>
             IF Size(ValA + ValB) <= Limit THEN r = FP64!AddSat(a, b)
             ELSE FP64!AddSat(a, b).mag = Limit
        /\ Did("SubSat") /\ Size(ValA - ValB) <= Limit => r = FP64!SubSat(a, b)
        /\ Did("Mul") => r = FP64!Mul(a, b)
        /\ Did("DivNoAssert") /\ (ValB = 0 \/ ExactQuotient(ValA, ValB)) =>
             r = FP64!DivNoAssert(a, b)
        /\ Did("Double") =>
             LET d == FP64!ToDouble(a) IN r = FP64!FromDouble(d.neg, d.m)
        /\ Did("Min") => Result = FP64!Value(FP64!MinFP(a, b))
        /\ Did("Max") => Result = FP64!Value(FP64!MaxFP(a, b))
        /\ Did("Negate") => r = FP64!Negate(a)
        /\ Did("Abs") => r = FP64!Abs(a)
        /\ Did("Sign") => r = FP64!Sign(a)
        /\ Did("Floor") => r = FP64!Floor(a)
        /\ Did("Ceil") => r = FP64!Ceil(a)
        /\ Did("Round") => r = FP64!Round(a)
        /\ Did("Lerp") /\ 0 <= ValC /\ ValC <= Unit /\ Size(ValB - ValA) <= Limit =>
             r = FP64!Lerp(a, b, t)
        /\ FP64!LessThan(a, b) <=> LessThan(last.a, last.b)
        /\ FP64!LessThanOrEqual(a, b) <=> LessThanOrEqual(last.a, last.b)
        /\ FP64!GreaterThan(a, b) <=> GreaterThan(last.a, last.b)
        /\ FP64!GreaterThanOrEqual(a, b) <=> GreaterThanOrEqual(last.a, last.b)
        /\ FP64!Equal(a, b) <=> Equal(last.a, last.b)
=============================================================================
