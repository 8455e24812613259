-------------------------- MODULE FixedPointProofs --------------------------
(***************************************************************************)
(* Proofs about the numbers the amounts are: FPN<F>, for any even number   *)
(* of words of any width, its other build FP64, and a chain of operations. *)
(*                                                                         *)
(* A loop over words is a recursive function; what it computes is found by *)
(* induction over the set of words it has done right.  From the loops      *)
(* follow the operations, from those the invariant of the chain: the       *)
(* register is a number, and the history says which operation on which     *)
(* numbers it is the result of.                                            *)
(***************************************************************************)
EXTENDS FixedPoint, FiniteSetTheorems, NaturalsInduction, WellFoundedInduction,
        TLAPS

-----------------------------------------------------------------------------
(* Loops over words: induction on an interval, recursion by a step function.*)

\* Induction on an interval, over a set instead of a predicate.
LEMMA IntervalInduction ==
  ASSUME NEW n \in Nat, NEW T, 0 \in T,
         \A i \in 0 .. n : i # n /\ i \in T => (i + 1) \in T
  PROVE  \A i \in 0 .. n : i \in T
<1> SUFFICES ASSUME NEW k \in 0 .. n, k \notin T PROVE FALSE
  OBVIOUS
<1> DEFINE S == {i \in 0 .. n : i \notin T}
<1>1. S \subseteq Nat /\ k \in S
  OBVIOUS
<1>2. PICK m \in S : \A i \in S : ~ (i < m)
  <2>1. IsWellFoundedOn(OpToRel(<, Nat), Nat)
    BY NatLessThanWellFounded
  <2>2. \E m \in S : \A i \in S : ~ (<<i, m>> \in OpToRel(<, Nat))
    BY <1>1, <2>1, WFMin
  <2> QED
    BY <1>1, <2>2 DEF OpToRel
<1>3. m # 0 /\ m \in 0 .. n /\ m \notin T
  OBVIOUS
<1>4. m - 1 \in 0 .. n /\ m - 1 < m /\ (m - 1) + 1 = m /\ m - 1 # n
  BY <1>3
<1>5. m - 1 \in T
  BY <1>2, <1>4
<1> QED
  BY <1>3, <1>4, <1>5

\* f is computed from x, n steps long.
Iterates(f, n, S, x, step) ==
  /\ f \in [0 .. n -> S] /\ f[0] = x
  /\ \A i \in 1 .. n : f[i] = step[i][f[i - 1]]

\* A recursion over an interval, by a step function.
LEMMA Iteration ==
  ASSUME NEW n \in Nat, NEW S, NEW x \in S, NEW step \in [1 .. n -> [S -> S]]
  PROVE  \E f : Iterates(f, n, S, x, step)
<1> DEFINE Good(k, f) == /\ f \in [0 .. k -> S] /\ f[0] = x
                         /\ \A i \in 1 .. k : f[i] = step[i][f[i - 1]]
           T == {k \in 0 .. n : \E f : Good(k, f)}
<1>1. 0 \in T
  <2>1. Good(0, [i \in 0 .. 0 |-> x])
    OBVIOUS
  <2>2. \E f : Good(0, f)
    <3> HIDE DEF Good
    <3> QED
      BY <2>1
  <2> QED
    BY <2>2
<1>2. \A k \in 0 .. n : k # n /\ k \in T => (k + 1) \in T
  <2> SUFFICES ASSUME NEW k \in 0 .. n, k # n, NEW f, Good(k, f)
               PROVE  \E g : Good(k + 1, g)
    OBVIOUS
  <2> DEFINE g == [i \in 0 .. k + 1 |-> IF i = k + 1 THEN step[k + 1][f[k]]
                                        ELSE f[i]]
  <2>1. f[k] \in S /\ k + 1 \in 1 .. n /\ k + 1 \in Nat
    OBVIOUS
  <2>2. step[k + 1][f[k]] \in S
    BY <2>1
  <2>3. g \in [0 .. k + 1 -> S] /\ g[0] = x
    BY <2>1, <2>2
  <2>4. ASSUME NEW i \in 1 .. k + 1
        PROVE  g[i] = step[i][g[i - 1]]
    <3>1. i - 1 \in 0 .. k /\ g[i - 1] = f[i - 1]
      BY <2>1, <2>4
    <3>2. CASE i = k + 1
      BY <2>1, <3>1, <3>2
    <3>3. CASE i # k + 1
      BY <2>1, <2>4, <3>3, <3>1
    <3> QED
      BY <3>2, <3>3
  <2>5. Good(k + 1, g)
    BY <2>3, <2>4
  <2> QED
    BY <2>5
<1> HIDE DEF T
<1>3. n \in T
  <2>1. \A i \in 0 .. n : i \in T
    BY <1>1, <1>2, IntervalInduction
  <2> QED
    BY <2>1
<1> QED
  BY <1>3 DEF T, Iterates

\* What most of the facts need of the format.
WordsOK == B \in Nat /\ B > 1 /\ N \in Nat /\ N > 0

\* The tails of words, as their recursion puts it.
LEMMA TailsFacts ==
  ASSUME WordsOK, NEW n \in Nat, NEW w \in [0 .. n - 1 -> Nat]
  PROVE  /\ Tails(w, n) \in [0 .. n -> Nat] /\ Tails(w, n)[n] = 0
         /\ \A i \in 0 .. n - 1 : Tails(w, n)[i] = w[i] + B * Tails(w, n)[i + 1]
<1> DEFINE step == [i \in 1 .. n |-> [v \in Nat |-> w[n - i] + B * v]]
           Is(f) == f = [i \in 0 .. n |-> IF i = n THEN 0 ELSE w[i] + B * f[i + 1]]
<1>1. step \in [1 .. n -> [Nat -> Nat]]
  <2> SUFFICES ASSUME NEW i \in 1 .. n, NEW v \in Nat
               PROVE  w[n - i] + B * v \in Nat
    OBVIOUS
  <2>1. n - i \in 0 .. n - 1
    OBVIOUS
  <2>2. w[n - i] \in Nat /\ B * v \in Nat
    BY <2>1 DEF WordsOK
  <2> QED
    BY <2>2
<1>2. PICK g : Iterates(g, n, Nat, 0, step)
  <2> HIDE DEF step
  <2>1. 0 \in Nat
    OBVIOUS
  <2> QED
    BY <1>1, <2>1, Iteration
<1>21. /\ g \in [0 .. n -> Nat] /\ g[0] = 0
       /\ \A i \in 1 .. n : g[i] = step[i][g[i - 1]]
  BY <1>2 DEF Iterates
<1> DEFINE h == [i \in 0 .. n |-> g[n - i]]
<1>3. ASSUME NEW i \in 0 .. n, i # n
      PROVE  g[n - i] = w[i] + B * g[n - (i + 1)]
  <2>1. n - i \in 1 .. n /\ n - (i + 1) \in 0 .. n /\ (n - i) - 1 = n - (i + 1)
        /\ n - (n - i) = i
    BY <1>3
  <2>2. g[n - i] = step[n - i][g[n - (i + 1)]]
    BY <1>21, <2>1
  <2>3. g[n - (i + 1)] \in Nat
    BY <1>21, <2>1
  <2> QED
    BY <2>1, <2>2, <2>3
<1>4. Is(h)
  BY <1>3, <1>21
<1>5. Tails(w, n) = CHOOSE f : Is(f)
  BY DEF Tails
<1>6. Is(Tails(w, n))
  <2> HIDE DEF Is
  <2> QED
    BY <1>4, <1>5
<1> DEFINE t == Tails(w, n)
<1>7. t = [i \in 0 .. n |-> IF i = n THEN 0 ELSE w[i] + B * t[i + 1]]
  BY <1>6
<1>8. t[n] = 0 /\ \A i \in 0 .. n - 1 : t[i] = w[i] + B * t[i + 1]
  BY <1>7
<1>9. \A k \in 0 .. n : t[n - k] \in Nat
  <2> DEFINE T == {k \in 0 .. n : t[n - k] \in Nat}
  <2>1. 0 \in T
    BY <1>8
  <2>2. \A k \in 0 .. n : k # n /\ k \in T => (k + 1) \in T
    <3> SUFFICES ASSUME NEW k \in 0 .. n, k # n, t[n - k] \in Nat
                 PROVE  t[n - (k + 1)] \in Nat
      OBVIOUS
    <3>1. n - (k + 1) \in 0 .. n - 1 /\ (n - (k + 1)) + 1 = n - k
      OBVIOUS
    <3>2. t[n - (k + 1)] = w[n - (k + 1)] + B * t[n - k]
      BY <1>8, <3>1
    <3> HIDE DEF t
    <3>3. B * t[n - k] \in Nat /\ w[n - (k + 1)] \in Nat
      BY <3>1 DEF WordsOK
    <3> QED
      BY <3>2, <3>3
  <2> HIDE DEF T
  <2>3. \A k \in 0 .. n : k \in T
    BY <2>1, <2>2, IntervalInduction
  <2> QED
    BY <2>3 DEF T
<1>10. t \in [0 .. n -> Nat]
  <2>1. \A i \in 0 .. n : t[i] \in Nat
    <3> TAKE i \in 0 .. n
    <3>1. n - i \in 0 .. n /\ n - (n - i) = i
      OBVIOUS
    <3> HIDE DEF t
    <3> QED
      BY <1>9, <3>1
  <2>2. DOMAIN t = 0 .. n
    BY <1>7
  <2>3. t = [i \in 0 .. n |-> t[i]]
    BY <1>7
  <2> HIDE DEF t
  <2> QED
    BY <2>1, <2>3
<1> QED
  BY <1>8, <1>10

-----------------------------------------------------------------------------
(* The word: a power of two.                                               *)

\* The powers of two, counted as the subsets of an interval.
LEMMA PowersOfTwo ==
  ASSUME NEW e \in Nat
  PROVE  2 ^ e \in Nat /\ 2 ^ (e + 1) = 2 * 2 ^ e
<1> DEFINE S == 1 .. e
           x == e + 1
           L == SUBSET S
           R == {T \cup {x} : T \in L}
<1>1. IsFiniteSet(S) /\ Cardinality(S) = e
  BY FS_Interval
<1>2. IsFiniteSet(1 .. e + 1) /\ Cardinality(1 .. e + 1) = e + 1
  BY FS_Interval
<1>3. IsFiniteSet(L) /\ Cardinality(L) = 2 ^ e
  BY <1>1, FS_SUBSET
<1>4. Cardinality(SUBSET (1 .. e + 1)) = 2 ^ (e + 1)
  BY <1>2, FS_SUBSET
<1>5. SUBSET (1 .. e + 1) = L \cup R /\ L \cap R = {}
  <2>1. x \notin S /\ 1 .. e + 1 = S \cup {x}
    OBVIOUS
  <2> HIDE DEF S, x
  <2>2. ASSUME NEW T \in SUBSET (S \cup {x}) PROVE T \in L \cup R
    <3>1. CASE x \in T
      <4>1. T \ {x} \in L /\ T = (T \ {x}) \cup {x}
        BY <2>2, <3>1
      <4> QED
        BY <4>1
    <3>2. CASE x \notin T
      BY <2>2, <3>2
    <3> QED
      BY <3>1, <3>2
  <2>3. L \cup R \subseteq SUBSET (S \cup {x})
    OBVIOUS
  <2>4. L \cap R = {}
    BY <2>1
  <2> QED
    BY <2>1, <2>2, <2>3, <2>4
<1>6. IsFiniteSet(R) /\ Cardinality(R) = Cardinality(L)
  <2> DEFINE f == [T \in L |-> T \cup {x}]
  <2>1. x \notin S
    OBVIOUS
  <2> HIDE DEF S, x
  <2>2. f \in [L -> R] /\ \A T \in R : \E V \in L : f[V] = T
    OBVIOUS
  <2>3. ASSUME NEW T \in L, NEW V \in L, f[T] = f[V] PROVE T = V
    BY <2>1, <2>3
  <2>4. f \in Bijection(L, R)
    <3> HIDE DEF f, L, R
    <3> QED
      BY <2>2, <2>3 DEF Bijection, Injection, Surjection, IsInjective
  <2>5. ExistsBijection(L, R)
    BY <2>4 DEF ExistsBijection
  <2> HIDE DEF L, R
  <2> QED
    BY <1>3, <2>5, FS_Bijection
<1>7. Cardinality(L) \in Nat
  <2> HIDE DEF L
  <2> QED
    BY <1>3, FS_CardinalityType
<1> HIDE DEF L, R, S, x
<1>8. Cardinality(L \cup R) = Cardinality(L) + Cardinality(R) - Cardinality(L \cap R)
  BY <1>3, <1>6, FS_Union
<1>9. Cardinality(L \cap R) = 0
  BY <1>5, FS_EmptySet
<1> DEFINE c == 2 ^ e
           d == 2 ^ (e + 1)
<1>10. c \in Nat /\ Cardinality(L \cup R) = c + c - 0 /\ d = Cardinality(L \cup R)
  BY <1>3, <1>4, <1>5, <1>6, <1>7, <1>8, <1>9
<1> HIDE DEF c, d
<1>11. c \in Nat /\ d = 2 * c
  BY <1>10
<1> QED
  BY <1>11 DEF c, d

\* Half the words are fractional, as in every FPN<F>.
EvenWords == FW + FW = N

\* Words of such a format, and the half of one.
LEMMA FormatFacts ==
  ASSUME FormatOK
  PROVE  /\ WordsOK /\ EvenWords /\ B % 2 = 0
         /\ Bits \in Nat /\ Bits > 0 /\ B \div 2 \in Nat /\ B = 2 * (B \div 2)
<1>1. Bits \in Nat /\ Bits > 0 /\ N \in Nat /\ N > 0 /\ N % 2 = 0
  BY DEF FormatOK
<1>2. FW + FW = N
  BY <1>1 DEF FW
<1> DEFINE P(e) == 2 ^ e
           T == {e \in 0 .. Bits : P(e) > 0}
<1>3. \A e \in Nat : P(e) \in Nat /\ P(e + 1) = 2 * P(e)
  BY PowersOfTwo
<1>4. P(0) = 1
  OBVIOUS
<1> HIDE DEF P
<1>5. 0 \in T
  BY <1>1, <1>4
<1>6. \A e \in 0 .. Bits : e # Bits /\ e \in T => (e + 1) \in T
  BY <1>1, <1>3
<1> HIDE DEF T
<1>7. \A e \in 0 .. Bits : e \in T
  BY <1>1, <1>5, <1>6, IntervalInduction
<1> DEFINE h == P(Bits - 1)
<1>8. h \in Nat /\ h > 0 /\ P(Bits) = 2 * h
  BY <1>1, <1>3, <1>7 DEF T
<1>9. B = P(Bits)
  BY DEF B, P
<1> HIDE DEF h, B
<1>10. B \in Nat /\ B > 1 /\ B % 2 = 0 /\ B \div 2 = h
  BY <1>8, <1>9
<1> QED
  BY <1>1, <1>2, <1>8, <1>9, <1>10 DEF WordsOK, EvenWords

-----------------------------------------------------------------------------
(* Sums: the carries.                                                      *)

\* The remainder of what one carry or borrow can make of two words.
LEMMA WordWraps ==
  ASSUME WordsOK
  PROVE  /\ \A v \in 0 .. B - 1 : v % B = v
         /\ \A v \in B .. 2 * B - 1 : v % B = v - B
         /\ \A v \in -B .. -1 : v % B = v + B
<1>1. B \in Nat /\ B > 1
  BY DEF WordsOK
<1> HIDE DEF B
<1>2. ASSUME NEW v \in Int, NEW q \in Int, NEW r \in 0 .. B - 1, v = q * B + r
      PROVE  v % B = r
  <2>1. /\ (v % B) \in 0 .. B - 1 /\ v \div B \in Int
        /\ v = (v \div B) * B + (v % B)
    BY <1>1
  <2> DEFINE d == q - (v \div B)
  <2>2. d \in Int /\ d * B = (v % B) - r
    BY <1>1, <1>2, <2>1
  <2> HIDE DEF d
  <2>3. d = 0
    <3>1. CASE d >= 1
      BY <1>1, <2>1, <2>2, <3>1
    <3>2. CASE d <= -1
      BY <1>1, <2>1, <2>2, <3>2
    <3> QED
      BY <2>2, <3>1, <3>2
  <2> QED
    BY <1>1, <2>1, <2>2, <2>3
<1>3. ASSUME NEW v \in 0 .. B - 1 PROVE v % B = v
  BY <1>1
<1>4. ASSUME NEW v \in B .. 2 * B - 1 PROVE v % B = v - B
  BY <1>1, <1>2
<1>5. ASSUME NEW v \in -B .. -1 PROVE v % B = v + B
  BY <1>1, <1>2
<1> QED
  BY <1>3, <1>4, <1>5

\* Digits of magnitudes.
LEMMA WordsFacts ==
  ASSUME WordsOK, NEW a \in Words
  PROVE  /\ a \in [0 .. N - 1 -> Nat]
         /\ \A i \in 0 .. N - 1 : a[i] \in 0 .. B - 1
<1>1. B \in Nat
  BY DEF WordsOK
<1> HIDE DEF B
<1> QED
  BY <1>1 DEF Words

\* Word w and carry out are the sum of two words and a carry.
Added(x, y, c, w, out) ==
  out \in 0 .. 1 /\ w \in 0 .. B - 1 /\ w + B * out = x + y + c

\* What a carry is, and the word it leaves.
LEMMA OneWordAdded ==
  ASSUME WordsOK, NEW x \in 0 .. B - 1, NEW y \in 0 .. B - 1, NEW c \in 0 .. 1,
         NEW t, t = (x + y) % B, NEW out, out = Bit(t < x \/ (t + c) % B < t)
  PROVE  Added(x, y, c, (t + c) % B, out)
<1>1. B \in Nat /\ B > 1
  BY DEF WordsOK
<1>2. /\ \A v \in 0 .. B - 1 : v % B = v
      /\ \A v \in B .. 2 * B - 1 : v % B = v - B
  BY WordWraps
<1> HIDE DEF B
<1>3. CASE x + y < B
  <2>1. t = x + y
    BY <1>1, <1>2, <1>3
  <2>2. CASE t + c < B
    BY <1>1, <1>2, <2>1, <2>2 DEF Bit, Added
  <2>3. CASE t + c = B
    BY <1>1, <1>2, <2>1, <2>3 DEF Bit, Added
  <2> QED
    BY <1>1, <1>3, <2>1, <2>2, <2>3
<1>4. CASE x + y >= B
  <2>1. t = x + y - B /\ t \in 0 .. B - 2
    BY <1>1, <1>2, <1>4
  <2>2. (t + c) % B = t + c
    BY <1>1, <1>2, <2>1
  <2> QED
    BY <1>1, <2>1, <2>2 DEF Bit, Added
<1> QED
  BY <1>1, <1>3, <1>4

\* The words of a sum, and its carries.
LEMMA SumWords ==
  ASSUME WordsOK, NEW a \in Words, NEW b \in Words
  PROVE  /\ MagAddN(a, b) \in Words
         /\ \E c \in [0 .. N -> 0 .. 1] :
              /\ c[0] = 0
              /\ \A i \in 0 .. N - 1 :
                   MagAddN(a, b)[i] + B * c[i + 1] = a[i] + b[i] + c[i]
<1> DEFINE t == [i \in 0 .. N - 1 |-> (a[i] + b[i]) % B]
           Out(i, c) == Bit(t[i] < a[i] \/ (t[i] + c) % B < t[i])
           Is(f) == f = [i \in 0 .. N |-> IF i = 0 THEN 0 ELSE Out(i - 1, f[i - 1])]
           carry == CHOOSE f : Is(f)
<1>1. N \in Nat /\ N > 0
  BY DEF WordsOK
<1>2. MagAddN(a, b) = [i \in 0 .. N - 1 |-> (t[i] + carry[i]) % B]
  BY DEF MagAddN
<1>3. \A i \in 0 .. N - 1 : a[i] \in 0 .. B - 1 /\ b[i] \in 0 .. B - 1
  BY WordsFacts
<1>4. \A i, c : Out(i, c) \in 0 .. 1
  BY DEF Bit
<1>5. \E f : Is(f)
  <2> DEFINE step == [i \in 1 .. N |-> [c \in 0 .. 1 |-> Out(i - 1, c)]]
  <2> HIDE DEF Out
  <2>1. step \in [1 .. N -> [0 .. 1 -> 0 .. 1]] /\ 0 \in 0 .. 1
    BY <1>4
  <2>2. \A i \in 1 .. N, c \in 0 .. 1 : step[i][c] = Out(i - 1, c)
    OBVIOUS
  <2> HIDE DEF step
  <2>3. PICK f : Iterates(f, N, 0 .. 1, 0, step)
    BY <1>1, <2>1, Iteration
  <2>4. /\ f \in [0 .. N -> 0 .. 1] /\ f[0] = 0
        /\ \A i \in 1 .. N : f[i] = step[i][f[i - 1]]
    BY <2>3 DEF Iterates
  <2>5. \A i \in 0 .. N : f[i] = IF i = 0 THEN 0 ELSE Out(i - 1, f[i - 1])
    BY <1>1, <2>2, <2>4
  <2>6. Is(f)
    BY <2>4, <2>5
  <2> QED
    BY <2>6
<1>6. Is(carry)
  <2> HIDE DEF Is
  <2> QED
    BY <1>5
<1> HIDE DEF carry
<1>7. /\ carry \in [0 .. N -> 0 .. 1] /\ carry[0] = 0
      /\ \A i \in 0 .. N - 1 : carry[i + 1] = Out(i, carry[i])
  <2> HIDE DEF Out
  <2> QED
    BY <1>1, <1>4, <1>6
<1>8. ASSUME NEW i \in 0 .. N - 1
      PROVE  /\ (t[i] + carry[i]) % B \in 0 .. B - 1
             /\ ((t[i] + carry[i]) % B) + B * carry[i + 1] = a[i] + b[i] + carry[i]
  <2>1. a[i] \in 0 .. B - 1 /\ b[i] \in 0 .. B - 1 /\ carry[i] \in 0 .. 1
    BY <1>1, <1>3, <1>7
  <2>2. t[i] = (a[i] + b[i]) % B
    OBVIOUS
  <2>3. carry[i + 1] = Bit(t[i] < a[i] \/ (t[i] + carry[i]) % B < t[i])
    BY <1>7
  <2> HIDE DEF t
  <2>4. Added(a[i], b[i], carry[i], (t[i] + carry[i]) % B, carry[i + 1])
    BY <2>1, <2>2, <2>3, OneWordAdded
  <2> QED
    BY <2>4 DEF Added
<1> HIDE DEF t
<1>9. MagAddN(a, b) \in Words
  BY <1>2, <1>8 DEF Words
<1>10. \A i \in 0 .. N - 1 :
         MagAddN(a, b)[i] + B * carry[i + 1] = a[i] + b[i] + carry[i]
  BY <1>2, <1>8
<1> QED
  BY <1>7, <1>9, <1>10

\* Induction from the highest word down.
LEMMA DownInduction ==
  ASSUME NEW n \in Nat, NEW T, n \in T,
         \A i \in 0 .. n : i # n /\ (i + 1) \in T => i \in T
  PROVE  \A i \in 0 .. n : i \in T
<1> DEFINE S == {k \in 0 .. n : (n - k) \in T}
<1>1. 0 \in S
  OBVIOUS
<1>2. \A k \in 0 .. n : k # n /\ k \in S => (k + 1) \in S
  OBVIOUS
<1> HIDE DEF S
<1>3. \A k \in 0 .. n : k \in S
  BY <1>1, <1>2, IntervalInduction
<1> SUFFICES ASSUME NEW i \in 0 .. n PROVE i \in T
  OBVIOUS
<1>4. n - i \in 0 .. n /\ n - (n - i) = i
  OBVIOUS
<1> QED
  BY <1>3, <1>4 DEF S

\* The largest value of the words from i on.
Top(i) == Tails(MaxWords, N)[i]

\* A magnitude is a number.
LEMMA MagnitudeFacts ==
  ASSUME WordsOK, NEW w \in Words
  PROVE  /\ Tails(w, N) \in [0 .. N -> Nat] /\ Tails(w, N)[N] = 0
         /\ \A i \in 0 .. N - 1 :
              /\ w[i] \in 0 .. B - 1
              /\ Tails(w, N)[i] = w[i] + B * Tails(w, N)[i + 1]
         /\ Digits(w) \in Nat /\ Digits(w) = Tails(w, N)[0]
<1>1. N \in Nat /\ w \in [0 .. N - 1 -> Nat]
      /\ \A i \in 0 .. N - 1 : w[i] \in 0 .. B - 1
  BY WordsFacts DEF WordsOK
<1>2. /\ Tails(w, N) \in [0 .. N -> Nat] /\ Tails(w, N)[N] = 0
      /\ \A i \in 0 .. N - 1 : Tails(w, N)[i] = w[i] + B * Tails(w, N)[i + 1]
  BY <1>1, TailsFacts
<1>3. 0 \in 0 .. N
  BY <1>1
<1> QED
  BY <1>1, <1>2, <1>3 DEF Digits

\* The largest magnitude, from the lowest word up.
LEMMA MaxWordsFacts ==
  ASSUME WordsOK
  PROVE  /\ MaxWords \in Words /\ Top(N) = 0 /\ Limit = Top(0) /\ Limit \in Nat
         /\ \A i \in 0 .. N : Top(i) \in Nat
         /\ \A i \in 0 .. N - 1 : Top(i) = (B - 1) + B * Top(i + 1)
<1>1. B \in Nat /\ B > 1
  BY DEF WordsOK
<1> HIDE DEF B
<1>2. MaxWords \in Words /\ \A i \in 0 .. N - 1 : MaxWords[i] = B - 1
  BY <1>1 DEF MaxWords, Words
<1> HIDE DEF MaxWords
<1> QED
  BY <1>2, MagnitudeFacts DEF Top, Limit

\* No word is worth more than the largest.
LEMMA TailsRange ==
  ASSUME WordsOK, NEW w \in Words
  PROVE  (\A i \in 0 .. N : Tails(w, N)[i] <= Top(i)) /\ Digits(w) \in 0 .. Limit
<1> DEFINE t == Tails(w, N)
           T == {i \in 0 .. N : t[i] <= Top(i)}
<1>1. B \in Nat /\ B > 1 /\ N \in Nat
  BY DEF WordsOK
<1>2. /\ t \in [0 .. N -> Nat] /\ t[N] = 0 /\ Digits(w) \in Nat /\ Digits(w) = t[0]
      /\ \A i \in 0 .. N - 1 : w[i] \in 0 .. B - 1 /\ t[i] = w[i] + B * t[i + 1]
  BY MagnitudeFacts
<1>3. /\ Top(N) = 0 /\ Limit = Top(0) /\ Limit \in Nat
      /\ \A i \in 0 .. N : Top(i) \in Nat
      /\ \A i \in 0 .. N - 1 : Top(i) = (B - 1) + B * Top(i + 1)
  BY MaxWordsFacts
<1> HIDE DEF B, t
<1>4. N \in T
  BY <1>1, <1>2, <1>3
<1>5. \A i \in 0 .. N : i # N /\ (i + 1) \in T => i \in T
  <2> SUFFICES ASSUME NEW i \in 0 .. N, i # N, t[i + 1] <= Top(i + 1)
               PROVE  t[i] <= Top(i)
    OBVIOUS
  <2>1. i \in 0 .. N - 1 /\ i + 1 \in 0 .. N
    BY <1>1
  <2>2. t[i + 1] \in Nat /\ Top(i + 1) \in Nat /\ w[i] \in 0 .. B - 1
    BY <1>2, <1>3, <2>1
  <2>3. B * t[i + 1] <= B * Top(i + 1)
    BY <1>1, <2>2
  <2>4. t[i] = w[i] + B * t[i + 1] /\ Top(i) = (B - 1) + B * Top(i + 1)
    BY <1>2, <1>3, <2>1
  <2> DEFINE x == B * t[i + 1]  y == B * Top(i + 1)
  <2>5. x \in Nat /\ y \in Nat /\ x <= y
    BY <1>1, <2>2, <2>3
  <2> HIDE DEF x, y
  <2>6. w[i] + x <= (B - 1) + y
    BY <1>1, <2>2, <2>5
  <2> QED
    BY <2>4, <2>6 DEF x, y
<1> HIDE DEF T
<1>6. \A i \in 0 .. N : i \in T
  BY <1>1, <1>4, <1>5, DownInduction
<1>7. \A i \in 0 .. N : t[i] <= Top(i)
  BY <1>6 DEF T
<1> QED
  BY <1>1, <1>2, <1>3, <1>7 DEF t

\* One word more, at the lower end of a sum.
CarryKept(k, ts, ta, tb, over, out, s, a, b, c) ==
  ts + over = ta + tb + out /\ s + k * out = a + b + c
    => (s + k * ts) + k * over = (a + k * ta) + (b + k * tb) + c

\* The weights of one word more.
LEMMA CarryStep ==
  ASSUME NEW k \in Nat, NEW ts \in Nat, NEW ta \in Nat, NEW tb \in Nat,
         NEW over \in Nat, NEW out \in Nat,
         NEW s \in Nat, NEW a \in Nat, NEW b \in Nat, NEW c \in Nat
  PROVE  CarryKept(k, ts, ta, tb, over, out, s, a, b, c)
<1> SUFFICES ASSUME ts + over = ta + tb + out, s + k * out = a + b + c
             PROVE  (s + k * ts) + k * over = (a + k * ta) + (b + k * tb) + c
  BY DEF CarryKept
<1>1. k * ts + k * over = k * ta + k * tb + k * out
  OBVIOUS
<1>2. k * ts \in Nat /\ k * over \in Nat /\ k * ta \in Nat /\ k * tb \in Nat
      /\ k * out \in Nat
  OBVIOUS
<1> QED
  BY <1>1, <1>2

\* What carries do to the values: s is the sum of a and b, with the weight of
\* the last carry left over.
LEMMA CarriedSum ==
  ASSUME WordsOK, NEW a \in Words, NEW b \in Words, NEW s \in Words,
         NEW c \in [0 .. N -> 0 .. 1], c[0] = 0,
         \A i \in 0 .. N - 1 : s[i] + B * c[i + 1] = a[i] + b[i] + c[i]
  PROVE  Digits(s) + (IF c[N] = 1 THEN Limit + 1 ELSE 0) = Digits(a) + Digits(b)
<1> DEFINE ta == Tails(a, N)
           tb == Tails(b, N)
           ts == Tails(s, N)
           Over(i) == IF c[N] = 1 THEN Top(i) + 1 ELSE 0
           T == {i \in 0 .. N : ts[i] + Over(i) = ta[i] + tb[i] + c[i]}
<1>1. B \in Nat /\ B > 1 /\ N \in Nat
  BY DEF WordsOK
<1>2. /\ ta \in [0 .. N -> Nat] /\ ta[N] = 0 /\ Digits(a) = ta[0]
      /\ \A i \in 0 .. N - 1 : a[i] \in 0 .. B - 1 /\ ta[i] = a[i] + B * ta[i + 1]
  BY MagnitudeFacts
<1>3. /\ tb \in [0 .. N -> Nat] /\ tb[N] = 0 /\ Digits(b) = tb[0]
      /\ \A i \in 0 .. N - 1 : b[i] \in 0 .. B - 1 /\ tb[i] = b[i] + B * tb[i + 1]
  BY MagnitudeFacts
<1>4. /\ ts \in [0 .. N -> Nat] /\ ts[N] = 0 /\ Digits(s) = ts[0]
      /\ \A i \in 0 .. N - 1 : s[i] \in 0 .. B - 1 /\ ts[i] = s[i] + B * ts[i + 1]
  BY MagnitudeFacts
<1>5. /\ Top(N) = 0 /\ Limit = Top(0)
      /\ \A i \in 0 .. N : Top(i) \in Nat
      /\ \A i \in 0 .. N - 1 : Top(i) = (B - 1) + B * Top(i + 1)
  BY MaxWordsFacts
<1> HIDE DEF B, ta, tb, ts
<1>6. N \in T
  BY <1>1, <1>2, <1>3, <1>4, <1>5
<1>7. \A i \in 0 .. N : i # N /\ (i + 1) \in T => i \in T
  <2> SUFFICES ASSUME NEW i \in 0 .. N, i # N,
                      ts[i + 1] + Over(i + 1) = ta[i + 1] + tb[i + 1] + c[i + 1]
               PROVE  ts[i] + Over(i) = ta[i] + tb[i] + c[i]
    OBVIOUS
  <2>1. i \in 0 .. N - 1 /\ i + 1 \in 0 .. N
    BY <1>1
  <2>2. /\ ts[i + 1] \in Nat /\ ta[i + 1] \in Nat /\ tb[i + 1] \in Nat
        /\ Top(i + 1) \in Nat /\ Top(i) \in Nat /\ c[i + 1] \in 0 .. 1 /\ c[i] \in 0 .. 1
        /\ Over(i + 1) \in Nat /\ Over(i) \in Nat
        /\ a[i] \in Nat /\ b[i] \in Nat /\ s[i] \in Nat
    <3>1. ts[i + 1] \in Nat /\ ta[i + 1] \in Nat /\ tb[i + 1] \in Nat
      BY <1>2, <1>3, <1>4, <2>1
    <3>2. a[i] \in Nat /\ b[i] \in Nat /\ s[i] \in Nat
      BY <1>1, <1>2, <1>3, <1>4, <2>1
    <3>3. Top(i + 1) \in Nat /\ Top(i) \in Nat
      BY <1>5, <2>1
    <3>4. c[i + 1] \in 0 .. 1 /\ c[i] \in 0 .. 1
      BY <2>1
    <3> QED
      BY <3>1, <3>2, <3>3, <3>4
  <2>3. /\ ta[i] = a[i] + B * ta[i + 1] /\ tb[i] = b[i] + B * tb[i + 1]
        /\ ts[i] = s[i] + B * ts[i + 1]
    BY <1>2, <1>3, <1>4, <2>1
  <2>4. Over(i) = B * Over(i + 1)
    <3>1. Top(i) = (B - 1) + B * Top(i + 1)
      BY <1>5, <2>1
    <3>2. CASE c[N] = 1
      BY <1>1, <2>2, <3>1, <3>2
    <3>3. CASE c[N] # 1
      BY <1>1, <3>3
    <3> QED
      BY <3>2, <3>3
  <2>5. s[i] + B * c[i + 1] = a[i] + b[i] + c[i]
    BY <2>1
  <2> HIDE DEF Over
  <2>6. (s[i] + B * ts[i + 1]) + B * Over(i + 1)
          = (a[i] + B * ta[i + 1]) + (b[i] + B * tb[i + 1]) + c[i]
    <3>1. c[i + 1] \in Nat /\ c[i] \in Nat
      BY <2>2
    <3>2. ts[i + 1] + Over(i + 1) = ta[i + 1] + tb[i + 1] + c[i + 1]
      OBVIOUS
    <3>3. CarryKept(B, ts[i + 1], ta[i + 1], tb[i + 1], Over(i + 1), c[i + 1],
                    s[i], a[i], b[i], c[i])
      BY <1>1, <2>2, <3>1, CarryStep
    <3> QED
      BY <2>5, <3>2, <3>3 DEF CarryKept
  <2> QED
    BY <2>3, <2>4, <2>6
<1> HIDE DEF T
<1>8. \A i \in 0 .. N : i \in T
  BY <1>1, <1>6, <1>7, DownInduction
<1>9. 0 \in T
  BY <1>1, <1>8
<1>10. ts[0] + Over(0) = ta[0] + tb[0] + c[0]
  BY <1>9 DEF T
<1> QED
  BY <1>1, <1>2, <1>3, <1>4, <1>5, <1>10

-----------------------------------------------------------------------------
(* Differences: the borrows.                                               *)

\* What a borrow is, and the word it leaves.
LEMMA OneWordTaken ==
  ASSUME WordsOK, NEW x \in 0 .. B - 1, NEW y \in 0 .. B - 1, NEW c \in 0 .. 1,
         NEW t, t = (x - y) % B, NEW out, out = Bit(x < y \/ t < c)
  PROVE  Added((t - c) % B, y, c, x, out) /\ (t - c) % B \in 0 .. B - 1
<1>1. B \in Nat /\ B > 1
  BY DEF WordsOK
<1>2. /\ \A v \in 0 .. B - 1 : v % B = v
      /\ \A v \in -B .. -1 : v % B = v + B
  BY WordWraps
<1> HIDE DEF B
<1>3. CASE x < y
  BY <1>1, <1>2, <1>3 DEF Bit, Added
<1>4. CASE x >= y
  <2>1. t = x - y /\ t \in 0 .. B - 1
    BY <1>1, <1>2, <1>4
  <2>2. CASE t >= c
    BY <1>1, <1>2, <2>1, <2>2, <1>4 DEF Bit, Added
  <2>3. CASE t < c
    BY <1>1, <2>1, <2>3, <1>2, <1>4 DEF Bit, Added
  <2> QED
    BY <1>1, <2>1, <2>2, <2>3
<1> QED
  BY <1>1, <1>3, <1>4

\* The words of a difference, and its borrows.
LEMMA DifferenceWords ==
  ASSUME WordsOK, NEW a \in Words, NEW b \in Words
  PROVE  /\ MagSubN(a, b) \in Words
         /\ \E c \in [0 .. N -> 0 .. 1] :
              /\ c[0] = 0
              /\ \A i \in 0 .. N - 1 :
                   a[i] + B * c[i + 1] = MagSubN(a, b)[i] + b[i] + c[i]
<1> DEFINE t == [i \in 0 .. N - 1 |-> (a[i] - b[i]) % B]
           Out(i, c) == Bit(a[i] < b[i] \/ t[i] < c)
           Is(f) == f = [i \in 0 .. N |-> IF i = 0 THEN 0 ELSE Out(i - 1, f[i - 1])]
           borrow == CHOOSE f : Is(f)
<1>1. N \in Nat /\ N > 0
  BY DEF WordsOK
<1>2. MagSubN(a, b) = [i \in 0 .. N - 1 |-> (t[i] - borrow[i]) % B]
  BY DEF MagSubN
<1>3. \A i \in 0 .. N - 1 : a[i] \in 0 .. B - 1 /\ b[i] \in 0 .. B - 1
  BY WordsFacts
<1>4. \A i, c : Out(i, c) \in 0 .. 1
  BY DEF Bit
<1>5. \E f : Is(f)
  <2> DEFINE step == [i \in 1 .. N |-> [c \in 0 .. 1 |-> Out(i - 1, c)]]
  <2> HIDE DEF Out
  <2>1. step \in [1 .. N -> [0 .. 1 -> 0 .. 1]] /\ 0 \in 0 .. 1
    BY <1>4
  <2>2. \A i \in 1 .. N, c \in 0 .. 1 : step[i][c] = Out(i - 1, c)
    OBVIOUS
  <2> HIDE DEF step
  <2>3. PICK f : Iterates(f, N, 0 .. 1, 0, step)
    BY <1>1, <2>1, Iteration
  <2>4. /\ f \in [0 .. N -> 0 .. 1] /\ f[0] = 0
        /\ \A i \in 1 .. N : f[i] = step[i][f[i - 1]]
    BY <2>3 DEF Iterates
  <2>5. \A i \in 0 .. N : f[i] = IF i = 0 THEN 0 ELSE Out(i - 1, f[i - 1])
    BY <1>1, <2>2, <2>4
  <2>6. Is(f)
    BY <2>4, <2>5
  <2> QED
    BY <2>6
<1>6. Is(borrow)
  <2> HIDE DEF Is
  <2> QED
    BY <1>5
<1> HIDE DEF borrow
<1>7. /\ borrow \in [0 .. N -> 0 .. 1] /\ borrow[0] = 0
      /\ \A i \in 0 .. N - 1 : borrow[i + 1] = Out(i, borrow[i])
  <2> HIDE DEF Out
  <2> QED
    BY <1>1, <1>4, <1>6
<1>8. ASSUME NEW i \in 0 .. N - 1
      PROVE  /\ (t[i] - borrow[i]) % B \in 0 .. B - 1
             /\ a[i] + B * borrow[i + 1] = ((t[i] - borrow[i]) % B) + b[i] + borrow[i]
  <2>1. a[i] \in 0 .. B - 1 /\ b[i] \in 0 .. B - 1 /\ borrow[i] \in 0 .. 1
    BY <1>1, <1>3, <1>7
  <2>2. t[i] = (a[i] - b[i]) % B
    OBVIOUS
  <2>3. borrow[i + 1] = Bit(a[i] < b[i] \/ t[i] < borrow[i])
    BY <1>7
  <2> HIDE DEF t
  <2>4. /\ Added((t[i] - borrow[i]) % B, b[i], borrow[i], a[i], borrow[i + 1])
        /\ (t[i] - borrow[i]) % B \in 0 .. B - 1
    BY <2>1, <2>2, <2>3, OneWordTaken
  <2> QED
    BY <2>4 DEF Added
<1> HIDE DEF t
<1>9. MagSubN(a, b) \in Words
  BY <1>2, <1>8 DEF Words
<1>10. \A i \in 0 .. N - 1 :
         a[i] + B * borrow[i + 1] = MagSubN(a, b)[i] + b[i] + borrow[i]
  BY <1>2, <1>8
<1> QED
  BY <1>7, <1>9, <1>10

\* FPN_MagAddN: the sum, less what the last carry is worth.
LEMMA MagAddNFacts ==
  ASSUME WordsOK, NEW a \in Words, NEW b \in Words
  PROVE  /\ MagAddN(a, b) \in Words
         /\ Digits(MagAddN(a, b)) = IF Digits(a) + Digits(b) <= Limit
                                    THEN Digits(a) + Digits(b)
                                    ELSE Digits(a) + Digits(b) - (Limit + 1)
<1>1. /\ MagAddN(a, b) \in Words
      /\ \E c \in [0 .. N -> 0 .. 1] :
           /\ c[0] = 0
           /\ \A i \in 0 .. N - 1 :
                MagAddN(a, b)[i] + B * c[i + 1] = a[i] + b[i] + c[i]
  BY SumWords
<1> DEFINE s == MagAddN(a, b)
<1> HIDE DEF s
<1>2. PICK c \in [0 .. N -> 0 .. 1] :
        c[0] = 0 /\ \A i \in 0 .. N - 1 : s[i] + B * c[i + 1] = a[i] + b[i] + c[i]
  BY <1>1 DEF s
<1>3. s \in Words
  BY <1>1 DEF s
<1>4. Digits(s) + (IF c[N] = 1 THEN Limit + 1 ELSE 0) = Digits(a) + Digits(b)
  BY <1>2, <1>3, CarriedSum
<1>5. Digits(s) \in 0 .. Limit /\ Digits(a) \in 0 .. Limit /\ Digits(b) \in 0 .. Limit
      /\ Limit \in Nat
  BY <1>3, TailsRange, MaxWordsFacts
<1>6. Digits(s) = IF Digits(a) + Digits(b) <= Limit THEN Digits(a) + Digits(b)
                  ELSE Digits(a) + Digits(b) - (Limit + 1)
  <2>1. CASE c[N] = 1
    BY <1>4, <1>5, <2>1
  <2>2. CASE c[N] # 1
    BY <1>4, <1>5, <2>2
  <2> QED
    BY <2>1, <2>2
<1> QED
  BY <1>3, <1>6 DEF s

\* FPN_MagSubN: the difference, if there is one.
LEMMA MagSubNFacts ==
  ASSUME WordsOK, NEW a \in Words, NEW b \in Words
  PROVE  /\ MagSubN(a, b) \in Words
         /\ Digits(a) >= Digits(b)
              => Digits(MagSubN(a, b)) = Digits(a) - Digits(b)
<1>1. /\ MagSubN(a, b) \in Words
      /\ \E c \in [0 .. N -> 0 .. 1] :
           /\ c[0] = 0
           /\ \A i \in 0 .. N - 1 :
                a[i] + B * c[i + 1] = MagSubN(a, b)[i] + b[i] + c[i]
  BY DifferenceWords
<1> DEFINE d == MagSubN(a, b)
<1> HIDE DEF d
<1>2. PICK c \in [0 .. N -> 0 .. 1] :
        c[0] = 0 /\ \A i \in 0 .. N - 1 : a[i] + B * c[i + 1] = d[i] + b[i] + c[i]
  BY <1>1 DEF d
<1>3. d \in Words
  BY <1>1 DEF d
<1>4. Digits(a) + (IF c[N] = 1 THEN Limit + 1 ELSE 0) = Digits(d) + Digits(b)
  BY <1>2, <1>3, CarriedSum
<1>5. Digits(d) \in 0 .. Limit /\ Digits(a) \in 0 .. Limit /\ Digits(b) \in 0 .. Limit
      /\ Limit \in Nat
  BY <1>3, TailsRange, MaxWordsFacts
<1>6. Digits(a) >= Digits(b) => Digits(d) = Digits(a) - Digits(b)
  <2>1. CASE c[N] = 1
    BY <1>4, <1>5, <2>1
  <2>2. CASE c[N] # 1
    BY <1>4, <1>5, <2>2
  <2> QED
    BY <2>1, <2>2
<1> QED
  BY <1>3, <1>6 DEF d

\* The lower word decides between numbers whose upper words are equal.
WordsOrdered(k, x, y, p, q) ==
  /\ (x + k * p > y + k * q) = (p > q \/ (p = q /\ x > y))
  /\ (x + k * p = y + k * q) = (p = q /\ x = y)

\* Two words, the lower and the upper ones.
LEMMA WordOrder ==
  ASSUME NEW k \in Nat, k > 0, NEW x \in 0 .. k - 1, NEW y \in 0 .. k - 1,
         NEW p \in Nat, NEW q \in Nat
  PROVE  WordsOrdered(k, x, y, p, q)
<1>1. k * p \in Nat /\ k * q \in Nat
  OBVIOUS
<1>2. CASE p = q
  BY <1>1, <1>2 DEF WordsOrdered
<1>3. CASE p > q
  <2>1. PICK d \in Nat : p = q + 1 + d
    BY <1>3
  <2>2. k * p = k * q + k + k * d /\ k * d \in Nat
    BY <2>1
  <2> QED
    BY <1>1, <1>3, <2>2 DEF WordsOrdered
<1>4. CASE p < q
  <2>1. PICK d \in Nat : q = p + 1 + d
    BY <1>4
  <2>2. k * q = k * p + k + k * d /\ k * d \in Nat
    BY <2>1
  <2> QED
    BY <1>1, <1>4, <2>2 DEF WordsOrdered
<1> QED
  BY <1>2, <1>3, <1>4

-----------------------------------------------------------------------------
(* Comparisons.                                                            *)

\* Words of two magnitudes, side by side.
LEMMA TailOrder ==
  ASSUME WordsOK, NEW a \in Words, NEW b \in Words, NEW i \in 0 .. N - 1
  PROVE  /\ (Tails(a, N)[i] > Tails(b, N)[i])
              = \/ Tails(a, N)[i + 1] > Tails(b, N)[i + 1]
                \/ Tails(a, N)[i + 1] = Tails(b, N)[i + 1] /\ a[i] > b[i]
         /\ (Tails(a, N)[i] = Tails(b, N)[i])
              = (Tails(a, N)[i + 1] = Tails(b, N)[i + 1] /\ a[i] = b[i])
<1>1. B \in Nat /\ B > 0 /\ i + 1 \in 0 .. N
  BY DEF WordsOK
<1>2. /\ Tails(a, N)[i + 1] \in Nat /\ a[i] \in 0 .. B - 1
      /\ Tails(a, N)[i] = a[i] + B * Tails(a, N)[i + 1]
  BY <1>1, MagnitudeFacts
<1>3. /\ Tails(b, N)[i + 1] \in Nat /\ b[i] \in 0 .. B - 1
      /\ Tails(b, N)[i] = b[i] + B * Tails(b, N)[i + 1]
  BY <1>1, MagnitudeFacts
<1> HIDE DEF B
<1>4. WordsOrdered(B, a[i], b[i], Tails(a, N)[i + 1], Tails(b, N)[i + 1])
  BY <1>1, <1>2, <1>3, WordOrder
<1> QED
  BY <1>2, <1>3, <1>4 DEF WordsOrdered

\* FPN_MagEq: equal words, equal magnitudes.
LEMMA MagEqFacts ==
  ASSUME WordsOK, NEW a \in Words, NEW b \in Words
  PROVE  MagEq(a, b) <=> Digits(a) = Digits(b)
<1> DEFINE ta == Tails(a, N)
           tb == Tails(b, N)
<1>1. N \in Nat /\ N > 0
  BY DEF WordsOK
<1>2. ta[N] = 0 /\ tb[N] = 0 /\ Digits(a) = ta[0] /\ Digits(b) = tb[0]
  BY MagnitudeFacts
<1>3. \A i \in 0 .. N - 1 :
        (ta[i] = tb[i]) = (ta[i + 1] = tb[i + 1] /\ a[i] = b[i])
  BY TailOrder
<1> HIDE DEF ta, tb
<1>4. ASSUME MagEq(a, b) PROVE ta[0] = tb[0]
  <2> DEFINE T == {i \in 0 .. N : ta[i] = tb[i]}
  <2>1. N \in T
    BY <1>1, <1>2
  <2>2. \A i \in 0 .. N : i # N /\ (i + 1) \in T => i \in T
    BY <1>1, <1>4, <1>3 DEF MagEq
  <2> HIDE DEF T
  <2>3. \A i \in 0 .. N : i \in T
    BY <1>1, <2>1, <2>2, DownInduction
  <2> QED
    BY <1>1, <2>3 DEF T
<1>5. ASSUME ta[0] = tb[0] PROVE MagEq(a, b)
  <2> DEFINE T == {i \in 0 .. N : ta[i] = tb[i]}
  <2>1. 0 \in T
    BY <1>1, <1>5
  <2>2. \A i \in 0 .. N : i # N /\ i \in T => (i + 1) \in T
    BY <1>1, <1>3
  <2> HIDE DEF T
  <2>3. \A i \in 0 .. N : i \in T
    BY <1>1, <2>1, <2>2, IntervalInduction
  <2>4. ASSUME NEW i \in 0 .. N - 1 PROVE a[i] = b[i]
    BY <1>1, <2>3, <1>3 DEF T
  <2> QED
    BY <2>4 DEF MagEq
<1> QED
  BY <1>2, <1>4, <1>5

\* FPN_MagGe: the loop from the lowest word up compares the magnitudes.
LEMMA MagGeFacts ==
  ASSUME WordsOK, NEW a \in Words, NEW b \in Words
  PROVE  MagGe(a, b) <=> Digits(a) >= Digits(b)
<1> DEFINE ta == Tails(a, N)
           tb == Tails(b, N)
           n == N - 1
           More(i) == a[i] > b[i]
           Same(i) == a[i] = b[i]
           Out(i, g) == More(i) \/ (Same(i) /\ g)
           Is(f) == f = [i \in 0 .. N - 1 |-> IF i = 0 THEN a[0] >= b[0]
                                              ELSE Out(i, f[i - 1])]
           ge == CHOOSE f : Is(f)
<1>1. N \in Nat /\ n \in Nat /\ N = n + 1 /\ 0 \in 0 .. n
  BY DEF WordsOK
<1>2. MagGe(a, b) = ge[n]
  BY DEF MagGe
<1>3. \E f : Is(f)
  <2> DEFINE step == [i \in 1 .. n |-> [g \in BOOLEAN |-> Out(i, g)]]
  <2>0. \A i, g : Out(i, g) \in BOOLEAN
    OBVIOUS
  <2> HIDE DEF Out
  <2>1. step \in [1 .. n -> [BOOLEAN -> BOOLEAN]] /\ (a[0] >= b[0]) \in BOOLEAN
    BY <2>0
  <2>2. \A i \in 1 .. n, g \in BOOLEAN : step[i][g] = Out(i, g)
    OBVIOUS
  <2> HIDE DEF step
  <2>3. PICK f : Iterates(f, n, BOOLEAN, a[0] >= b[0], step)
    BY <1>1, <2>1, Iteration
  <2>4. /\ f \in [0 .. n -> BOOLEAN] /\ f[0] = (a[0] >= b[0])
        /\ \A i \in 1 .. n : f[i] = step[i][f[i - 1]]
    BY <2>3 DEF Iterates
  <2>5. \A i \in 0 .. n : f[i] = IF i = 0 THEN a[0] >= b[0] ELSE Out(i, f[i - 1])
    BY <1>1, <2>2, <2>4
  <2>6. Is(f)
    BY <2>4, <2>5
  <2> QED
    BY <2>6
<1>4. Is(ge)
  <2> HIDE DEF Is
  <2> QED
    BY <1>3
<1> HIDE DEF ge
<1>5. /\ ge[0] = (a[0] >= b[0])
      /\ \A i \in 1 .. n : ge[i] = Out(i, ge[i - 1])
  <2> HIDE DEF Out
  <2> QED
    BY <1>1, <1>4
<1>6. /\ ta \in [0 .. N -> Nat] /\ ta[N] = 0 /\ Digits(a) = ta[0]
      /\ \A i \in 0 .. N - 1 : a[i] \in 0 .. B - 1
  BY MagnitudeFacts
<1>7. /\ tb \in [0 .. N -> Nat] /\ tb[N] = 0 /\ Digits(b) = tb[0]
      /\ \A i \in 0 .. N - 1 : b[i] \in 0 .. B - 1
  BY MagnitudeFacts
<1>8. \A i \in 0 .. N - 1 :
        /\ (ta[i] > tb[i]) = (ta[i + 1] > tb[i + 1]
                                \/ (ta[i + 1] = tb[i + 1] /\ a[i] > b[i]))
        /\ (ta[i] = tb[i]) = (ta[i + 1] = tb[i + 1] /\ a[i] = b[i])
  BY TailOrder
<1> DEFINE Ahead(i) == ta[i + 1] > tb[i + 1] \/ (ta[i + 1] = tb[i + 1] /\ ge[i])
           T == {i \in 0 .. n : Ahead(i) <=> ge[n]}
<1> HIDE DEF ta, tb, n
<1>9. n \in T
  BY <1>1, <1>6, <1>7
<1>10. \A i \in 0 .. n : i # n /\ (i + 1) \in T => i \in T
  <2> SUFFICES ASSUME NEW i \in 0 .. n, i # n, Ahead(i + 1) <=> ge[n]
               PROVE  Ahead(i) <=> ge[n]
    OBVIOUS
  <2>1. i + 1 \in 1 .. n /\ i + 1 \in 0 .. N - 1 /\ (i + 1) - 1 = i
    BY <1>1
  <2>2. ge[i + 1] = Out(i + 1, ge[i])
    BY <1>5, <2>1
  <2>3. /\ (ta[i + 1] > tb[i + 1])
             = (ta[i + 2] > tb[i + 2] \/ (ta[i + 2] = tb[i + 2] /\ a[i + 1] > b[i + 1]))
        /\ (ta[i + 1] = tb[i + 1]) = (ta[i + 2] = tb[i + 2] /\ a[i + 1] = b[i + 1])
    BY <1>8, <2>1
  <2>4. Ahead(i + 1) = (ta[i + 2] > tb[i + 2] \/ (ta[i + 2] = tb[i + 2] /\ ge[i + 1]))
    <3>1. (i + 1) + 1 = i + 2
      OBVIOUS
    <3> QED
      BY <3>1
  <2> QED
    BY <2>2, <2>3, <2>4
<1> HIDE DEF T, Ahead
<1>11. \A i \in 0 .. n : i \in T
  BY <1>1, <1>9, <1>10, DownInduction
<1>12. Ahead(0) <=> ge[n]
  BY <1>1, <1>11 DEF T
<1>13. Ahead(0) <=> ta[0] >= tb[0]
  <2>1. /\ (ta[0] > tb[0]) = (ta[1] > tb[1] \/ (ta[1] = tb[1] /\ a[0] > b[0]))
        /\ (ta[0] = tb[0]) = (ta[1] = tb[1] /\ a[0] = b[0])
    BY <1>1, <1>8
  <2>2. ta[0] \in Nat /\ tb[0] \in Nat /\ ta[1] \in Nat /\ tb[1] \in Nat
        /\ a[0] \in Int /\ b[0] \in Int
    <3>1. B \in Nat
      BY DEF WordsOK
    <3>2. a[0] \in 0 .. B - 1 /\ b[0] \in 0 .. B - 1
      BY <1>1, <1>6, <1>7
    <3> HIDE DEF B
    <3>3. a[0] \in Int /\ b[0] \in Int
      BY <3>1, <3>2
    <3> QED
      BY <1>1, <1>6, <1>7, <3>3
  <2> QED
    <3>1. Ahead(0) <=> ta[1] > tb[1] \/ (ta[1] = tb[1] /\ ge[0])
      BY DEF Ahead
    <3>2. ge[0] <=> a[0] > b[0] \/ a[0] = b[0]
      <4>1. ge[0] = (a[0] >= b[0])
        BY <1>5
      <4>2. (a[0] >= b[0]) <=> (a[0] > b[0] \/ a[0] = b[0])
        BY <2>2
      <4> QED
        BY <4>1, <4>2
    <3>3. ta[0] >= tb[0] <=> ta[0] > tb[0] \/ ta[0] = tb[0]
      BY <2>2
    <3> HIDE DEF Ahead
    <3> QED
      BY <2>1, <3>1, <3>2, <3>3
<1> QED
  BY <1>2, <1>6, <1>7, <1>12, <1>13

-----------------------------------------------------------------------------
(* Signs.                                                                  *)

\* Zero is worth nothing.
LEMMA ZeroFacts ==
  ASSUME WordsOK
  PROVE  ZeroWords \in Words /\ Digits(ZeroWords) = 0 /\ Zero \in FPNs /\ Value(Zero) = 0
<1>1. B \in Nat /\ B > 1 /\ N \in Nat
  BY DEF WordsOK
<1>2. ZeroWords \in Words /\ \A i \in 0 .. N - 1 : ZeroWords[i] = 0
  <2> HIDE DEF B
  <2> QED
    BY <1>1 DEF ZeroWords, Words
<1> DEFINE c == [i \in 0 .. N |-> 0]
<1>3. c \in [0 .. N -> 0 .. 1] /\ c[0] = 0 /\ c[N] = 0
  BY <1>1
<1>4. \A i \in 0 .. N - 1 :
        ZeroWords[i] + B * c[i + 1] = ZeroWords[i] + ZeroWords[i] + c[i]
  <2> HIDE DEF B
  <2> QED
    BY <1>1, <1>2
<1> HIDE DEF c
<1>5. Digits(ZeroWords) + (IF c[N] = 1 THEN Limit + 1 ELSE 0)
        = Digits(ZeroWords) + Digits(ZeroWords)
  BY <1>2, <1>3, <1>4, CarriedSum
<1>6. Digits(ZeroWords) \in Nat
  BY <1>2, MagnitudeFacts
<1>7. Digits(ZeroWords) = 0
  BY <1>3, <1>5, <1>6
<1> QED
  BY <1>2, <1>7 DEF Zero, FPNs, Value

\* FPN_MagIsZero: no words, no magnitude.
LEMMA MagIsZeroFacts ==
  ASSUME WordsOK, NEW w \in Words
  PROVE  MagIsZero(w) <=> Digits(w) = 0
<1>1. ZeroWords \in Words /\ Digits(ZeroWords) = 0
  BY ZeroFacts
<1>2. MagEq(w, ZeroWords) <=> Digits(w) = Digits(ZeroWords)
  BY <1>1, MagEqFacts
<1>3. MagIsZero(w) <=> MagEq(w, ZeroWords)
  BY DEF MagIsZero, MagEq, ZeroWords, Words
<1> QED
  BY <1>1, <1>2, <1>3

\* A number is its sign and its magnitude.
LEMMA ValueFacts ==
  ASSUME WordsOK, NEW v \in FPNs
  PROVE  /\ v.w \in Words /\ v.neg \in BOOLEAN /\ v = [w |-> v.w, neg |-> v.neg]
         /\ Digits(v.w) \in 0 .. Limit /\ Limit \in Nat /\ Digits(v.w) \in Nat
         /\ Value(v) \in Int /\ Size(Value(v)) = Digits(v.w)
         /\ v.neg => Value(v) = 0 - Digits(v.w)
         /\ ~v.neg => Value(v) = Digits(v.w)
         /\ MagIsZero(v.w) <=> Digits(v.w) = 0
<1>1. v.w \in Words /\ v.neg \in BOOLEAN /\ v = [w |-> v.w, neg |-> v.neg]
  BY DEF FPNs
<1>2. Digits(v.w) \in 0 .. Limit /\ Limit \in Nat
  BY <1>1, TailsRange, MaxWordsFacts
<1>3. MagIsZero(v.w) <=> Digits(v.w) = 0
  BY <1>1, MagIsZeroFacts
<1> QED
  BY <1>1, <1>2, <1>3 DEF Value, Size

\* FPN_Negate, which never makes a negative zero.
LEMMA NegateFacts ==
  ASSUME WordsOK, NEW v \in FPNs
  PROVE  Negate(v) \in FPNs /\ Value(Negate(v)) = 0 - Value(v)
<1>1. /\ v.w \in Words /\ v.neg \in BOOLEAN /\ v = [w |-> v.w, neg |-> v.neg]
      /\ Digits(v.w) \in Nat
      /\ v.neg => Value(v) = 0 - Digits(v.w)
      /\ ~v.neg => Value(v) = Digits(v.w)
      /\ MagIsZero(v.w) <=> Digits(v.w) = 0
  BY ValueFacts
<1> DEFINE r == Negate(v)
<1>2. r.w = v.w /\ r.neg = (v.neg # ~MagIsZero(v.w)) /\ r \in FPNs
  BY <1>1 DEF Negate, FPNs
<1>3. Value(r) = IF r.neg THEN 0 - Digits(v.w) ELSE Digits(v.w)
  BY <1>2 DEF Value
<1> HIDE DEF r
<1>4. ASSUME MagIsZero(v.w) PROVE Value(r) = 0 - Value(v)
  BY <1>1, <1>4, <1>3
<1>5. ASSUME ~MagIsZero(v.w) PROVE Value(r) = 0 - Value(v)
  <2>1. r.neg = (v.neg # TRUE)
    BY <1>2, <1>5
  <2>2. CASE v.neg
    <3>1. ~r.neg
      BY <2>1, <2>2, <1>1
    <3> QED
      BY <1>1, <1>3, <2>2, <3>1
  <2>3. CASE ~v.neg
    <3>1. r.neg
      BY <2>1, <2>3, <1>1
    <3> QED
      BY <1>1, <1>3, <2>3, <3>1
  <2> QED
    BY <2>2, <2>3
<1> QED
  BY <1>2, <1>4, <1>5 DEF r

\* FPN_AddSat (FixedPointN.hpp:439-470): a sum that fits is exact; one that does
\* not loses the weight of the word that is missing and keeps its sign, for it is
\* not saturated; and a zero is never negative. For any number of words of any
\* width: the carries, the borrows and the choice of the larger operand are right.
THEOREM SumsExactOrWrapped ==
  ASSUME FormatOK, NEW a \in FPNs, NEW b \in FPNs
  PROVE  /\ AddSat(a, b) \in FPNs
         /\ ExactOrWrapped(Value(AddSat(a, b)), Value(a) + Value(b))
         /\ AddSat(a, b).neg => Value(AddSat(a, b)) < 0
<1>0. WordsOK /\ EvenWords /\ B % 2 = 0
  BY FormatFacts
<1> USE <1>0
<1>1. /\ a.w \in Words /\ a.neg \in BOOLEAN
      /\ Digits(a.w) \in 0 .. Limit /\ Limit \in Nat /\ Value(a) \in Int
      /\ a.neg => Value(a) = 0 - Digits(a.w)
      /\ ~a.neg => Value(a) = Digits(a.w)
  BY ValueFacts
<1>2. /\ b.w \in Words /\ b.neg \in BOOLEAN
      /\ Digits(b.w) \in 0 .. Limit /\ Value(b) \in Int
      /\ b.neg => Value(b) = 0 - Digits(b.w)
      /\ ~b.neg => Value(b) = Digits(b.w)
  BY ValueFacts
<1> DEFINE ge  == MagGe(a.w, b.w)
           w   == IF a.neg = b.neg THEN MagAddN(a.w, b.w)
                  ELSE IF ge THEN MagSubN(a.w, b.w) ELSE MagSubN(b.w, a.w)
           neg == IF a.neg = b.neg \/ ge THEN a.neg ELSE b.neg
           r   == AddSat(a, b)
<1>3. r = [w |-> w, neg |-> neg /\ ~MagIsZero(w)]
  BY DEF AddSat
<1>4. ge <=> Digits(a.w) >= Digits(b.w)
  BY <1>1, <1>2, MagGeFacts
<1>5. w \in Words
  BY <1>1, <1>2, MagAddNFacts, MagSubNFacts
<1>6. Digits(w) = IF a.neg = b.neg
                  THEN IF Digits(a.w) + Digits(b.w) <= Limit
                       THEN Digits(a.w) + Digits(b.w)
                       ELSE Digits(a.w) + Digits(b.w) - (Limit + 1)
                  ELSE IF Digits(a.w) >= Digits(b.w)
                  THEN Digits(a.w) - Digits(b.w) ELSE Digits(b.w) - Digits(a.w)
  <2>1. CASE a.neg = b.neg
    BY <1>1, <1>2, <2>1, MagAddNFacts
  <2>2. CASE a.neg # b.neg /\ ge
    BY <1>1, <1>2, <1>4, <2>2, MagSubNFacts
  <2>3. CASE a.neg # b.neg /\ ~ge
    BY <1>1, <1>2, <1>4, <2>3, MagSubNFacts
  <2> QED
    BY <2>1, <2>2, <2>3
<1>7. MagIsZero(w) <=> Digits(w) = 0
  BY <1>5, MagIsZeroFacts
<1>8. neg \in BOOLEAN
  BY <1>1, <1>2
<1> HIDE DEF w, ge
<1>9. r \in FPNs /\ r.w = w /\ (r.neg <=> neg /\ Digits(w) # 0)
  <2> HIDE DEF neg, r
  <2>1. (neg /\ ~MagIsZero(w)) \in BOOLEAN
    OBVIOUS
  <2>2. r \in FPNs
    BY <1>3, <1>5, <2>1 DEF FPNs
  <2>3. r.w = w /\ r.neg = (neg /\ ~MagIsZero(w))
    BY <1>3
  <2> QED
    BY <1>7, <2>2, <2>3
<1>10. Value(r) = IF neg /\ Digits(w) # 0 THEN 0 - Digits(w) ELSE Digits(w)
  BY <1>9 DEF Value
<1>11. Digits(w) \in Nat
  BY <1>5, MagnitudeFacts
<1>12. r.neg => Value(r) < 0
  BY <1>9, <1>10, <1>11
<1> HIDE DEF r
<1>13. ExactOrWrapped(Value(r), Value(a) + Value(b))
  <2>1. CASE a.neg /\ b.neg
    <3>1. neg
      BY <2>1
    <3> QED
      BY <1>1, <1>2, <1>6, <1>10, <1>11, <2>1, <3>1 DEF ExactOrWrapped, Size
  <2>2. CASE ~a.neg /\ ~b.neg
    <3>1. ~neg
      BY <2>2
    <3> QED
      BY <1>1, <1>2, <1>6, <1>10, <1>11, <2>2, <3>1 DEF ExactOrWrapped, Size
  <2>3. CASE a.neg /\ ~b.neg
    <3>1. neg <=> Digits(a.w) >= Digits(b.w)
      BY <1>4, <2>3
    <3>2. Digits(w) = IF Digits(a.w) >= Digits(b.w)
                      THEN Digits(a.w) - Digits(b.w) ELSE Digits(b.w) - Digits(a.w)
      BY <1>6, <2>3
    <3>3. Value(a) = 0 - Digits(a.w) /\ Value(b) = Digits(b.w)
      BY <1>1, <1>2, <2>3
    <3> HIDE DEF neg
    <3>4. Value(r) = Value(a) + Value(b)
      BY <1>1, <1>2, <1>10, <1>11, <3>1, <3>2, <3>3
    <3>5. Size(Value(a) + Value(b)) <= Limit
      BY <1>1, <1>2, <3>3 DEF Size
    <3> QED
      BY <3>4, <3>5 DEF ExactOrWrapped
  <2>4. CASE ~a.neg /\ b.neg
    <3>1. neg <=> ~(Digits(a.w) >= Digits(b.w))
      BY <1>4, <2>4
    <3>2. Digits(w) = IF Digits(a.w) >= Digits(b.w)
                      THEN Digits(a.w) - Digits(b.w) ELSE Digits(b.w) - Digits(a.w)
      BY <1>6, <2>4
    <3>3. Value(a) = Digits(a.w) /\ Value(b) = 0 - Digits(b.w)
      BY <1>1, <1>2, <2>4
    <3> HIDE DEF neg
    <3>4. Value(r) = Value(a) + Value(b)
      BY <1>1, <1>2, <1>10, <1>11, <3>1, <3>2, <3>3
    <3>5. Size(Value(a) + Value(b)) <= Limit
      BY <1>1, <1>2, <3>3 DEF Size
    <3> QED
      BY <3>4, <3>5 DEF ExactOrWrapped
  <2> QED
    BY <1>1, <1>2, <2>1, <2>2, <2>3, <2>4
<1> QED
  BY <1>9, <1>12, <1>13 DEF r

\* FPN_SubSat (472-476), with the same outcome: the operand negated is in range.
THEOREM DifferencesExactOrWrapped ==
  ASSUME FormatOK, NEW a \in FPNs, NEW b \in FPNs
  PROVE  /\ SubSat(a, b) \in FPNs
         /\ ExactOrWrapped(Value(SubSat(a, b)), Value(a) - Value(b))
         /\ SubSat(a, b).neg => Value(SubSat(a, b)) < 0
<1>0. WordsOK /\ EvenWords /\ B % 2 = 0
  BY FormatFacts
<1> USE <1>0
<1>1. Negate(b) \in FPNs /\ Value(Negate(b)) = 0 - Value(b)
  BY NegateFacts
<1>2. /\ AddSat(a, Negate(b)) \in FPNs
      /\ ExactOrWrapped(Value(AddSat(a, Negate(b))), Value(a) + Value(Negate(b)))
      /\ AddSat(a, Negate(b)).neg => Value(AddSat(a, Negate(b))) < 0
  BY <1>1, SumsExactOrWrapped
<1>3. Value(a) \in Int /\ Value(b) \in Int
  BY ValueFacts
<1>4. Value(a) + Value(Negate(b)) = Value(a) - Value(b)
  BY <1>1, <1>3
<1> QED
  BY <1>2, <1>4 DEF SubSat

\* The comparisons (671-699): the borrow of a whole subtraction and the signs
\* order numbers as their values are ordered, the two zeros alike.
THEOREM WordComparisonsOrderValues ==
  ASSUME FormatOK, NEW a \in FPNs, NEW b \in FPNs
  PROVE  /\ LessThan(a, b) <=> Value(a) < Value(b)
         /\ LessThanOrEqual(a, b) <=> Value(a) <= Value(b)
         /\ GreaterThan(a, b) <=> Value(a) > Value(b)
         /\ GreaterThanOrEqual(a, b) <=> Value(a) >= Value(b)
         /\ Equal(a, b) <=> Value(a) = Value(b)
<1>0. WordsOK /\ EvenWords /\ B % 2 = 0
  BY FormatFacts
<1> USE <1>0
<1>1. ASSUME NEW x \in FPNs, NEW y \in FPNs
      PROVE  /\ LessThan(x, y) <=> Value(x) < Value(y)
             /\ Equal(x, y) <=> Value(x) = Value(y)
             /\ Value(x) \in Int /\ Value(y) \in Int
  <2>1. /\ x.w \in Words /\ x.neg \in BOOLEAN
        /\ Digits(x.w) \in 0 .. Limit /\ Limit \in Nat /\ Value(x) \in Int
        /\ x.neg => Value(x) = 0 - Digits(x.w)
        /\ ~x.neg => Value(x) = Digits(x.w)
        /\ MagIsZero(x.w) <=> Digits(x.w) = 0
    BY ValueFacts
  <2>2. /\ y.w \in Words /\ y.neg \in BOOLEAN
        /\ Digits(y.w) \in 0 .. Limit /\ Value(y) \in Int
        /\ y.neg => Value(y) = 0 - Digits(y.w)
        /\ ~y.neg => Value(y) = Digits(y.w)
        /\ MagIsZero(y.w) <=> Digits(y.w) = 0
    BY ValueFacts
  <2>3. /\ MagGe(y.w, x.w) <=> Digits(y.w) >= Digits(x.w)
        /\ MagEq(y.w, x.w) <=> Digits(y.w) = Digits(x.w)
        /\ MagEq(x.w, y.w) <=> Digits(x.w) = Digits(y.w)
    BY <2>1, <2>2, MagGeFacts, MagEqFacts
  <2>4. BothZero(x, y) <=> Digits(x.w) = 0 /\ Digits(y.w) = 0
    BY <2>1, <2>2 DEF BothZero
  <2>5. MagGt(y.w, x.w) <=> Digits(y.w) > Digits(x.w)
    BY <2>1, <2>2, <2>3 DEF MagGt
  <2>6. /\ MagGt(y.w, x.w) \in BOOLEAN /\ MagEq(x.w, y.w) \in BOOLEAN
        /\ BothZero(x, y) \in BOOLEAN
    BY DEF MagGt, MagEq, BothZero
  <2>7. CASE x.neg /\ y.neg
    <3>1. LessThan(x, y) <=> ~(Digits(y.w) > Digits(x.w)) /\ ~(Digits(x.w) = Digits(y.w))
      BY <2>3, <2>5, <2>6, <2>7 DEF LessThan
    <3>2. Equal(x, y) <=> Digits(x.w) = Digits(y.w)
      BY <2>1, <2>2, <2>3, <2>4, <2>7 DEF Equal
    <3> QED
      BY <2>1, <2>2, <2>7, <3>1, <3>2
  <2>8. CASE ~x.neg /\ ~y.neg
    BY <2>1, <2>2, <2>3, <2>5, <2>6, <2>8, <2>4 DEF LessThan, Equal
  <2>9. CASE x.neg /\ ~y.neg
    <3>1. LessThan(x, y) <=> ~(Digits(x.w) = 0 /\ Digits(y.w) = 0)
      BY <2>1, <2>2, <2>4, <2>6, <2>9 DEF LessThan
    <3>2. Equal(x, y) <=> Digits(x.w) = 0 /\ Digits(y.w) = 0
      BY <2>1, <2>2, <2>4, <2>9 DEF Equal
    <3> QED
      BY <2>1, <2>2, <2>9, <3>1, <3>2
  <2>10. CASE ~x.neg /\ y.neg
    <3>1. ~LessThan(x, y)
      BY <2>1, <2>2, <2>10 DEF LessThan
    <3>2. Equal(x, y) <=> Digits(x.w) = 0 /\ Digits(y.w) = 0
      BY <2>1, <2>2, <2>4, <2>10 DEF Equal
    <3> QED
      BY <2>1, <2>2, <2>10, <3>1, <3>2
  <2> QED
    BY <2>1, <2>2, <2>7, <2>8, <2>9, <2>10
<1>2. /\ LessThan(a, b) <=> Value(a) < Value(b)
      /\ LessThan(b, a) <=> Value(b) < Value(a)
      /\ Equal(a, b) <=> Value(a) = Value(b)
      /\ Value(a) \in Int /\ Value(b) \in Int
  BY <1>1
<1> QED
  BY <1>2 DEF LessThanOrEqual, GreaterThan, GreaterThanOrEqual

-----------------------------------------------------------------------------
(* Weights of words, for products.                                         *)

\* An array of n words.
Arrays(n) == [0 .. n - 1 -> 0 .. B - 1]

\* What the words below word i are worth.
Low(w, n, i) == Tails(w, n)[0] - Powers[i] * Tails(w, n)[i]

\* Weights are positive and grow by the word.
LEMMA PowersFacts ==
  ASSUME WordsOK
  PROVE  /\ Powers \in [0 .. 2 * N -> Nat] /\ Powers[0] = 1
         /\ \A i \in 0 .. 2 * N - 1 : Powers[i + 1] = B * Powers[i]
         /\ \A i \in 0 .. 2 * N : Powers[i] > 0
<1> DEFINE n == 2 * N
           Pos == Nat \ {0}
           Is(f) == f = [i \in 0 .. 2 * N |-> IF i = 0 THEN 1 ELSE B * f[i - 1]]
           step == [i \in 1 .. n |-> [v \in Pos |-> B * v]]
<1>1. N \in Nat /\ n \in Nat /\ B \in Nat /\ B > 1
  BY DEF WordsOK
<1>2. \A v \in Pos : B * v \in Pos
  <2> HIDE DEF B
  <2> QED
    BY <1>1
<1>3. step \in [1 .. n -> [Pos -> Pos]] /\ 1 \in Pos
  BY <1>2
<1>4. \A i \in 1 .. n, v \in Pos : step[i][v] = B * v
  OBVIOUS
<1> HIDE DEF step
<1>5. PICK f : Iterates(f, n, Pos, 1, step)
  <2> HIDE DEF Pos, n
  <2> QED
    BY <1>1, <1>3, Iteration
<1>6. /\ f \in [0 .. n -> Pos] /\ f[0] = 1
      /\ \A i \in 1 .. n : f[i] = step[i][f[i - 1]]
  BY <1>5 DEF Iterates
<1>7. \A i \in 1 .. n : f[i] = B * f[i - 1]
  <2> SUFFICES ASSUME NEW i \in 1 .. n PROVE f[i] = B * f[i - 1]
    OBVIOUS
  <2>1. i - 1 \in 0 .. n
    BY <1>1
  <2> HIDE DEF n, Pos
  <2> QED
    BY <1>4, <1>6, <2>1
<1>8. Is(f)
  BY <1>6, <1>7
<1>9. Is(Powers)
  <2>1. Powers = CHOOSE g : Is(g)
    BY DEF Powers
  <2> HIDE DEF Is
  <2> QED
    BY <1>8, <2>1
<1>10. Powers[0] = 1 /\ \A i \in 0 .. n - 1 : Powers[i + 1] = B * Powers[i]
  BY <1>1, <1>9
<1>11. \A i \in 0 .. n : Powers[i] = f[i]
  <2> DEFINE T == {i \in 0 .. n : Powers[i] = f[i]}
  <2> HIDE DEF n, Pos, Is
  <2>1. 0 \in T
    BY <1>1, <1>6, <1>10
  <2>2. \A i \in 0 .. n : i # n /\ i \in T => (i + 1) \in T
    BY <1>1, <1>7, <1>10
  <2> HIDE DEF T
  <2>3. \A i \in 0 .. n : i \in T
    BY <1>1, <2>1, <2>2, IntervalInduction
  <2> QED
    BY <2>3 DEF T
<1>12. Powers \in [0 .. n -> Pos]
  <2>1. DOMAIN Powers = 0 .. n /\ Powers = [i \in 0 .. n |-> Powers[i]]
    BY <1>9
  <2> HIDE DEF n, Pos, Is
  <2>2. Powers = [i \in 0 .. n |-> f[i]]
    BY <1>11, <2>1
  <2> QED
    BY <1>6, <2>2
<1> QED
  BY <1>10, <1>12

\* Weights multiply.
LEMMA PowersMultiply ==
  ASSUME WordsOK, NEW m \in 0 .. 2 * N
  PROVE  \A i \in 0 .. 2 * N - m : Powers[m] * Powers[i] = Powers[m + i]
<1> DEFINE n == 2 * N - m
           T == {i \in 0 .. n : Powers[m] * Powers[i] = Powers[m + i]}
<1>1. N \in Nat /\ n \in Nat /\ B \in Nat /\ n = 2 * N - m
  BY DEF WordsOK
<1>2. /\ Powers \in [0 .. 2 * N -> Nat] /\ Powers[0] = 1
      /\ \A i \in 0 .. 2 * N - 1 : Powers[i + 1] = B * Powers[i]
  BY PowersFacts
<1> HIDE DEF B, n
<1>3. 0 \in T
  BY <1>1, <1>2
<1>4. \A i \in 0 .. n : i # n /\ i \in T => (i + 1) \in T
  BY <1>1, <1>2
<1> HIDE DEF T
<1>5. \A i \in 0 .. n : i \in T
  BY <1>1, <1>3, <1>4, IntervalInduction
<1> QED
  BY <1>5 DEF T, n

\* What an array is worth.
LEMMA ArrayFacts ==
  ASSUME WordsOK, NEW n \in 0 .. 2 * N, NEW w \in Arrays(n)
  PROVE  /\ n \in Nat /\ Tails(w, n) \in [0 .. n -> Nat] /\ Tails(w, n)[n] = 0
         /\ \A i \in 0 .. n - 1 :
              /\ w[i] \in 0 .. B - 1
              /\ Tails(w, n)[i] = w[i] + B * Tails(w, n)[i + 1]
<1>1. N \in Nat /\ n \in Nat /\ B \in Nat
  BY DEF WordsOK
<1> HIDE DEF B
<1>2. w \in [0 .. n - 1 -> Nat] /\ \A i \in 0 .. n - 1 : w[i] \in 0 .. B - 1
  BY <1>1 DEF Arrays
<1> QED
  BY <1>1, <1>2, TailsFacts

\* The words below word i, one at a time.
LEMMA LowFacts ==
  ASSUME WordsOK, NEW n \in 0 .. 2 * N, NEW w \in Arrays(n)
  PROVE  /\ Low(w, n, 0) = 0 /\ Low(w, n, n) = Tails(w, n)[0]
         /\ \A i \in 0 .. n - 1 : Low(w, n, i + 1) = Low(w, n, i) + Powers[i] * w[i]
         /\ \A i \in 0 .. n : Low(w, n, i) \in 0 .. Powers[i] - 1
         /\ \A i \in 0 .. n : Tails(w, n)[0] = Low(w, n, i) + Powers[i] * Tails(w, n)[i]
<1> DEFINE t == Tails(w, n)
<1>1. N \in Nat /\ n \in Nat /\ n <= 2 * N /\ B \in Nat /\ B > 1
  BY DEF WordsOK
<1>2. /\ t \in [0 .. n -> Nat] /\ t[n] = 0
      /\ \A i \in 0 .. n - 1 : w[i] \in 0 .. B - 1 /\ t[i] = w[i] + B * t[i + 1]
  BY ArrayFacts
<1>3. /\ Powers \in [0 .. 2 * N -> Nat] /\ Powers[0] = 1
      /\ \A i \in 0 .. 2 * N - 1 : Powers[i + 1] = B * Powers[i]
      /\ \A i \in 0 .. 2 * N : Powers[i] > 0
  BY PowersFacts
<1>4. \A i : Low(w, n, i) = t[0] - Powers[i] * t[i]
  BY DEF Low
<1> HIDE DEF t, B
<1>5. Low(w, n, 0) = 0 /\ Low(w, n, n) = t[0]
  <2>1. t[0] \in Nat /\ Powers[n] \in Nat
    BY <1>1, <1>2, <1>3
  <2> QED
    BY <1>2, <1>3, <1>4, <2>1
<1>6. ASSUME NEW i \in 0 .. n - 1
      PROVE  /\ Low(w, n, i + 1) = Low(w, n, i) + Powers[i] * w[i]
             /\ Low(w, n, i) \in 0 .. Powers[i] - 1
                  => Low(w, n, i + 1) \in 0 .. Powers[i + 1] - 1
  <2>1. i \in 0 .. n /\ i + 1 \in 0 .. n /\ i \in 0 .. 2 * N - 1 /\ i \in 0 .. 2 * N
    BY <1>1
  <2>2. t[0] \in Nat /\ t[i] \in Nat /\ t[i + 1] \in Nat /\ Powers[i] \in Nat
        /\ w[i] \in 0 .. B - 1 /\ Powers[i] > 0
    BY <1>1, <1>2, <1>3, <2>1
  <2>3. t[i] = w[i] + B * t[i + 1] /\ Powers[i + 1] = B * Powers[i]
    BY <1>2, <1>3, <2>1
  <2>4. Low(w, n, i + 1) = Low(w, n, i) + Powers[i] * w[i]
    BY <1>1, <2>2, <1>4, <2>3
  <2>5. ASSUME Low(w, n, i) \in 0 .. Powers[i] - 1
        PROVE  Low(w, n, i + 1) \in 0 .. Powers[i + 1] - 1
    <3>1. Powers[i] * w[i] <= Powers[i] * (B - 1) /\ Powers[i] * w[i] >= 0
          /\ Powers[i] * w[i] \in Int
      BY <1>1, <2>2
    <3>2. Powers[i] * (B - 1) = B * Powers[i] - Powers[i]
      <4>1. \A x, k \in Nat : x * (k - 1) = k * x - x
        OBVIOUS
      <4> QED
        BY <1>1, <2>2, <4>1
    <3>3. B * Powers[i] \in Int
      BY <1>1, <2>2
    <3> QED
      BY <1>1, <2>2, <2>3, <2>4, <2>5, <3>1, <3>2, <3>3
  <2> QED
    BY <2>4, <2>5
<1>7. \A i \in 0 .. n : Low(w, n, i) \in 0 .. Powers[i] - 1
  <2> DEFINE T == {i \in 0 .. n : Low(w, n, i) \in 0 .. Powers[i] - 1}
  <2>1. 0 \in T
    BY <1>1, <1>3, <1>5
  <2>2. \A i \in 0 .. n : i # n /\ i \in T => (i + 1) \in T
    BY <1>1, <1>6
  <2> HIDE DEF T
  <2>3. \A i \in 0 .. n : i \in T
    BY <1>1, <2>1, <2>2, IntervalInduction
  <2> QED
    BY <2>3 DEF T
<1>8. ASSUME NEW i \in 0 .. n PROVE t[0] = Low(w, n, i) + Powers[i] * t[i]
  <2>1. t[0] \in Nat /\ t[i] \in Nat /\ Powers[i] \in Nat
    BY <1>1, <1>2, <1>3
  <2>2. Powers[i] * t[i] \in Nat
    BY <2>1
  <2> QED
    BY <1>4, <2>1, <2>2
<1> QED
  BY <1>5, <1>6, <1>7, <1>8 DEF t

\* The lower words are worth the same where they are the same.
LEMMA LowSame ==
  ASSUME WordsOK, NEW n \in 0 .. 2 * N, NEW v \in Arrays(n), NEW w \in Arrays(n),
         NEW i \in 0 .. n, \A k \in 0 .. i - 1 : v[k] = w[k]
  PROVE  Low(v, n, i) = Low(w, n, i)
<1> DEFINE T == {k \in 0 .. i : Low(v, n, k) = Low(w, n, k)}
<1>1. N \in Nat /\ n \in Nat /\ i \in Nat
  BY DEF WordsOK
<1>2. /\ Low(v, n, 0) = 0
      /\ \A k \in 0 .. n - 1 : Low(v, n, k + 1) = Low(v, n, k) + Powers[k] * v[k]
  BY LowFacts
<1>3. /\ Low(w, n, 0) = 0
      /\ \A k \in 0 .. n - 1 : Low(w, n, k + 1) = Low(w, n, k) + Powers[k] * w[k]
  BY LowFacts
<1>4. 0 \in T
  BY <1>1, <1>2, <1>3
<1>5. \A k \in 0 .. i : k # i /\ k \in T => (k + 1) \in T
  BY <1>1, <1>2, <1>3
<1> HIDE DEF T
<1>6. \A k \in 0 .. i : k \in T
  BY <1>1, <1>4, <1>5, IntervalInduction
<1> QED
  BY <1>1, <1>6 DEF T

\* The largest magnitude is one below the weight of the word that is missing.
LEMMA LimitFacts ==
  ASSUME WordsOK
  PROVE  /\ Limit + 1 = Powers[N] /\ Powers[2 * N] = (Limit + 1) * (Limit + 1)
<1>1. N \in Nat /\ B \in Nat /\ B > 1 /\ N \in 0 .. 2 * N
  BY DEF WordsOK
<1>2. /\ MaxWords \in Words /\ Top(N) = 0 /\ Limit = Top(0) /\ Limit \in Nat
      /\ \A i \in 0 .. N : Top(i) \in Nat
      /\ \A i \in 0 .. N - 1 : Top(i) = (B - 1) + B * Top(i + 1)
  BY MaxWordsFacts
<1>3. /\ Powers \in [0 .. 2 * N -> Nat] /\ Powers[0] = 1
      /\ \A i \in 0 .. 2 * N - 1 : Powers[i + 1] = B * Powers[i]
  BY PowersFacts
<1> DEFINE T == {k \in 0 .. N : Top(N - k) + 1 = Powers[k]}
<1> HIDE DEF B
<1>4. 0 \in T
  BY <1>1, <1>2, <1>3
<1>5. \A k \in 0 .. N : k # N /\ k \in T => (k + 1) \in T
  <2> SUFFICES ASSUME NEW k \in 0 .. N, k # N, Top(N - k) + 1 = Powers[k]
               PROVE  k + 1 \in 0 .. N /\ Top(N - (k + 1)) + 1 = Powers[k + 1]
    OBVIOUS
  <2>1. /\ k + 1 \in 0 .. N /\ k \in 0 .. 2 * N - 1 /\ k \in 0 .. 2 * N
        /\ N - (k + 1) \in 0 .. N - 1 /\ (N - (k + 1)) + 1 = N - k /\ N - k \in 0 .. N
    BY <1>1
  <2>2. Top(N - (k + 1)) = (B - 1) + B * Top(N - k)
    BY <1>2, <2>1
  <2>3. Powers[k + 1] = B * Powers[k] /\ Powers[k] \in Nat /\ Top(N - k) \in Nat
    BY <1>2, <1>3, <2>1
  <2>4. Top(N - k) = Powers[k] - 1
    BY <2>3
  <2>5. B * (Powers[k] - 1) = B * Powers[k] - B
    BY <1>1, <2>3
  <2> QED
    BY <1>1, <2>1, <2>2, <2>3, <2>4, <2>5
<1> HIDE DEF T
<1>6. \A k \in 0 .. N : k \in T
  BY <1>1, <1>4, <1>5, IntervalInduction
<1>7. Top(0) + 1 = Powers[N]
  <2>1. N \in 0 .. N /\ N - N = 0
    BY <1>1
  <2> QED
    BY <1>6, <2>1 DEF T
<1>8. Powers[N] * Powers[N] = Powers[2 * N]
  BY <1>1, PowersMultiply
<1> QED
  BY <1>2, <1>7, <1>8

-----------------------------------------------------------------------------
(* Products: a row, all rows, the words kept.                              *)

\* A double word is its upper and its lower word.
LEMMA WordSplits ==
  ASSUME WordsOK, NEW v \in Nat
  PROVE  v % B \in 0 .. B - 1 /\ v \div B \in Nat /\ (v % B) + B * (v \div B) = v
<1>1. B \in Nat /\ B > 1
  BY DEF WordsOK
<1> HIDE DEF B
<1> QED
  BY <1>1

\* What row i adds to word k.
RowTerm(i, ai, b, k) == IF k < i + N THEN ai * b[k - i] ELSE 0

\* One row of FPN_Mul: the words it leaves, and its carries.
LEMMA RowWords ==
  ASSUME WordsOK, NEW p \in Arrays(2 * N), NEW i \in 0 .. N - 1, NEW ai \in 0 .. B - 1,
         NEW b \in Words
  PROVE  /\ MulRow(p, i, ai, b) \in Arrays(2 * N)
         /\ \A k \in 0 .. i - 1 : MulRow(p, i, ai, b)[k] = p[k]
         /\ \A k \in i .. 2 * N - 1 : RowTerm(i, ai, b, k) \in Nat
         /\ \E c \in [i .. 2 * N -> Nat] :
              /\ c[i] = 0
              /\ \A k \in i .. 2 * N - 1 :
                   MulRow(p, i, ai, b)[k] + B * c[k + 1]
                     = RowTerm(i, ai, b, k) + p[k] + c[k]
<1> DEFINE n == 2 * N
           m == n - i
           term(k) == (IF k < i + N THEN ai * b[k - i] ELSE 0) + p[k]
           Is(f) == f = [k \in i .. 2 * N |->
                           IF k = i THEN 0 ELSE (term(k - 1) + f[k - 1]) \div B]
           carry == CHOOSE f : Is(f)
<1>1. /\ N \in Nat /\ N > 0 /\ n \in Nat /\ n = 2 * N /\ m \in Nat /\ m = n - i
      /\ B \in Nat /\ B > 1 /\ n \in 0 .. 2 * N
  BY DEF WordsOK
<1>2. MulRow(p, i, ai, b) = [k \in 0 .. 2 * N - 1 |-> IF k < i THEN p[k]
                                                     ELSE (term(k) + carry[k]) % B]
  BY DEF MulRow
<1>3. /\ \A k \in 0 .. n - 1 : p[k] \in 0 .. B - 1
      /\ \A k \in 0 .. N - 1 : b[k] \in 0 .. B - 1
  BY <1>1, ArrayFacts, WordsFacts
<1>4. \A k \in i .. n - 1 : /\ RowTerm(i, ai, b, k) \in Nat
                            /\ term(k) = RowTerm(i, ai, b, k) + p[k] /\ term(k) \in Nat
  <2> SUFFICES ASSUME NEW k \in i .. n - 1
               PROVE  /\ RowTerm(i, ai, b, k) \in Nat
                      /\ term(k) = RowTerm(i, ai, b, k) + p[k] /\ term(k) \in Nat
    OBVIOUS
  <2>1. p[k] \in Nat /\ k \in Int
    <3> HIDE DEF B
    <3>1. k \in 0 .. n - 1
      BY <1>1
    <3>2. p[k] \in 0 .. B - 1
      BY <1>3, <3>1
    <3> QED
      BY <1>1, <3>2
  <2>2. ASSUME k < i + N PROVE ai * b[k - i] \in Nat
    <3> HIDE DEF B
    <3>1. k - i \in 0 .. N - 1
      BY <1>1, <2>2
    <3>2. b[k - i] \in 0 .. B - 1
      BY <1>3, <3>1
    <3>3. b[k - i] \in Nat /\ ai \in Nat
      BY <1>1, <3>2
    <3> QED
      BY <3>3
  <2>3. RowTerm(i, ai, b, k) \in Nat
    BY <2>2 DEF RowTerm
  <2>4. term(k) = RowTerm(i, ai, b, k) + p[k]
    BY DEF RowTerm
  <2> HIDE DEF term
  <2> QED
    BY <2>1, <2>3, <2>4
<1>5. \A v \in Nat : v % B \in 0 .. B - 1 /\ v \div B \in Nat
                     /\ (v % B) + B * (v \div B) = v
  BY WordSplits
<1>6. \E f : Is(f)
  <2> DEFINE step == [j \in 1 .. m |-> [v \in Nat |-> (term(i + j - 1) + v) \div B]]
  <2> HIDE DEF term, B, n, m
  <2>1. step \in [1 .. m -> [Nat -> Nat]] /\ 0 \in Nat
    BY <1>1, <1>4, <1>5
  <2>2. \A j \in 1 .. m, v \in Nat : step[j][v] = (term(i + j - 1) + v) \div B
    OBVIOUS
  <2> HIDE DEF step
  <2>3. PICK f : Iterates(f, m, Nat, 0, step)
    BY <1>1, <2>1, Iteration
  <2>4. /\ f \in [0 .. m -> Nat] /\ f[0] = 0
        /\ \A j \in 1 .. m : f[j] = step[j][f[j - 1]]
    BY <2>3 DEF Iterates
  <2> DEFINE g == [k \in i .. 2 * N |-> f[k - i]]
  <2>5. ASSUME NEW k \in i .. 2 * N
        PROVE  g[k] = IF k = i THEN 0 ELSE (term(k - 1) + g[k - 1]) \div B
    <3>1. CASE k = i
      BY <3>1, <2>4
    <3>2. CASE k # i
      <4>1. /\ k - i \in 1 .. m /\ (k - i) - 1 = (k - 1) - i /\ k - 1 \in i .. 2 * N
            /\ i + (k - i) - 1 = k - 1 /\ (k - i) - 1 \in 0 .. m
        BY <1>1, <3>2
      <4>2. f[k - i] = step[k - i][f[(k - 1) - i]]
        BY <2>4, <4>1
      <4>3. f[(k - 1) - i] \in Nat
        BY <2>4, <4>1
      <4>4. f[k - i] = (term(i + (k - i) - 1) + f[(k - 1) - i]) \div B
        BY <2>2, <4>1, <4>2, <4>3
      <4> QED
        BY <3>2, <4>1, <4>4
    <3> QED
      BY <3>1, <3>2
  <2>6. Is(g)
    BY <2>5
  <2> QED
    BY <2>6
<1>7. Is(carry)
  <2> HIDE DEF Is
  <2> QED
    BY <1>6
<1> HIDE DEF carry
<1>8. /\ carry[i] = 0 /\ DOMAIN carry = i .. 2 * N
      /\ carry = [k \in i .. 2 * N |-> carry[k]]
      /\ \A k \in i .. n - 1 : carry[k + 1] = (term(k) + carry[k]) \div B
  <2> HIDE DEF term, B, n
  <2>1. carry[i] = 0
    BY <1>1, <1>7
  <2>2. ASSUME NEW k \in i .. n - 1
        PROVE  carry[k + 1] = (term(k) + carry[k]) \div B
    BY <1>1, <1>7
  <2> QED
    BY <1>7, <2>1, <2>2
<1>9. \A j \in 0 .. m : carry[i + j] \in Nat
  <2> DEFINE T == {j \in 0 .. m : carry[i + j] \in Nat}
  <2> HIDE DEF term, B, n, m
  <2>1. 0 \in T
    BY <1>1, <1>8
  <2>2. \A j \in 0 .. m : j # m /\ j \in T => (j + 1) \in T
    <3> SUFFICES ASSUME NEW j \in 0 .. m, j # m, carry[i + j] \in Nat
                 PROVE  j + 1 \in 0 .. m /\ carry[i + (j + 1)] \in Nat
      OBVIOUS
    <3>1. i + j \in i .. n - 1 /\ (i + j) + 1 = i + (j + 1) /\ j + 1 \in 0 .. m
      BY <1>1
    <3>2. carry[i + (j + 1)] = (term(i + j) + carry[i + j]) \div B
      BY <1>8, <3>1
    <3>3. term(i + j) + carry[i + j] \in Nat
      BY <1>4, <3>1
    <3> QED
      BY <1>5, <3>1, <3>2, <3>3
  <2> HIDE DEF T
  <2>3. \A j \in 0 .. m : j \in T
    BY <1>1, <2>1, <2>2, IntervalInduction
  <2> QED
    BY <2>3 DEF T
<1>10. carry \in [i .. 2 * N -> Nat]
  <2>1. \A k \in i .. 2 * N : carry[k] \in Nat
    <3> SUFFICES ASSUME NEW k \in i .. 2 * N PROVE carry[k] \in Nat
      OBVIOUS
    <3>1. k - i \in 0 .. m /\ i + (k - i) = k
      BY <1>1
    <3> HIDE DEF m
    <3> QED
      BY <1>9, <3>1
  <2> QED
    BY <1>8, <2>1
<1> DEFINE q == MulRow(p, i, ai, b)
<1>11. ASSUME NEW k \in i .. n - 1
       PROVE  /\ q[k] \in 0 .. B - 1
              /\ q[k] + B * carry[k + 1] = RowTerm(i, ai, b, k) + p[k] + carry[k]
  <2>1. k \in 0 .. 2 * N - 1 /\ ~(k < i) /\ k \in i .. 2 * N
    BY <1>1
  <2> HIDE DEF term, B, n, m
  <2>2. q[k] = (term(k) + carry[k]) % B
    BY <1>2, <2>1
  <2>3. term(k) + carry[k] \in Nat /\ carry[k] \in Nat
    BY <1>4, <1>10, <2>1
  <2>4. carry[k + 1] = (term(k) + carry[k]) \div B
    BY <1>8
  <2>5. q[k] + B * carry[k + 1] = term(k) + carry[k]
    BY <1>5, <2>2, <2>3, <2>4
  <2> QED
    BY <1>4, <1>5, <2>2, <2>3, <2>5
<1>12. \A k \in 0 .. i - 1 : q[k] = p[k]
  <2> HIDE DEF term, B, m
  <2> QED
    BY <1>1, <1>2
<1>13. q \in Arrays(2 * N)
  <2>1. \A k \in 0 .. 2 * N - 1 : q[k] \in 0 .. B - 1
    <3> HIDE DEF q, B, m, term
    <3> QED
      BY <1>1, <1>3, <1>11, <1>12
  <2>2. q = [k \in 0 .. 2 * N - 1 |-> q[k]]
    BY <1>2
  <2> HIDE DEF q, B
  <2> QED
    BY <2>1, <2>2 DEF Arrays
<1> HIDE DEF q, term, B, m
<1>14. \A k \in i .. 2 * N - 1 :
         q[k] + B * carry[k + 1] = RowTerm(i, ai, b, k) + p[k] + carry[k]
  BY <1>1, <1>11
<1> QED
  BY <1>1, <1>4, <1>8, <1>10, <1>12, <1>13, <1>14 DEF q

\* What the words of b are worth from the one that row i puts at word k.
Shifted(b, i, k) == IF k - i <= N THEN Tails(b, N)[k - i] ELSE 0

\* One word further, of the operand and of its row.
LEMMA ShiftedFacts ==
  ASSUME WordsOK, NEW b \in Words, NEW i \in 0 .. N - 1, NEW ai \in 0 .. B - 1
  PROVE  /\ Shifted(b, i, i) = Digits(b) /\ Shifted(b, i, 2 * N) = 0
         /\ \A k \in i .. 2 * N : Shifted(b, i, k) \in Nat
         /\ \A k \in i .. 2 * N - 1 :
              ai * Shifted(b, i, k)
                = RowTerm(i, ai, b, k) + B * (ai * Shifted(b, i, k + 1))
<1> DEFINE t == Tails(b, N)
<1>1. N \in Nat /\ N > 0 /\ B \in Nat /\ B > 1
  BY DEF WordsOK
<1>2. /\ t \in [0 .. N -> Nat] /\ t[N] = 0 /\ Digits(b) = t[0]
      /\ \A k \in 0 .. N - 1 : b[k] \in 0 .. B - 1 /\ t[k] = b[k] + B * t[k + 1]
  BY MagnitudeFacts
<1>3. \A k : Shifted(b, i, k) = IF k - i <= N THEN t[k - i] ELSE 0
  BY DEF Shifted
<1> HIDE DEF t, B
<1>4. Shifted(b, i, i) = Digits(b)
  <2>1. i - i = 0 /\ 0 <= N
    BY <1>1
  <2> QED
    BY <1>2, <1>3, <2>1
<1>5. Shifted(b, i, 2 * N) = 0
  BY <1>1, <1>2, <1>3
<1>6. ASSUME NEW k \in i .. 2 * N PROVE Shifted(b, i, k) \in Nat
  <2>1. k - i <= N => k - i \in 0 .. N
    BY <1>1
  <2> QED
    BY <1>2, <1>3, <2>1
<1>7. ASSUME NEW k \in i .. 2 * N - 1
      PROVE  ai * Shifted(b, i, k)
               = RowTerm(i, ai, b, k) + B * (ai * Shifted(b, i, k + 1))
  <2>1. CASE k < i + N
    <3>1. /\ k - i \in 0 .. N - 1 /\ (k - i) + 1 = (k + 1) - i
          /\ k - i <= N /\ (k + 1) - i <= N /\ (k + 1) - i \in 0 .. N
      BY <1>1, <2>1
    <3>2. Shifted(b, i, k) = b[k - i] + B * Shifted(b, i, k + 1)
      BY <1>2, <1>3, <3>1
    <3>3. RowTerm(i, ai, b, k) = ai * b[k - i]
      BY <2>1 DEF RowTerm
    <3>4. b[k - i] \in Nat /\ Shifted(b, i, k + 1) \in Nat
      <4>1. b[k - i] \in 0 .. B - 1 /\ t[(k + 1) - i] \in Nat
        BY <1>2, <3>1
      <4>2. b[k - i] \in Nat
        BY <1>1, <4>1
      <4> QED
        BY <1>3, <3>1, <4>1, <4>2
    <3>5. \A x, y \in Nat : ai * (x + B * y) = ai * x + B * (ai * y)
      BY <1>1
    <3> QED
      BY <3>2, <3>3, <3>4, <3>5
  <2>2. CASE ~(k < i + N)
    <3>1. /\ k - i <= N => k - i = N
          /\ ~((k + 1) - i <= N)
      BY <1>1, <2>2
    <3>2. Shifted(b, i, k) = 0 /\ Shifted(b, i, k + 1) = 0
      BY <1>2, <1>3, <3>1
    <3>3. RowTerm(i, ai, b, k) = 0
      BY <2>2 DEF RowTerm
    <3> QED
      BY <1>1, <3>2, <3>3
  <2> QED
    BY <2>1, <2>2
<1> QED
  BY <1>4, <1>5, <1>6, <1>7

\* What row i makes of the product, with the weight of its last carry left over.
LEMMA RowValue ==
  ASSUME WordsOK, NEW p \in Arrays(2 * N), NEW i \in 0 .. N - 1, NEW ai \in 0 .. B - 1,
         NEW b \in Words
  PROVE  \E over \in Nat :
           Tails(MulRow(p, i, ai, b), 2 * N)[0] + Powers[2 * N] * over
             = Tails(p, 2 * N)[0] + Powers[i] * (ai * Digits(b))
<1> DEFINE n == 2 * N
           q == MulRow(p, i, ai, b)
           t == Tails(p, n)
           u == Tails(q, n)
<1>1. N \in Nat /\ N > 0 /\ n \in Nat /\ n = 2 * N /\ B \in Nat /\ B > 1 /\ n \in 0 .. 2 * N
  BY DEF WordsOK
<1>2. /\ q \in Arrays(2 * N) /\ \A k \in 0 .. i - 1 : q[k] = p[k]
      /\ \A k \in i .. 2 * N - 1 : RowTerm(i, ai, b, k) \in Nat
  BY RowWords
<1>3. PICK c \in [i .. 2 * N -> Nat] :
        /\ c[i] = 0
        /\ \A k \in i .. 2 * N - 1 :
             q[k] + B * c[k + 1] = RowTerm(i, ai, b, k) + p[k] + c[k]
  BY RowWords
<1> HIDE DEF q
<1>4. /\ t \in [0 .. n -> Nat] /\ t[n] = 0
      /\ \A k \in 0 .. n - 1 : p[k] \in 0 .. B - 1 /\ t[k] = p[k] + B * t[k + 1]
  BY <1>1, ArrayFacts
<1>5. /\ u \in [0 .. n -> Nat] /\ u[n] = 0
      /\ \A k \in 0 .. n - 1 : q[k] \in 0 .. B - 1 /\ u[k] = q[k] + B * u[k + 1]
  BY <1>1, <1>2, ArrayFacts
<1>6. /\ Powers \in [0 .. 2 * N -> Nat] /\ Powers[0] = 1
      /\ \A k \in 0 .. 2 * N - 1 : Powers[k + 1] = B * Powers[k]
  BY PowersFacts
<1>7. /\ Shifted(b, i, i) = Digits(b) /\ Shifted(b, i, 2 * N) = 0
      /\ \A k \in i .. 2 * N : Shifted(b, i, k) \in Nat
      /\ \A k \in i .. 2 * N - 1 :
           ai * Shifted(b, i, k)
             = RowTerm(i, ai, b, k) + B * (ai * Shifted(b, i, k + 1))
  BY ShiftedFacts
<1> DEFINE over == c[n]
           W(k) == Powers[n - k]
           S(k) == ai * Shifted(b, i, k)
           T == {k \in 0 .. n : k >= i => u[k] + W(k) * over = t[k] + S(k) + c[k]}
<1>8. over \in Nat /\ \A k \in i .. n : S(k) \in Nat /\ W(k) \in Nat /\ c[k] \in Nat
  <2> SUFFICES ASSUME NEW k \in i .. n PROVE S(k) \in Nat /\ W(k) \in Nat /\ c[k] \in Nat
    BY <1>1
  <2>1. n - k \in 0 .. n /\ Shifted(b, i, k) \in Nat /\ ai \in Nat
    BY <1>1, <1>7
  <2> QED
    BY <1>1, <1>6, <2>1
<1>9. n \in T
  <2>1. W(n) = 1 /\ S(n) = 0
    BY <1>1, <1>6, <1>7
  <2> HIDE DEF W, S
  <2>2. c[n] \in Nat
    BY <1>8
  <2> QED
    BY <1>1, <1>4, <1>5, <2>1, <2>2
<1>10. \A k \in 0 .. n : k # n /\ (k + 1) \in T => k \in T
  <2> SUFFICES ASSUME NEW k \in 0 .. n, k # n, (k + 1) \in T, k >= i
               PROVE  u[k] + W(k) * over = t[k] + S(k) + c[k]
    OBVIOUS
  <2>1. /\ k \in i .. n - 1 /\ k \in 0 .. n - 1 /\ k + 1 \in i .. n /\ k + 1 \in 0 .. n
        /\ n - (k + 1) \in 0 .. n - 1 /\ (n - (k + 1)) + 1 = n - k /\ k \in i .. n
        /\ k + 1 >= i
    BY <1>1
  <2>2. u[k + 1] + W(k + 1) * over = t[k + 1] + S(k + 1) + c[k + 1]
    BY <2>1
  <2>3. W(k) = B * W(k + 1)
    BY <1>1, <1>6, <2>1
  <2>4. S(k) = RowTerm(i, ai, b, k) + B * S(k + 1)
    BY <1>1, <1>7, <2>1
  <2>5. q[k] + B * c[k + 1] = RowTerm(i, ai, b, k) + p[k] + c[k]
    BY <1>1, <1>3, <2>1
  <2>6. u[k] = q[k] + B * u[k + 1] /\ t[k] = p[k] + B * t[k + 1]
    BY <1>4, <1>5, <2>1
  <2>7. /\ RowTerm(i, ai, b, k) \in Nat /\ q[k] \in Nat /\ p[k] \in Nat
        /\ u[k + 1] \in Nat /\ t[k + 1] \in Nat /\ c[k] \in Nat /\ c[k + 1] \in Nat
        /\ S(k + 1) \in Nat /\ W(k + 1) \in Nat
    <3>1. p[k] \in Nat /\ q[k] \in Nat
      <4>1. p[k] \in 0 .. B - 1 /\ q[k] \in 0 .. B - 1
        BY <1>4, <1>5, <2>1
      <4> HIDE DEF B
      <4> QED
        BY <1>1, <4>1
    <3>2. u[k + 1] \in Nat /\ t[k + 1] \in Nat
      BY <1>4, <1>5, <2>1
    <3>3. RowTerm(i, ai, b, k) \in Nat
      BY <1>1, <1>2, <2>1
    <3> HIDE DEF S, W
    <3>4. c[k] \in Nat /\ c[k + 1] \in Nat /\ S(k + 1) \in Nat /\ W(k + 1) \in Nat
      BY <1>8, <2>1
    <3> QED
      BY <3>1, <3>2, <3>3, <3>4
  <2> HIDE DEF W, S, over, t, u, B, n
  <2> DEFINE v == W(k + 1) * over
  <2>8. v \in Nat /\ W(k) * over = B * v
    <3> DEFINE x == W(k + 1)
    <3>1. x \in Nat /\ over \in Nat /\ W(k) = B * x
      BY <1>8, <2>3, <2>7
    <3> HIDE DEF x
    <3>2. (B * x) * over = B * (x * over) /\ x * over \in Nat
      BY <1>1, <3>1
    <3> QED
      BY <3>1, <3>2 DEF x
  <2>9. u[k + 1] + v = t[k + 1] + S(k + 1) + c[k + 1]
    BY <2>2
  <2> HIDE DEF v
  <2>10. CarryKept(B, u[k + 1], t[k + 1], S(k + 1), v, c[k + 1],
                   q[k], p[k], RowTerm(i, ai, b, k), c[k])
    BY <1>1, <2>7, <2>8, CarryStep
  <2>11. q[k] + B * c[k + 1] = p[k] + RowTerm(i, ai, b, k) + c[k]
    BY <2>7, <2>5
  <2>12. (q[k] + B * u[k + 1]) + B * v
           = (p[k] + B * t[k + 1]) + (RowTerm(i, ai, b, k) + B * S(k + 1)) + c[k]
    BY <2>9, <2>10, <2>11 DEF CarryKept
  <2> QED
    BY <2>4, <2>6, <2>8, <2>12
<1> HIDE DEF T
<1>11. \A k \in 0 .. n : k \in T
  BY <1>1, <1>9, <1>10, DownInduction
<1>12. u[i] + W(i) * over = t[i] + ai * Digits(b)
  <2>1. i \in 0 .. n /\ i >= i
    BY <1>1
  <2>2. i \in T
    BY <1>11, <2>1
  <2>3. u[i] + W(i) * over = t[i] + S(i) + c[i]
    BY <2>1, <2>2 DEF T
  <2>4. t[i] \in Nat /\ S(i) = ai * Digits(b) /\ S(i) \in Nat
    BY <1>1, <1>4, <1>7, <1>8, <2>1
  <2> HIDE DEF S, W, over, u, t
  <2> QED
    BY <1>3, <2>3, <2>4
<1>13. /\ u[0] = Low(q, n, i) + Powers[i] * u[i]
       /\ t[0] = Low(p, n, i) + Powers[i] * t[i]
       /\ Low(q, n, i) = Low(p, n, i) /\ Low(p, n, i) \in Nat
  <2>1. i \in 0 .. n
    BY <1>1
  <2>2. Low(q, n, i) = Low(p, n, i)
    BY <1>1, <1>2, <2>1, LowSame
  <2>3. t[0] = Low(p, n, i) + Powers[i] * t[i] /\ Low(p, n, i) \in 0 .. Powers[i] - 1
    BY <1>1, <2>1, LowFacts
  <2>4. u[0] = Low(q, n, i) + Powers[i] * u[i]
    BY <1>1, <1>2, <2>1, LowFacts
  <2>5. Powers[i] \in Nat
    BY <1>1, <1>6
  <2> HIDE DEF t, u
  <2>6. Low(p, n, i) \in Nat
    BY <2>3, <2>5
  <2> QED
    BY <2>2, <2>3, <2>4, <2>6
<1>14. Powers[i] * W(i) = Powers[n]
  BY <1>1, PowersMultiply
<1>15. /\ u[i] \in Nat /\ t[i] \in Nat /\ W(i) \in Nat /\ Powers[i] \in Nat
       /\ Digits(b) \in Nat /\ ai * Digits(b) \in Nat
  <2>1. i \in 0 .. n /\ i \in i .. n /\ i \in 0 .. 2 * N
    BY <1>1
  <2>2. Digits(b) \in Nat /\ ai \in Nat
    BY <1>1, MagnitudeFacts
  <2> QED
    <3>1. ai * Digits(b) \in Nat
      BY <2>2
    <3>2. u[i] \in Nat /\ t[i] \in Nat /\ Powers[i] \in Nat
      BY <1>4, <1>5, <1>6, <2>1
    <3> HIDE DEF W
    <3> QED
      BY <1>8, <2>1, <2>2, <3>1, <3>2
<1>16. u[0] + Powers[n] * over = t[0] + Powers[i] * (ai * Digits(b))
  <2> DEFINE P == Powers[i]  w == W(i)  d == ai * Digits(b)  l == Low(p, n, i)
             x == u[i]  y == t[i]
  <2>1. P \in Nat /\ w \in Nat /\ d \in Nat /\ l \in Nat /\ x \in Nat /\ y \in Nat
    BY <1>13, <1>15
  <2>2. x + w * over = y + d
    BY <1>12
  <2>3. u[0] = l + P * x /\ t[0] = l + P * y /\ Powers[n] = P * w
    BY <1>13, <1>14
  <2> HIDE DEF P, w, d, l, x, y, over
  <2>4. P * (x + w * over) = P * x + (P * w) * over
    BY <1>8, <2>1
  <2>5. P * (y + d) = P * y + P * d
    BY <2>1
  <2>6. P * x + (P * w) * over = P * y + P * d
    BY <2>2, <2>4, <2>5
  <2>7. P * x \in Nat /\ (P * w) * over \in Nat /\ P * y \in Nat /\ P * d \in Nat
    BY <1>8, <2>1
  <2>8. (l + P * x) + (P * w) * over = (l + P * y) + P * d
    BY <2>1, <2>6, <2>7
  <2> QED
    BY <2>3, <2>8 DEF P, d
<1> HIDE DEF over
<1> QED
  BY <1>1, <1>8, <1>16 DEF q

\* The rows of a product, and what the last one leaves.
ProductRows(a, b) ==
  LET rows[i \in 0 .. N] ==
        IF i = 0 THEN [k \in 0 .. 2 * N - 1 |-> 0]
        ELSE MulRow(rows[i - 1], i - 1, a[i - 1], b)
  IN  rows

\* Rows are arrays, each made of the one before.
LEMMA RowsFacts ==
  ASSUME WordsOK, NEW a \in Words, NEW b \in Words
  PROVE  /\ \A i \in 0 .. N : ProductRows(a, b)[i] \in Arrays(2 * N)
         /\ ProductRows(a, b)[0] = [k \in 0 .. 2 * N - 1 |-> 0]
         /\ \A i \in 0 .. N - 1 :
              ProductRows(a, b)[i + 1] = MulRow(ProductRows(a, b)[i], i, a[i], b)
<1> DEFINE S == Arrays(2 * N)
           zero == [k \in 0 .. 2 * N - 1 |-> 0]
           row(i, p) == MulRow(p, i, a[i], b)
           Is(f) == f = [i \in 0 .. N |-> IF i = 0 THEN zero
                                          ELSE MulRow(f[i - 1], i - 1, a[i - 1], b)]
           rows == ProductRows(a, b)
           step == [i \in 1 .. N |-> [p \in S |-> row(i - 1, p)]]
<1>1. N \in Nat /\ N > 0 /\ B \in Nat /\ B > 1 /\ \A i \in 0 .. N - 1 : a[i] \in 0 .. B - 1
  BY WordsFacts DEF WordsOK
<1>2. zero \in S
  <2> HIDE DEF B
  <2> QED
    BY <1>1 DEF Arrays
<1>3. \A i \in 0 .. N - 1, p \in S : row(i, p) \in S
  BY <1>1, RowWords
<1> HIDE DEF S, zero
<1>4. step \in [1 .. N -> [S -> S]]
  <2> SUFFICES ASSUME NEW i \in 1 .. N, NEW p \in S PROVE row(i - 1, p) \in S
    OBVIOUS
  <2>1. i - 1 \in 0 .. N - 1
    BY <1>1
  <2> HIDE DEF row
  <2> QED
    BY <1>3, <2>1
<1>5. \A i \in 1 .. N, p \in S : step[i][p] = row(i - 1, p)
  OBVIOUS
<1> HIDE DEF step
<1>6. PICK f : Iterates(f, N, S, zero, step)
  BY <1>1, <1>2, <1>4, Iteration
<1>7. /\ f \in [0 .. N -> S] /\ f[0] = zero
      /\ \A i \in 1 .. N : f[i] = step[i][f[i - 1]]
  BY <1>6 DEF Iterates
<1>8. Is(f)
  <2>1. ASSUME NEW i \in 1 .. N PROVE f[i] = MulRow(f[i - 1], i - 1, a[i - 1], b)
    BY <1>1, <1>7, <1>5
  <2>2. \A i \in 0 .. N : f[i] = IF i = 0 THEN zero
                                 ELSE MulRow(f[i - 1], i - 1, a[i - 1], b)
    BY <1>7, <2>1
  <2> QED
    BY <1>7, <2>2
<1>9. Is(rows)
  <2>1. rows = CHOOSE g : Is(g)
    BY DEF ProductRows, zero
  <2> HIDE DEF Is, rows
  <2> QED
    BY <1>8, <2>1
<1> HIDE DEF rows
<1>10. rows[0] = zero
  BY <1>1, <1>9
<1>11. \A i \in 0 .. N - 1 : rows[i + 1] = row(i, rows[i])
  BY <1>1, <1>9
<1> DEFINE T == {i \in 0 .. N : rows[i] \in S}
<1>12. 0 \in T
  BY <1>1, <1>2, <1>10
<1>13. \A i \in 0 .. N : i # N /\ i \in T => (i + 1) \in T
  <2> SUFFICES ASSUME NEW i \in 0 .. N, i # N, rows[i] \in S
               PROVE  i + 1 \in 0 .. N /\ rows[i + 1] \in S
    OBVIOUS
  <2>1. i \in 0 .. N - 1 /\ i + 1 \in 0 .. N
    BY <1>1
  <2> HIDE DEF row
  <2> QED
    BY <1>3, <1>11, <2>1
<1> HIDE DEF T
<1>14. \A i \in 0 .. N : i \in T
  BY <1>1, <1>12, <1>13, IntervalInduction
<1>15. \A i \in 0 .. N : rows[i] \in S
  BY <1>14 DEF T
<1> QED
  BY <1>10, <1>11, <1>15 DEF rows, S, zero

\* The array of zeros is worth nothing.
LEMMA NoWords ==
  ASSUME WordsOK, NEW n \in 0 .. 2 * N, NEW w \in Arrays(n), NEW j \in 0 .. n
  PROVE  (\A k \in j .. n - 1 : w[k] = 0) <=> Tails(w, n)[j] = 0
<1> DEFINE t == Tails(w, n)
           None(i) == \A k \in i .. n - 1 : w[k] = 0
           T == {i \in 0 .. n : None(i) <=> t[i] = 0}
<1>1. N \in Nat /\ n \in Nat /\ B \in Nat /\ B > 1
  BY DEF WordsOK
<1>2. /\ t \in [0 .. n -> Nat] /\ t[n] = 0
      /\ \A i \in 0 .. n - 1 : w[i] \in 0 .. B - 1 /\ t[i] = w[i] + B * t[i + 1]
  BY ArrayFacts
<1> HIDE DEF t, B
<1>3. n \in T
  BY <1>1, <1>2
<1>4. \A i \in 0 .. n : i # n /\ (i + 1) \in T => i \in T
  <2> SUFFICES ASSUME NEW i \in 0 .. n, i # n, None(i + 1) <=> t[i + 1] = 0
               PROVE  None(i) <=> t[i] = 0
    OBVIOUS
  <2>1. i \in 0 .. n - 1 /\ i + 1 \in 0 .. n
    BY <1>1
  <2>2. w[i] \in Nat /\ t[i + 1] \in Nat /\ t[i] = w[i] + B * t[i + 1]
    BY <1>1, <1>2, <2>1
  <2>3. None(i) <=> w[i] = 0 /\ None(i + 1)
    BY <1>1, <2>1
  <2>4. \A x, y \in Nat : x + B * y = 0 <=> x = 0 /\ y = 0
    BY <1>1
  <2> HIDE DEF None
  <2> QED
    BY <2>2, <2>3, <2>4
<1> HIDE DEF T
<1>5. \A i \in 0 .. n : i \in T
  BY <1>1, <1>3, <1>4, DownInduction
<1> QED
  BY <1>5 DEF T, t

\* All the rows together multiply.
LEMMA ProductValue ==
  ASSUME WordsOK, NEW a \in Words, NEW b \in Words
  PROVE  /\ ProductRows(a, b)[N] \in Arrays(2 * N)
         /\ Tails(ProductRows(a, b)[N], 2 * N)[0] = Digits(a) * Digits(b)
<1> DEFINE rows == ProductRows(a, b)
           V(i) == Tails(rows[i], 2 * N)[0]
           d == Digits(b)
           L(i) == Low(a, N, i)
           T == {i \in 0 .. N : V(i) = L(i) * d}
<1>1. /\ N \in Nat /\ N > 0 /\ B \in Nat /\ B > 1 /\ 2 * N \in 0 .. 2 * N /\ 0 \in 0 .. 2 * N
      /\ N \in 0 .. 2 * N
  BY DEF WordsOK
<1>2. /\ \A i \in 0 .. N : rows[i] \in Arrays(2 * N)
      /\ rows[0] = [k \in 0 .. 2 * N - 1 |-> 0]
      /\ \A i \in 0 .. N - 1 : rows[i + 1] = MulRow(rows[i], i, a[i], b)
  BY RowsFacts
<1>3. a \in Arrays(N) /\ \A i \in 0 .. N - 1 : a[i] \in 0 .. B - 1
  BY WordsFacts DEF Arrays, Words
<1>4. /\ L(0) = 0 /\ L(N) = Tails(a, N)[0]
      /\ \A i \in 0 .. N - 1 : L(i + 1) = L(i) + Powers[i] * a[i]
      /\ \A i \in 0 .. N : L(i) \in 0 .. Powers[i] - 1
      /\ \A i \in 0 .. N : Tails(a, N)[0] = L(i) + Powers[i] * Tails(a, N)[i]
  BY <1>1, <1>3, LowFacts
<1>5. /\ Powers \in [0 .. 2 * N -> Nat] /\ Powers[2 * N] = (Limit + 1) * (Limit + 1)
      /\ Limit \in Nat
  BY PowersFacts, LimitFacts, MaxWordsFacts
<1>6. /\ d \in 0 .. Limit /\ d \in Nat /\ Digits(a) \in 0 .. Limit
      /\ Digits(a) = Tails(a, N)[0] /\ Tails(a, N) \in [0 .. N -> Nat]
  BY TailsRange, MagnitudeFacts
<1> HIDE DEF rows, d, L, B
<1>7. \A i \in 0 .. N : V(i) \in Nat
  BY <1>1, <1>2, ArrayFacts
<1>8. \A i \in 0 .. N : L(i) \in 0 .. Limit
  <2> SUFFICES ASSUME NEW i \in 0 .. N PROVE L(i) \in 0 .. Limit
    OBVIOUS
  <2>1. Powers[i] \in Nat /\ Tails(a, N)[i] \in Nat
    BY <1>1, <1>5, <1>6
  <2>2. L(i) \in Nat
    BY <1>4, <2>1
  <2>3. Powers[i] * Tails(a, N)[i] \in Nat
    BY <2>1
  <2>4. Digits(a) = L(i) + Powers[i] * Tails(a, N)[i]
    BY <1>4, <1>6
  <2> QED
    BY <1>5, <1>6, <2>2, <2>3, <2>4
<1>9. V(0) = 0
  BY <1>2, <1>1, NoWords
<1>10. 0 \in T
  BY <1>1, <1>4, <1>6, <1>9
<1>11. \A i \in 0 .. N : i # N /\ i \in T => (i + 1) \in T
  <2> SUFFICES ASSUME NEW i \in 0 .. N, i # N, V(i) = L(i) * d
               PROVE  i + 1 \in 0 .. N /\ V(i + 1) = L(i + 1) * d
    OBVIOUS
  <2>1. i \in 0 .. N - 1 /\ i + 1 \in 0 .. N /\ i \in 0 .. 2 * N
    BY <1>1
  <2>2. rows[i] \in Arrays(2 * N) /\ a[i] \in 0 .. B - 1
    BY <1>2, <1>3, <2>1
  <2>3. PICK over \in Nat :
          Tails(MulRow(rows[i], i, a[i], b), 2 * N)[0] + Powers[2 * N] * over
            = Tails(rows[i], 2 * N)[0] + Powers[i] * (a[i] * Digits(b))
    BY <2>1, <2>2, RowValue
  <2>4. V(i + 1) + Powers[2 * N] * over = V(i) + Powers[i] * (a[i] * d)
    BY <1>2, <2>1, <2>3 DEF d
  <2>5. /\ V(i + 1) \in Nat /\ L(i) \in Nat /\ L(i + 1) \in 0 .. Limit /\ Powers[i] \in Nat
        /\ a[i] \in Nat
    <3>1. L(i) \in 0 .. Limit /\ L(i + 1) \in 0 .. Limit
      BY <1>8, <2>1
    <3>2. a[i] \in Nat
      BY <1>1, <2>2
    <3> HIDE DEF V
    <3>3. V(i + 1) \in Nat
      BY <1>7, <2>1
    <3> QED
      BY <1>5, <2>1, <3>1, <3>2, <3>3
  <2>6. L(i + 1) * d = V(i) + Powers[i] * (a[i] * d)
    <3>1. L(i + 1) = L(i) + Powers[i] * a[i]
      BY <1>4, <2>1
    <3>2. \A x, y, z, e \in Nat : (x + y * z) * e = x * e + y * (z * e)
      OBVIOUS
    <3>3. (L(i) + Powers[i] * a[i]) * d = L(i) * d + Powers[i] * (a[i] * d)
      BY <1>6, <2>5, <3>2
    <3> HIDE DEF V
    <3> QED
      BY <3>1, <3>3
  <2>7. V(i + 1) + Powers[2 * N] * over = L(i + 1) * d
    BY <2>4, <2>6
  <2>8. over = 0
    <3> HIDE DEF V
    <3> DEFINE x == L(i + 1)
               m == Limit + 1
    <3>1. x \in Nat /\ x < m /\ d < m /\ m \in Nat /\ m > 0
      BY <1>5, <1>6, <2>5
    <3>2. V(i + 1) + (m * m) * over = x * d
      BY <1>5, <2>7
    <3> HIDE DEF x, m
    <3>3. x * d < m * m
      BY <1>6, <3>1
    <3>4. over >= 1 => (m * m) * over >= m * m
      BY <3>1
    <3>5. (m * m) * over \in Nat /\ m * m \in Nat /\ x * d \in Nat
      BY <1>6, <3>1
    <3> QED
      BY <2>5, <3>2, <3>3, <3>4, <3>5
  <2>9. Powers[2 * N] * over = 0
    BY <1>1, <1>5, <2>8
  <2> HIDE DEF V
  <2>10. V(i + 1) = L(i + 1) * d
    BY <2>5, <2>7, <2>9
  <2> QED
    BY <2>1, <2>10
<1> HIDE DEF T
<1>12. \A i \in 0 .. N : i \in T
  BY <1>1, <1>10, <1>11, IntervalInduction
<1>13. V(N) = L(N) * d
  <2>1. N \in 0 .. N
    BY <1>1
  <2> QED
    BY <1>12, <2>1 DEF T
<1>14. N \in 0 .. N
  BY <1>1
<1> QED
  BY <1>2, <1>4, <1>6, <1>13, <1>14 DEF rows, d

\* N words of a longer array, and what lies beyond them.
LEMMA MiddleWords ==
  ASSUME WordsOK, NEW p \in Arrays(2 * N), NEW j \in 0 .. N, NEW w,
         w = [i \in 0 .. N - 1 |-> p[j + i]]
  PROVE  /\ w \in Words
         /\ Tails(p, 2 * N)[j] = Digits(w) + Powers[N] * Tails(p, 2 * N)[j + N]
         /\ Tails(p, 2 * N)[j + N] \in Nat
         /\ (\E k \in j + N .. 2 * N - 1 : p[k] # 0) <=> Tails(p, 2 * N)[j + N] # 0
<1> DEFINE n == 2 * N
           t == Tails(p, n)
           s == Tails(w, N)
           top == t[j + N]
           W(i) == Powers[N - i]
           T == {i \in 0 .. N : t[j + i] = s[i] + W(i) * top}
<1>1. /\ N \in Nat /\ N > 0 /\ n \in Nat /\ n = 2 * N /\ n \in 0 .. 2 * N
      /\ B \in Nat /\ B > 1 /\ j + N \in 0 .. n
  BY DEF WordsOK
<1>2. /\ t \in [0 .. n -> Nat] /\ t[n] = 0
      /\ \A i \in 0 .. n - 1 : p[i] \in 0 .. B - 1 /\ t[i] = p[i] + B * t[i + 1]
  BY <1>1, ArrayFacts
<1>3. w \in Words /\ \A i \in 0 .. N - 1 : w[i] = p[j + i]
  <2>1. \A i \in 0 .. N - 1 : j + i \in 0 .. n - 1
    BY <1>1
  <2>2. \A i \in 0 .. N - 1 : w[i] = p[j + i] /\ p[j + i] \in 0 .. B - 1
    BY <1>2, <2>1
  <2> QED
    BY <2>2 DEF Words
<1>4. /\ s \in [0 .. N -> Nat] /\ s[N] = 0 /\ Digits(w) = s[0]
      /\ \A i \in 0 .. N - 1 : w[i] \in 0 .. B - 1 /\ s[i] = w[i] + B * s[i + 1]
  BY <1>3, MagnitudeFacts
<1>5. /\ Powers \in [0 .. 2 * N -> Nat] /\ Powers[0] = 1
      /\ \A i \in 0 .. 2 * N - 1 : Powers[i + 1] = B * Powers[i]
  BY PowersFacts
<1> HIDE DEF t, s, B, n
<1>6. top \in Nat
  BY <1>1, <1>2
<1> HIDE DEF top
<1>7. N \in T
  <2>1. W(N) = 1
    BY <1>1, <1>5
  <2>2. top = s[N] + 1 * top
    BY <1>4, <1>6
  <2> HIDE DEF W
  <2>3. t[j + N] = s[N] + W(N) * top
    BY <2>1, <2>2 DEF top
  <2> QED
    BY <1>1, <2>3
<1>8. \A i \in 0 .. N : i # N /\ (i + 1) \in T => i \in T
  <2> SUFFICES ASSUME NEW i \in 0 .. N, i # N, t[j + (i + 1)] = s[i + 1] + W(i + 1) * top
               PROVE  t[j + i] = s[i] + W(i) * top
    OBVIOUS
  <2>1. /\ i \in 0 .. N - 1 /\ i + 1 \in 0 .. N /\ j + i \in 0 .. n - 1
        /\ (j + i) + 1 = j + (i + 1) /\ N - (i + 1) \in 0 .. 2 * N - 1
        /\ (N - (i + 1)) + 1 = N - i /\ N - (i + 1) \in 0 .. 2 * N
    BY <1>1
  <2>2. t[j + i] = p[j + i] + B * t[j + (i + 1)] /\ s[i] = p[j + i] + B * s[i + 1]
    BY <1>2, <1>3, <1>4, <2>1
  <2>3. W(i) = B * W(i + 1) /\ W(i + 1) \in Nat
    BY <1>5, <2>1
  <2>4. p[j + i] \in Nat /\ s[i + 1] \in Nat
    BY <1>2, <1>4, <2>1, <1>1
  <2> DEFINE x == W(i + 1)  y == s[i + 1]  z == p[j + i]
  <2>5. x \in Nat /\ y \in Nat /\ z \in Nat /\ W(i) = B * x
    BY <2>3, <2>4
  <2>6. t[j + i] = z + B * (y + x * top) /\ s[i] = z + B * y
    BY <2>2
  <2> HIDE DEF x, y, z, W
  <2>7. z + B * (y + x * top) = (z + B * y) + (B * x) * top
    BY <1>1, <1>6, <2>5
  <2> QED
    BY <2>5, <2>6, <2>7
<1> HIDE DEF T
<1>9. \A i \in 0 .. N : i \in T
  BY <1>1, <1>7, <1>8, DownInduction
<1>10. t[j] = Digits(w) + Powers[N] * top
  <2>1. 0 \in 0 .. N /\ j + 0 = j /\ N - 0 = N
    BY <1>1
  <2> QED
    BY <1>4, <1>9, <2>1 DEF T
<1>11. (\A k \in j + N .. n - 1 : p[k] = 0) <=> top = 0
  <2> QED
    BY <1>1, NoWords DEF top, t
<1> QED
  BY <1>3, <1>6, <1>10, <1>11 DEF top, t, n

\* FPN_Mul: the product of the magnitudes, cut off below the last bit, or the
\* largest magnitude.
LEMMA MulWords ==
  ASSUME WordsOK, EvenWords, NEW a \in FPNs, NEW b \in FPNs
  PROVE  LET P == (Digits(a.w) * Digits(b.w)) \div Powers[FW]
         IN  /\ Mul(a, b).w \in Words
             /\ Digits(Mul(a, b).w) = IF P > Limit THEN Limit ELSE P
             /\ Mul(a, b) = [w |-> Mul(a, b).w,
                             neg |-> a.neg # b.neg /\ ~MagIsZero(Mul(a, b).w)]
<1> DEFINE p == ProductRows(a.w, b.w)[N]
           m == [i \in 0 .. N - 1 |-> p[FW + i]]
           w == IF \E k \in FW + N .. 2 * N - 1 : p[k] # 0 THEN MaxWords ELSE m
           D == Digits(a.w) * Digits(b.w)
           H == Powers[FW]
           P == D \div H
           t == Tails(p, 2 * N)
<1>1. Mul(a, b) = [w |-> w, neg |-> a.neg # b.neg /\ ~MagIsZero(w)]
  BY DEF Mul, ProductRows
<1>2. p \in Arrays(2 * N) /\ t[0] = D
  BY ValueFacts, ProductValue
<1> HIDE DEF p
<1>3. /\ m \in Words /\ t[FW] = Digits(m) + Powers[N] * t[FW + N] /\ t[FW + N] \in Nat
      /\ (\E k \in FW + N .. 2 * N - 1 : p[k] # 0) <=> t[FW + N] # 0
  <2>1. FW \in 0 .. N
    <3>1. N \in Nat /\ FW + FW = N /\ FW \in Int
      BY DEF WordsOK, EvenWords, FW
    <3> HIDE DEF FW
    <3> QED
      BY <3>1
  <2> HIDE DEF FW, t, m
  <2> QED
    BY <1>2, <2>1, MiddleWords DEF t, m
<1>4. /\ N \in Nat /\ N > 0 /\ FW \in Nat /\ FW + FW = N /\ FW \in 0 .. 2 * N
      /\ 2 * N \in 0 .. 2 * N
  <2>1. N \in Nat /\ N > 0 /\ FW + FW = N /\ FW \in Int
    BY DEF WordsOK, EvenWords, FW
  <2> HIDE DEF FW
  <2> QED
    BY <2>1
<1> HIDE DEF FW
<1>5. D = Low(p, 2 * N, FW) + H * t[FW] /\ Low(p, 2 * N, FW) \in 0 .. H - 1
  <2> HIDE DEF D
  <2> QED
    BY <1>2, <1>4, LowFacts
<1>6. H \in Nat /\ H > 0 /\ Powers[N] = Limit + 1 /\ Limit \in Nat /\ t[FW] \in Nat
  <2>1. t \in [0 .. 2 * N -> Nat]
    BY <1>2, <1>4, ArrayFacts
  <2> QED
    BY <1>4, <2>1, PowersFacts, LimitFacts, MaxWordsFacts
<1>7. P = t[FW]
  <2> DEFINE l == Low(p, 2 * N, FW)  x == t[FW]
  <2>1. l \in 0 .. H - 1 /\ x \in Nat /\ D = l + H * x
    BY <1>5, <1>6
  <2> HIDE DEF l, x, H, D
  <2>2. (l + H * x) \div H = x
    BY <1>6, <2>1
  <2> QED
    BY <2>1, <2>2 DEF x
<1>8. Digits(m) \in 0 .. Limit /\ MaxWords \in Words /\ Digits(MaxWords) = Limit
  <2> HIDE DEF m
  <2> QED
    BY <1>3, TailsRange, MaxWordsFacts DEF Limit
<1> HIDE DEF D, H, P, m, t
<1>9. w \in Words /\ Digits(w) = IF P > Limit THEN Limit ELSE P
  <2>1. CASE t[FW + N] = 0
    BY <1>3, <2>1, <1>6, <1>7, <1>8
  <2>2. CASE t[FW + N] # 0
    <3>1. w = MaxWords
      BY <1>3, <2>2
    <3>2. (Limit + 1) * t[FW + N] >= Limit + 1
      BY <1>3, <1>6, <2>2
    <3>3. P > Limit
      BY <1>3, <1>6, <1>7, <1>8, <3>2
    <3> QED
      BY <1>8, <3>1, <3>3
  <2> QED
    BY <2>1, <2>2
<1> HIDE DEF w
<1>10. Mul(a, b).w = w
  BY <1>1
<1> QED
  BY <1>1, <1>9, <1>10 DEF P, D, H

\* FPN_Mul (496-539): the product cut off below the last bit, or the largest
\* magnitude where the words above the result are not all zero; the rows' carries
\* lose nothing, and the sign is the product's.
THEOREM WordProductsSaturate ==
  ASSUME FormatOK, NEW a \in FPNs, NEW b \in FPNs
  PROVE  LET P == (Size(Value(a)) * Size(Value(b))) \div Powers[FW]
             r == Value(Mul(a, b))
         IN  /\ Mul(a, b) \in FPNs
             /\ Size(r) = IF P > Limit THEN Limit ELSE P
             /\ r # 0 => (r < 0 <=> (Value(a) < 0 <=> ~(Value(b) < 0)))
             /\ Mul(a, b).neg => r < 0
<1>0. WordsOK /\ EvenWords /\ B % 2 = 0
  BY FormatFacts
<1> USE <1>0
<1> DEFINE r == Mul(a, b)
           P == (Digits(a.w) * Digits(b.w)) \div Powers[FW]
<1>1. /\ a.w \in Words /\ a.neg \in BOOLEAN /\ Digits(a.w) \in Nat
      /\ Size(Value(a)) = Digits(a.w)
      /\ a.neg => Value(a) = 0 - Digits(a.w)
      /\ ~a.neg => Value(a) = Digits(a.w)
  BY ValueFacts
<1>2. /\ b.w \in Words /\ b.neg \in BOOLEAN /\ Digits(b.w) \in Nat
      /\ Size(Value(b)) = Digits(b.w)
      /\ b.neg => Value(b) = 0 - Digits(b.w)
      /\ ~b.neg => Value(b) = Digits(b.w)
  BY ValueFacts
<1>3. /\ r.w \in Words /\ Digits(r.w) = IF P > Limit THEN Limit ELSE P
      /\ r = [w |-> r.w, neg |-> a.neg # b.neg /\ ~MagIsZero(r.w)]
  BY MulWords
<1> HIDE DEF r
<1>4. r \in FPNs /\ r.neg = (a.neg # b.neg /\ ~MagIsZero(r.w))
  <2> DEFINE neg == a.neg # b.neg /\ ~MagIsZero(r.w)
  <2>1. neg \in BOOLEAN /\ r.w \in Words /\ r = [w |-> r.w, neg |-> neg]
    BY <1>3
  <2> HIDE DEF neg
  <2>2. r \in FPNs /\ r.neg = neg
    BY <2>1 DEF FPNs
  <2> QED
    BY <2>2 DEF neg
<1>5. /\ Size(Value(r)) = Digits(r.w) /\ Digits(r.w) \in Nat
      /\ r.neg => Value(r) = 0 - Digits(r.w)
      /\ ~r.neg => Value(r) = Digits(r.w)
      /\ MagIsZero(r.w) <=> Digits(r.w) = 0
  BY <1>4, ValueFacts
<1>6. r.neg <=> (a.neg # b.neg /\ Digits(r.w) # 0)
  BY <1>4, <1>5
<1>7. r.neg => Value(r) < 0
  BY <1>5, <1>6
<1>8. Value(r) # 0 => Digits(a.w) # 0 /\ Digits(b.w) # 0 /\ Digits(r.w) # 0
  <2>1. Value(r) # 0 => Digits(r.w) # 0
    BY <1>5
  <2>2. Digits(a.w) = 0 \/ Digits(b.w) = 0 => Digits(r.w) = 0
    <3> SUFFICES ASSUME Digits(a.w) = 0 \/ Digits(b.w) = 0 PROVE Digits(r.w) = 0
      OBVIOUS
    <3>1. Digits(a.w) * Digits(b.w) = 0
      BY <1>1, <1>2
    <3>2. FW \in 0 .. 2 * N
      <4>1. N \in Nat /\ N > 0 /\ FW + FW = N /\ FW \in Int
        BY DEF WordsOK, EvenWords, FW
      <4> HIDE DEF FW
      <4> QED
        BY <4>1
    <3>3. Powers[FW] \in Nat /\ Powers[FW] > 0 /\ Limit \in Nat
      BY <3>2, PowersFacts, MaxWordsFacts
    <3>4. P = 0
      BY <3>1, <3>3
    <3> HIDE DEF P
    <3> QED
      BY <1>3, <3>3, <3>4
  <2> QED
    BY <2>1, <2>2
<1>9. Value(r) # 0 => (Value(r) < 0 <=> (Value(a) < 0 <=> ~(Value(b) < 0)))
  BY <1>1, <1>2, <1>5, <1>8, <1>6
<1> QED
  BY <1>1, <1>2, <1>3, <1>4, <1>5, <1>7, <1>9 DEF r

-----------------------------------------------------------------------------
(* Roundings.                                                              *)

\* The whole part of a magnitude, and one unit.
WholeWords(w) == [i \in 0 .. N - 1 |-> IF i < FW THEN 0 ELSE w[i]]
UnitWords     == [i \in 0 .. N - 1 |-> IF i = FW THEN 1 ELSE 0]
Fraction(w)   == Low(w, N, FW)

\* The word the binary point is below.
LEMMA PointFacts ==
  ASSUME WordsOK, EvenWords
  PROVE  /\ N \in Nat /\ N > 0 /\ FW \in Nat /\ FW > 0 /\ FW + FW = N /\ FW < N
         /\ FW \in 0 .. 2 * N /\ FW \in 0 .. N - 1 /\ FW \in 0 .. N /\ N \in 0 .. 2 * N
         /\ Unit \in Nat /\ Unit > 0 /\ B \in Nat /\ B > 1
<1>1. N \in Nat /\ N > 0 /\ FW + FW = N /\ FW \in Int
  BY DEF WordsOK, EvenWords, FW
<1> HIDE DEF FW
<1>2. FW \in Nat /\ FW > 0 /\ FW < N /\ FW \in 0 .. 2 * N
  BY <1>1
<1>3. Unit \in Nat /\ Unit > 0
  BY <1>2, PowersFacts DEF Unit
<1> QED
  BY <1>1, <1>2, <1>3 DEF WordsOK

\* A magnitude is its whole part and its fraction.
LEMMA WholeFacts ==
  ASSUME WordsOK, EvenWords, NEW w \in Words
  PROVE  /\ WholeWords(w) \in Words /\ UnitWords \in Words
         /\ Digits(UnitWords) = Unit
         /\ Fraction(w) \in 0 .. Unit - 1
         /\ Digits(w) = Digits(WholeWords(w)) + Fraction(w)
         /\ \E x \in Nat : Digits(WholeWords(w)) = Unit * x
         /\ (\E i \in 0 .. FW - 1 : w[i] # 0) <=> Fraction(w) # 0
<1> DEFINE v == WholeWords(w)
           u == UnitWords
<1>1. /\ N \in Nat /\ N > 0 /\ FW \in Nat /\ FW > 0 /\ FW + FW = N /\ FW < N
      /\ FW \in 0 .. 2 * N /\ FW \in 0 .. N - 1 /\ FW \in 0 .. N /\ N \in 0 .. 2 * N
      /\ Unit \in Nat /\ Unit > 0 /\ B \in Nat /\ B > 1
  BY PointFacts
<1>2. w \in Arrays(N) /\ \A i \in 0 .. N - 1 : w[i] \in 0 .. B - 1
  BY WordsFacts DEF Arrays, Words
<1> HIDE DEF FW, B
<1>3. /\ v \in Arrays(N) /\ u \in Arrays(N)
      /\ \A i \in 0 .. N - 1 : /\ v[i] = IF i < FW THEN 0 ELSE w[i]
                               /\ u[i] = IF i = FW THEN 1 ELSE 0
  BY <1>1, <1>2 DEF Arrays, WholeWords, UnitWords
<1> HIDE DEF v, u
<1>4. v \in Words /\ u \in Words
  BY <1>3 DEF Arrays, Words
<1> DEFINE zero == [i \in 0 .. N - 1 |-> 0]
<1>5. /\ zero \in Arrays(N) /\ (\A i \in 0 .. N - 1 : zero[i] = 0)
      /\ Low(zero, N, FW) = 0
  <2>1. zero \in Arrays(N) /\ \A i \in 0 .. N - 1 : zero[i] = 0
    BY <1>1 DEF Arrays
  <2> HIDE DEF zero
  <2>2. \A j \in 0 .. N : Tails(zero, N)[j] = 0
    BY <1>1, <2>1, NoWords
  <2>3. Low(zero, N, FW) = 0
    BY <1>1, <2>2 DEF Low, Unit
  <2> QED
    BY <2>1, <2>3
<1> HIDE DEF zero
<1>6. Low(v, N, FW) = 0 /\ Low(u, N, FW) = 0
  BY <1>1, <1>3, <1>5, LowSame
<1>7. /\ Digits(v) = Tails(v, N)[0] /\ Digits(w) = Tails(w, N)[0]
      /\ Digits(u) = Tails(u, N)[0]
      /\ Tails(v, N) \in [0 .. N -> Nat] /\ Tails(w, N) \in [0 .. N -> Nat]
      /\ Tails(u, N) \in [0 .. N -> Nat]
  BY <1>4, MagnitudeFacts
<1>8. /\ Tails(v, N)[0] = Low(v, N, FW) + Unit * Tails(v, N)[FW]
      /\ Tails(u, N)[0] = Low(u, N, FW) + Unit * Tails(u, N)[FW]
      /\ Tails(w, N)[0] = Low(w, N, FW) + Unit * Tails(w, N)[FW]
      /\ Fraction(w) \in 0 .. Unit - 1
  BY <1>1, <1>2, <1>3, LowFacts DEF Unit, Fraction
<1>9. Tails(v, N)[FW] = Tails(w, N)[FW]
  <2> DEFINE T == {j \in 0 .. N : j >= FW => Tails(v, N)[j] = Tails(w, N)[j]}
  <2>1. /\ Tails(v, N)[N] = 0 /\ Tails(w, N)[N] = 0
        /\ \A i \in 0 .. N - 1 : /\ Tails(v, N)[i] = v[i] + B * Tails(v, N)[i + 1]
                                 /\ Tails(w, N)[i] = w[i] + B * Tails(w, N)[i + 1]
    BY <1>1, <1>2, <1>3, ArrayFacts
  <2>2. N \in T
    BY <1>1, <2>1
  <2>3. \A j \in 0 .. N : j # N /\ (j + 1) \in T => j \in T
    BY <1>1, <1>3, <2>1
  <2> HIDE DEF T
  <2>4. \A j \in 0 .. N : j \in T
    BY <1>1, <2>2, <2>3, DownInduction
  <2> QED
    BY <1>1, <2>4 DEF T
<1>10. Digits(w) = Digits(v) + Fraction(w) /\ \E x \in Nat : Digits(v) = Unit * x
  <2> DEFINE x == Tails(w, N)[FW]
  <2>1. x \in Nat
    BY <1>1, <1>7
  <2>2. Digits(v) = 0 + Unit * x /\ Digits(w) = Fraction(w) + Unit * x
    BY <1>6, <1>7, <1>8, <1>9 DEF Fraction
  <2> HIDE DEF x
  <2>3. Unit * x \in Nat /\ Fraction(w) \in Nat
    BY <1>1, <1>8, <2>1
  <2> QED
    BY <2>1, <2>2, <2>3
<1>11. Digits(u) = Unit
  <2>1. /\ Tails(u, N)[FW] = u[FW] + B * Tails(u, N)[FW + 1]
    BY <1>1, <1>3, ArrayFacts
  <2>2. Tails(u, N)[FW + 1] = 0
    BY <1>1, <1>3, NoWords
  <2>3. Tails(u, N)[FW] = 1
    BY <1>1, <1>3, <2>1, <2>2
  <2> QED
    BY <1>1, <1>6, <1>7, <1>8, <2>3
<1>12. (\E i \in 0 .. FW - 1 : w[i] # 0) <=> Fraction(w) # 0
  <2>1. ASSUME \A i \in 0 .. FW - 1 : w[i] = 0 PROVE Fraction(w) = 0
    BY <1>1, <1>5, <2>1, <1>2, LowSame DEF Fraction
  <2>2. ASSUME Fraction(w) = 0, NEW i \in 0 .. FW - 1 PROVE w[i] = 0
    <3> DEFINE L(k) == Low(w, N, k)
               T == {k \in 0 .. FW : L(k) = 0}
    <3>1. /\ \A k \in 0 .. N - 1 : L(k + 1) = L(k) + Powers[k] * w[k]
          /\ \A k \in 0 .. N : L(k) \in 0 .. Powers[k] - 1
      BY <1>1, <1>2, LowFacts
    <3>2. /\ Powers \in [0 .. 2 * N -> Nat] /\ \A k \in 0 .. 2 * N : Powers[k] > 0
      BY PowersFacts
    <3> HIDE DEF L
    <3>3. ASSUME NEW k \in 0 .. FW - 1 PROVE L(k + 1) = 0 => L(k) = 0 /\ w[k] = 0
      <4>1. k \in 0 .. N - 1 /\ k \in 0 .. N /\ k \in 0 .. 2 * N
        BY <1>1
      <4>2. Powers[k] \in Nat /\ Powers[k] > 0 /\ w[k] \in 0 .. B - 1
        BY <1>2, <3>2, <4>1
      <4>3. L(k) \in Nat /\ w[k] \in Nat /\ L(k + 1) = L(k) + Powers[k] * w[k]
        BY <1>1, <3>1, <4>1, <4>2
      <4>4. \A x, y, z \in Nat : x + y * z = 0 /\ y > 0 => x = 0 /\ z = 0
        OBVIOUS
      <4> QED
        BY <4>2, <4>3, <4>4
    <3>4. FW \in T
      BY <1>1, <2>2 DEF L, Fraction
    <3>5. \A k \in 0 .. FW : k # FW /\ (k + 1) \in T => k \in T
      BY <1>1, <3>3
    <3> HIDE DEF T
    <3>6. \A k \in 0 .. FW : k \in T
      BY <1>1, <3>4, <3>5, DownInduction
    <3>7. i + 1 \in 0 .. FW
      BY <1>1
    <3>8. L(i + 1) = 0
      BY <3>6, <3>7 DEF T
    <3> QED
      BY <3>3, <3>8
  <2> QED
    BY <2>1, <2>2
<1> QED
  BY <1>4, <1>8, <1>10, <1>11, <1>12 DEF v, u

\* The carries of a bump.
LEMMA BumpCarries ==
  ASSUME WordsOK, EvenWords, NEW v \in FPNs, NEW bump \in BOOLEAN
  PROVE  \E c \in [FW .. N -> 0 .. 1] :
           /\ c[FW] = Bit(bump)
           /\ \A i \in FW .. N - 1 :
                /\ (v.w[i] + c[i]) % B \in 0 .. B - 1
                /\ ((v.w[i] + c[i]) % B) + B * c[i + 1] = v.w[i] + c[i]
           /\ Bumped(v, bump)
                = [i \in 0 .. N - 1 |-> IF i < FW THEN 0 ELSE (v.w[i] + c[i]) % B]
<1> DEFINE m == N - FW
           Out(i, c) == Bit((v.w[i] + c) % B < v.w[i])
           Is(f) == f = [i \in FW .. N |-> IF i = FW THEN Bit(bump)
                                           ELSE Out(i - 1, f[i - 1])]
           carry == CHOOSE f : Is(f)
           S == 0 .. 1
           step == [j \in 1 .. m |-> [c \in S |-> Out(FW + j - 1, c)]]
<1>1. /\ N \in Nat /\ N > 0 /\ FW \in Nat /\ FW > 0 /\ FW + FW = N /\ FW < N
      /\ B \in Nat /\ B > 1 /\ m \in Nat /\ m = N - FW
  BY PointFacts
<1>2. \A i \in 0 .. N - 1 : v.w[i] \in 0 .. B - 1
  BY WordsFacts DEF FPNs
<1>3. \A i, c : Out(i, c) \in S
  BY DEF Bit
<1>4. Bit(bump) \in S
  BY DEF Bit
<1>5. Bumped(v, bump) = [i \in 0 .. N - 1 |-> IF i < FW THEN 0
                                              ELSE (v.w[i] + carry[i]) % B]
  BY DEF Bumped
<1> HIDE DEF Out, m, FW, B
<1>6. step \in [1 .. m -> [S -> S]] /\ \A j \in 1 .. m, c \in S : step[j][c] = Out(FW + j - 1, c)
  BY <1>3
<1> HIDE DEF step
<1>7. PICK f : Iterates(f, m, S, Bit(bump), step)
  <2> HIDE DEF S
  <2> QED
    BY <1>1, <1>4, <1>6, Iteration
<1>8. /\ f \in [0 .. m -> S] /\ f[0] = Bit(bump)
      /\ \A j \in 1 .. m : f[j] = step[j][f[j - 1]]
  BY <1>7 DEF Iterates
<1> DEFINE g == [i \in FW .. N |-> f[i - FW]]
<1>9. ASSUME NEW i \in FW .. N
      PROVE  g[i] \in S /\ g[i] = IF i = FW THEN Bit(bump) ELSE Out(i - 1, g[i - 1])
  <2>1. i - FW \in 0 .. m /\ g[i] = f[i - FW]
    BY <1>1
  <2>2. CASE i = FW
    <3>1. i - FW = 0
      BY <1>1, <2>2
    <3> QED
      BY <1>4, <1>8, <2>1, <2>2, <3>1
  <2>3. CASE i # FW
    <3>1. /\ i - FW \in 1 .. m /\ (i - FW) - 1 = (i - 1) - FW /\ i - 1 \in FW .. N
          /\ FW + (i - FW) - 1 = i - 1 /\ (i - FW) - 1 \in 0 .. m
      BY <1>1, <2>3
    <3>2. f[i - FW] = step[i - FW][f[(i - 1) - FW]]
      BY <1>8, <3>1
    <3>3. f[(i - 1) - FW] \in S
      BY <1>8, <3>1
    <3>4. f[i - FW] = Out(FW + (i - FW) - 1, f[(i - 1) - FW])
      BY <1>6, <3>1, <3>2, <3>3
    <3> QED
      BY <1>3, <2>1, <2>3, <3>1, <3>4
  <2> QED
    BY <2>2, <2>3
<1>10. Is(g)
  BY <1>9
<1>11. Is(carry)
  <2> HIDE DEF Is, g
  <2> QED
    BY <1>10
<1> HIDE DEF carry, g
<1>12. \A i \in FW .. N : carry[i] = IF i = FW THEN Bit(bump) ELSE Out(i - 1, carry[i - 1])
  BY <1>11
<1>13. carry \in [FW .. N -> S]
  BY <1>3, <1>4, <1>12, <1>11
<1>14. ASSUME NEW i \in FW .. N - 1
       PROVE  /\ (v.w[i] + carry[i]) % B \in 0 .. B - 1
              /\ ((v.w[i] + carry[i]) % B) + B * carry[i + 1] = v.w[i] + carry[i]
  <2>1. i \in FW .. N /\ i + 1 \in FW .. N /\ i + 1 # FW /\ (i + 1) - 1 = i /\ i \in 0 .. N - 1
    BY <1>1
  <2>2. carry[i + 1] = Out(i, carry[i])
    BY <1>12, <2>1
  <2> DEFINE x == v.w[i]  c == carry[i]
  <2>3. x \in 0 .. B - 1 /\ c \in 0 .. 1
    BY <1>2, <1>13, <2>1
  <2>4. carry[i + 1] = Bit((x + c) % B < x)
    BY <2>2 DEF Out
  <2>5. /\ \A z \in 0 .. B - 1 : z % B = z
        /\ \A z \in B .. 2 * B - 1 : z % B = z - B
    BY WordWraps
  <2> HIDE DEF x, c
  <2>6. CASE x + c < B
    BY <1>1, <2>3, <2>6, <2>5, <2>4 DEF Bit, x, c
  <2>7. CASE ~(x + c < B)
    <3>1. x + c \in B .. 2 * B - 1 /\ x + c = B
      BY <1>1, <2>3, <2>7
    <3>2. (x + c) % B = 0
      BY <1>1, <2>5, <3>1
    <3>3. carry[i + 1] = 1
      BY <1>1, <2>3, <2>4, <3>1, <3>2 DEF Bit
    <3>4. (x + c) % B \in 0 .. B - 1 /\ ((x + c) % B) + B * carry[i + 1] = x + c
      BY <1>1, <2>3, <3>1, <3>2, <3>3
    <3> QED
      BY <3>4 DEF x, c
  <2> QED
    BY <2>6, <2>7
<1>15. carry[FW] = Bit(bump)
  BY <1>1, <1>12
<1> QED
  BY <1>5, <1>13, <1>14, <1>15

\* The whole part with one unit more, unless the carry out of the last word is lost.
LEMMA BumpedFacts ==
  ASSUME WordsOK, EvenWords, NEW v \in FPNs, NEW bump \in BOOLEAN
  PROVE  LET whole == Digits(v.w) - Fraction(v.w) + (IF bump THEN Unit ELSE 0)
         IN  /\ Bumped(v, bump) \in Words
             /\ Digits(Bumped(v, bump))
                  = IF whole > Limit THEN whole - (Limit + 1) ELSE whole
<1> DEFINE q == Bumped(v, bump)
           a == WholeWords(v.w)
           b == IF bump THEN UnitWords ELSE ZeroWords
           u == IF bump THEN Unit ELSE 0
           whole == Digits(v.w) - Fraction(v.w) + u
<1>1. /\ N \in Nat /\ N > 0 /\ FW \in Nat /\ FW > 0 /\ FW + FW = N /\ FW < N
      /\ B \in Nat /\ B > 1 /\ Unit \in Nat /\ Unit > 0
  BY PointFacts
<1>2. v.w \in Words /\ \A i \in 0 .. N - 1 : v.w[i] \in 0 .. B - 1
  BY WordsFacts DEF FPNs
<1>3. /\ a \in Words /\ UnitWords \in Words /\ Digits(UnitWords) = Unit
      /\ Fraction(v.w) \in 0 .. Unit - 1 /\ Digits(v.w) = Digits(a) + Fraction(v.w)
  BY <1>2, WholeFacts
<1>4. ZeroWords \in Words /\ Digits(ZeroWords) = 0
  BY ZeroFacts
<1>5. b \in Words /\ Digits(b) = u
  BY <1>3, <1>4
<1>6. PICK c \in [FW .. N -> 0 .. 1] :
           /\ c[FW] = Bit(bump)
           /\ \A i \in FW .. N - 1 :
                /\ (v.w[i] + c[i]) % B \in 0 .. B - 1
                /\ ((v.w[i] + c[i]) % B) + B * c[i + 1] = v.w[i] + c[i]
           /\ q = [i \in 0 .. N - 1 |-> IF i < FW THEN 0 ELSE (v.w[i] + c[i]) % B]
  BY BumpCarries
<1> HIDE DEF q, FW, B
<1> DEFINE e == [i \in 0 .. N |-> IF i <= FW THEN 0 ELSE c[i]]
<1>7. q \in Words /\ \A i \in 0 .. N - 1 : q[i] = IF i < FW THEN 0 ELSE (v.w[i] + c[i]) % B
  BY <1>6, <1>1 DEF Words
<1>8. e \in [0 .. N -> 0 .. 1] /\ e[0] = 0 /\ e[N] = c[N] /\ e[N] \in 0 .. 1
  BY <1>1, <1>6
<1>9. ASSUME NEW i \in 0 .. N - 1 PROVE q[i] + B * e[i + 1] = a[i] + b[i] + e[i]
  <2>1. a[i] = (IF i < FW THEN 0 ELSE v.w[i]) /\ b[i] = (IF i = FW THEN Bit(bump) ELSE 0)
    BY DEF WholeWords, UnitWords, ZeroWords, Bit
  <2>2. /\ e[i] = IF i <= FW THEN 0 ELSE c[i]
        /\ e[i + 1] = IF i + 1 <= FW THEN 0 ELSE c[i + 1]
    BY <1>1
  <2> HIDE DEF e, a, b
  <2>3. CASE i < FW
    BY <1>1, <1>7, <2>1, <2>2, <2>3
  <2>4. CASE ~(i < FW)
    <3>1. i \in FW .. N - 1 /\ i \in FW .. N /\ ~(i + 1 <= FW)
      BY <1>1, <2>4
    <3>2. q[i] + B * c[i + 1] = v.w[i] + c[i]
      BY <1>6, <1>7, <2>4, <3>1
    <3>3. v.w[i] \in Int /\ c[i] \in Int
      BY <1>2, <1>6, <3>1, <1>1
    <3>4. a[i] = v.w[i] /\ e[i + 1] = c[i + 1]
      BY <2>1, <2>2, <2>4, <3>1
    <3>5. b[i] + e[i] = c[i] /\ b[i] \in Int /\ e[i] \in Int
      <4>1. CASE i = FW
        BY <1>1, <1>6, <2>1, <2>2, <3>3, <4>1
      <4>2. CASE i # FW
        BY <1>1, <2>4, <4>2, <2>1, <2>2, <3>3
      <4> QED
        BY <4>1, <4>2
    <3> QED
      BY <3>2, <3>3, <3>4, <3>5
  <2> QED
    BY <2>3, <2>4
<1>10. Digits(q) + (IF e[N] = 1 THEN Limit + 1 ELSE 0) = Digits(a) + Digits(b)
  <2> HIDE DEF e, a, b, u, whole
  <2>1. a \in Words /\ b \in Words /\ q \in Words /\ e \in [0 .. N -> 0 .. 1] /\ e[0] = 0
    BY <1>3, <1>5, <1>7, <1>8
  <2>2. \A i \in 0 .. N - 1 : q[i] + B * e[i + 1] = a[i] + b[i] + e[i]
    BY <1>9
  <2> QED
    BY <2>1, <2>2, CarriedSum
<1> HIDE DEF e, a, b, u
<1>11. /\ Digits(q) \in 0 .. Limit /\ Limit \in Nat /\ Digits(a) \in Nat
       /\ Digits(v.w) \in 0 .. Limit /\ u \in Nat
  BY <1>1, <1>2, <1>3, <1>7, TailsRange, MagnitudeFacts, MaxWordsFacts DEF u
<1>12. whole = Digits(a) + u
  BY <1>1, <1>3, <1>11
<1> HIDE DEF whole
<1>13. Digits(q) = IF whole > Limit THEN whole - (Limit + 1) ELSE whole
  BY <1>5, <1>8, <1>10, <1>11, <1>12
<1> QED
  BY <1>7, <1>13 DEF q, whole, u

\* Whether the top fractional word is in its upper half tells whether the
\* fraction is half a unit or more.
LEMMA HalfFacts ==
  ASSUME WordsOK, EvenWords, B % 2 = 0, NEW w \in Words
  PROVE  w[FW - 1] >= B \div 2 <=> 2 * Fraction(w) >= Unit
<1> DEFINE j == FW - 1
           h == B \div 2
           g == Powers[j]
           l == Low(w, N, j)
           x == w[j]
<1>1. /\ N \in Nat /\ N > 0 /\ FW \in Nat /\ FW > 0 /\ FW < N /\ FW \in 0 .. N
      /\ B \in Nat /\ B > 1 /\ Unit \in Nat /\ N \in 0 .. 2 * N
  BY PointFacts
<1>2. h \in Nat /\ B = 2 * h
  <2> HIDE DEF B
  <2> QED
    BY <1>1
<1>3. w \in Arrays(N)
  BY DEF Arrays, Words
<1> HIDE DEF FW, B, h
<1>4. j \in 0 .. N - 1 /\ j \in 0 .. N /\ j \in 0 .. 2 * N /\ j \in 0 .. 2 * N - 1 /\ j + 1 = FW
  BY <1>1
<1> HIDE DEF j
<1>5. l \in 0 .. g - 1 /\ Fraction(w) = l + g * x /\ Unit = B * g /\ g \in Nat
  BY <1>1, <1>3, <1>4, LowFacts, PowersFacts DEF Fraction, Unit
<1>6. x \in Nat
  <2>1. x \in 0 .. B - 1
    BY <1>4, WordsFacts
  <2> QED
    BY <1>1, <2>1
<1> HIDE DEF g, l, x
<1>7. x >= h <=> 2 * (l + g * x) >= (2 * h) * g
  <2>1. (2 * h) * g = 2 * (g * h) /\ g * h \in Nat /\ g * x \in Nat
    BY <1>2, <1>5, <1>6
  <2>2. CASE x >= h
    BY <1>2, <1>5, <1>6, <2>2, <2>1
  <2>3. CASE ~(x >= h)
    <3>1. g * (x + 1) <= g * h
      BY <1>2, <1>6, <2>3, <1>5
    <3>2. g * (x + 1) = g * x + g
      BY <1>5, <1>6
    <3> QED
      BY <1>5, <2>1, <2>3, <3>1, <3>2
  <2> QED
    BY <2>2, <2>3
<1> QED
  BY <1>2, <1>5, <1>7 DEF x, j, h

\* What the three roundings make of a number, in terms of its magnitude.
LEMMA RoundingWords ==
  ASSUME WordsOK, EvenWords, B % 2 = 0, NEW v \in FPNs,
         Digits(v.w) <= Limit - Unit
  PROVE  LET f == Fraction(v.w)
             m == Digits(v.w) - f
             Whole(r, up) == /\ r \in FPNs
                             /\ Value(r) = IF v.neg THEN 0 - (m + up) ELSE m + up
         IN  /\ Whole(Floor(v), IF v.neg /\ f # 0 THEN Unit ELSE 0)
             /\ Whole(Ceil(v), IF ~v.neg /\ f # 0 THEN Unit ELSE 0)
             /\ Whole(Round(v), IF 2 * f >= Unit THEN Unit ELSE 0)
             /\ (Ceil(v).neg => Value(Ceil(v)) < 0) /\ (Round(v).neg => Value(Round(v)) < 0)
<1> DEFINE f == Fraction(v.w)
           m == Digits(v.w) - f
           Q(bump) == Bumped(v, bump)
           U(bump) == IF bump THEN Unit ELSE 0
           F == v.neg /\ HasFrac(v)
           C == ~v.neg /\ HasFrac(v)
           R == v.w[FW - 1] >= B \div 2
<1>1. v.w \in Words /\ v.neg \in BOOLEAN
  BY DEF FPNs
<1>2. /\ Unit \in Nat /\ Unit > 0 /\ f \in 0 .. Unit - 1 /\ Limit \in Nat
      /\ Digits(v.w) \in 0 .. Limit
      /\ HasFrac(v) <=> f # 0
  BY <1>1, PointFacts, WholeFacts, TailsRange, MaxWordsFacts DEF HasFrac
<1>3. R <=> 2 * f >= Unit
  BY <1>1, HalfFacts
<1>4. m \in Nat
  <2>1. PICK x \in Nat : Digits(WholeWords(v.w)) = Unit * x
    BY <1>1, WholeFacts
  <2>2. Digits(v.w) = Unit * x + f
    BY <1>1, <2>1, WholeFacts
  <2>3. Unit * x \in Nat
    BY <1>2, <2>1
  <2> HIDE DEF f
  <2> QED
    BY <1>2, <2>2, <2>3
<1>5. ASSUME NEW bump \in BOOLEAN
      PROVE  /\ Q(bump) \in Words /\ Digits(Q(bump)) = m + U(bump)
             /\ Digits(Q(bump)) \in Nat /\ U(bump) \in Nat
  <2> DEFINE whole == Digits(v.w) - Fraction(v.w) + (IF bump THEN Unit ELSE 0)
  <2>1. /\ Q(bump) \in Words
        /\ Digits(Q(bump)) = IF whole > Limit THEN whole - (Limit + 1) ELSE whole
    BY BumpedFacts
  <2>2. whole = m + U(bump) /\ U(bump) \in Nat /\ U(bump) <= Unit
    BY <1>2
  <2> HIDE DEF whole, Q, U
  <2>3. m + U(bump) <= Limit
    <3>1. m <= Digits(v.w)
      BY <1>2
    <3> HIDE DEF m
    <3> QED
      BY <1>2, <1>4, <2>2, <3>1
  <2> HIDE DEF m
  <2> QED
    BY <1>2, <1>4, <2>1, <2>2, <2>3
<1> DEFINE Made(neg, w) == [w |-> w, neg |-> neg]
<1>6. ASSUME NEW bump \in BOOLEAN
      PROVE  /\ Made(v.neg, Q(bump)) \in FPNs
             /\ Value(Made(v.neg, Q(bump)))
                  = IF v.neg THEN 0 - (m + U(bump)) ELSE m + U(bump)
  <2>1. Q(bump) \in Words /\ Digits(Q(bump)) = m + U(bump)
    BY <1>5
  <2> HIDE DEF Q, m, U
  <2> QED
    BY <1>1, <2>1 DEF FPNs, Value
<1>7. ASSUME NEW bump \in BOOLEAN
      PROVE  LET r == Made(v.neg /\ ~MagIsZero(Q(bump)), Q(bump))
             IN  /\ r \in FPNs
                 /\ Value(r) = IF v.neg THEN 0 - (m + U(bump)) ELSE m + U(bump)
                 /\ r.neg => Value(r) < 0
  <2> DEFINE r == Made(v.neg /\ ~MagIsZero(Q(bump)), Q(bump))
  <2>1. Q(bump) \in Words /\ Digits(Q(bump)) = m + U(bump) /\ Digits(Q(bump)) \in Nat
    BY <1>5
  <2>2. MagIsZero(Q(bump)) <=> Digits(Q(bump)) = 0
    BY <2>1, MagIsZeroFacts
  <2> HIDE DEF Q, m, U
  <2>3. r \in FPNs /\ r.w = Q(bump) /\ (r.neg <=> v.neg /\ Digits(Q(bump)) # 0)
    <3> DEFINE n == v.neg /\ ~MagIsZero(Q(bump))
    <3>1. n \in BOOLEAN /\ r = [w |-> Q(bump), neg |-> n]
      OBVIOUS
    <3>2. n <=> v.neg /\ Digits(Q(bump)) # 0
      BY <2>2
    <3> HIDE DEF n, r
    <3> QED
      BY <2>1, <3>1, <3>2 DEF FPNs
  <2> HIDE DEF r
  <2>4. Value(r) = IF r.neg THEN 0 - Digits(Q(bump)) ELSE Digits(Q(bump))
    BY <2>3 DEF Value
  <2>5. CASE Digits(Q(bump)) = 0
    BY <2>3, <2>4, <2>5, <2>1 DEF r
  <2>6. CASE Digits(Q(bump)) # 0
    BY <2>3, <2>6, <2>1, <2>4 DEF r
  <2> QED
    BY <2>5, <2>6
<1>8. F \in BOOLEAN /\ C \in BOOLEAN /\ R \in BOOLEAN
  BY DEF HasFrac
<1>9. /\ Floor(v) = Made(v.neg, Q(F))
      /\ Ceil(v) = Made(v.neg /\ ~MagIsZero(Q(C)), Q(C))
      /\ Round(v) = Made(v.neg /\ ~MagIsZero(Q(R)), Q(R))
  BY DEF Floor, Ceil, Round
<1>10. /\ U(F) = IF v.neg /\ f # 0 THEN Unit ELSE 0
       /\ U(C) = IF ~v.neg /\ f # 0 THEN Unit ELSE 0
       /\ U(R) = IF 2 * f >= Unit THEN Unit ELSE 0
  <2> HIDE DEF f, R
  <2> QED
    BY <1>2, <1>3
<1> DEFINE Says(r, up) == /\ r \in FPNs
                          /\ Value(r) = IF v.neg THEN 0 - (m + up) ELSE m + up
<1> HIDE DEF F, C, R, Q, Made, U
<1>11. /\ Says(Floor(v), U(F)) /\ Says(Ceil(v), U(C)) /\ Says(Round(v), U(R))
       /\ (Ceil(v).neg => Value(Ceil(v)) < 0) /\ (Round(v).neg => Value(Round(v)) < 0)
  BY <1>6, <1>8, <1>9, <1>7
<1> QED
  BY <1>10, <1>11

\* FPN_Floor, FPN_Ceil and FPN_Round (777-863): whole numbers, the nearest below,
\* above and to the value, halves away from zero, as long as a unit more fits.
THEOREM WholeNumbersBracket ==
  ASSUME FormatOK, NEW v \in FPNs,
         Size(Value(v)) <= Limit - Unit
  PROVE  /\ \A r \in {Floor(v), Ceil(v), Round(v)} :
              r \in FPNs /\ \E x \in Int : Value(r) = Unit * x
         /\ Value(Floor(v)) <= Value(v) /\ Value(v) < Value(Floor(v)) + Unit
         /\ Value(Ceil(v)) >= Value(v) /\ Value(v) > Value(Ceil(v)) - Unit
         /\ 2 * Size(Value(v) - Value(Round(v))) <= Unit
         /\ 2 * Size(Value(v) - Value(Round(v))) = Unit
              => Size(Value(Round(v))) > Size(Value(v))
<1>0. WordsOK /\ EvenWords /\ B % 2 = 0
  BY FormatFacts
<1> USE <1>0
<1> DEFINE f == Fraction(v.w)
           m == Digits(v.w) - f
           V(up) == IF v.neg THEN 0 - (m + up) ELSE m + up
           uf == IF v.neg /\ f # 0 THEN Unit ELSE 0
           uc == IF ~v.neg /\ f # 0 THEN Unit ELSE 0
           ur == IF 2 * f >= Unit THEN Unit ELSE 0
<1>1. /\ v.w \in Words /\ v.neg \in BOOLEAN /\ Digits(v.w) \in Nat
      /\ Size(Value(v)) = Digits(v.w)
      /\ v.neg => Value(v) = 0 - Digits(v.w)
      /\ ~v.neg => Value(v) = Digits(v.w)
  BY ValueFacts
<1>2. Digits(v.w) <= Limit - Unit
  BY <1>1
<1>3. /\ Floor(v) \in FPNs /\ Ceil(v) \in FPNs /\ Round(v) \in FPNs
      /\ Value(Floor(v)) = V(uf) /\ Value(Ceil(v)) = V(uc) /\ Value(Round(v)) = V(ur)
  BY <1>2, RoundingWords
<1>4. Unit \in Nat /\ Unit > 0 /\ f \in 0 .. Unit - 1
  BY <1>1, PointFacts, WholeFacts
<1>5. PICK x \in Nat : m = Unit * x
  <2>1. PICK x \in Nat : Digits(WholeWords(v.w)) = Unit * x
    BY <1>1, WholeFacts
  <2>2. Digits(v.w) = Unit * x + f
    BY <1>1, <2>1, WholeFacts
  <2>3. Unit * x \in Nat
    BY <1>4, <2>1
  <2> HIDE DEF f
  <2>4. m = Unit * x
    BY <1>4, <2>2, <2>3
  <2> QED
    BY <2>4
<1>6. m \in Nat /\ Digits(v.w) = m + f
  <2>1. m \in Nat
    BY <1>4, <1>5
  <2> HIDE DEF f
  <2> QED
    BY <1>1, <1>4, <2>1
<1>7. ASSUME NEW up \in {0, Unit} PROVE \E y \in Int : V(up) = Unit * y
  <2>1. Unit * x + Unit = Unit * (x + 1) /\ 0 - Unit * x = Unit * (0 - x)
        /\ 0 - Unit * (x + 1) = Unit * (0 - (x + 1))
    BY <1>4
  <2> HIDE DEF f, m
  <2>2. CASE up = 0
    <3>1. V(up) = Unit * x \/ V(up) = Unit * (0 - x)
      BY <1>5, <1>6, <2>1, <2>2
    <3> HIDE DEF V
    <3>2. x \in Int /\ 0 - x \in Int
      OBVIOUS
    <3> QED
      BY <3>1, <3>2
  <2>3. CASE up = Unit
    <3>1. V(up) = Unit * (x + 1) \/ V(up) = Unit * (0 - (x + 1))
      BY <1>5, <1>6, <2>1, <2>3
    <3> HIDE DEF V
    <3>2. x + 1 \in Int /\ 0 - (x + 1) \in Int
      OBVIOUS
    <3> QED
      BY <3>1, <3>2
  <2> QED
    BY <2>2, <2>3
<1> HIDE DEF m, f
<1>8. uf \in {0, Unit} /\ uc \in {0, Unit} /\ ur \in {0, Unit}
  OBVIOUS
<1>9. \A r \in {Floor(v), Ceil(v), Round(v)} :
        r \in FPNs /\ \E y \in Int : Value(r) = Unit * y
  <2> HIDE DEF V, uf, uc, ur
  <2> QED
    BY <1>3, <1>7, <1>8
<1>10. V(uf) <= Value(v) /\ Value(v) < V(uf) + Unit
  BY <1>1, <1>4, <1>6
<1>11. V(uc) >= Value(v) /\ Value(v) > V(uc) - Unit
  BY <1>1, <1>4, <1>6
<1>12. /\ 2 * Size(Value(v) - V(ur)) <= Unit
       /\ 2 * Size(Value(v) - V(ur)) = Unit => Size(V(ur)) > Size(Value(v))
  BY <1>1, <1>4, <1>6 DEF Size
<1> QED
  BY <1>3, <1>9, <1>10, <1>11, <1>12

-----------------------------------------------------------------------------
(* Guards.                                                                 *)

\* FPN_Min, FPN_Max, FPN_Abs and FPN_Sign (403-432, 714-728), which guard the
\* prices and sizes: one of the two operands, the lesser or the greater; the
\* size; and a unit with the sign.
THEOREM GuardsPick ==
  ASSUME FormatOK, NEW a \in FPNs, NEW b \in FPNs
  PROVE  /\ MinFP(a, b) \in {a, b} /\ MaxFP(a, b) \in {a, b}
         /\ Value(MinFP(a, b)) = IF Value(a) < Value(b) THEN Value(a) ELSE Value(b)
         /\ Value(MaxFP(a, b)) = IF Value(a) > Value(b) THEN Value(a) ELSE Value(b)
         /\ Abs(a) \in FPNs /\ Value(Abs(a)) = Size(Value(a))
         /\ Sign(a) \in FPNs
         /\ Value(Sign(a)) = IF Value(a) < 0 THEN 0 - Unit
                             ELSE IF Value(a) = 0 THEN 0 ELSE Unit
<1>0. WordsOK /\ EvenWords /\ B % 2 = 0
  BY FormatFacts
<1> USE <1>0
<1>1. /\ LessThan(a, b) <=> Value(a) < Value(b)
      /\ LessThan(b, a) <=> Value(b) < Value(a)
      /\ Value(a) \in Int /\ Value(b) \in Int
  BY WordComparisonsOrderValues, ValueFacts
<1>2. /\ a.w \in Words /\ a.neg \in BOOLEAN /\ Digits(a.w) \in Nat
      /\ Size(Value(a)) = Digits(a.w)
      /\ a.neg => Value(a) = 0 - Digits(a.w)
      /\ ~a.neg => Value(a) = Digits(a.w)
      /\ MagIsZero(a.w) <=> Digits(a.w) = 0
  BY ValueFacts
<1>3. MinFP(a, b) \in {a, b} /\ MaxFP(a, b) \in {a, b}
  BY DEF MinFP, MaxFP
<1>4. Value(MinFP(a, b)) = IF Value(a) < Value(b) THEN Value(a) ELSE Value(b)
  BY <1>1 DEF MinFP
<1>5. Value(MaxFP(a, b)) = IF Value(a) > Value(b) THEN Value(a) ELSE Value(b)
  <2> DEFINE Takes == \/ a.neg # b.neg /\ ~a.neg
                      \/ a.neg = b.neg /\ MagGt(a.w, b.w) # a.neg /\ ~MagEq(a.w, b.w)
  <2>1. MaxFP(a, b) = IF Takes THEN a ELSE b
    BY DEF MaxFP
  <2>2. b.neg \in BOOLEAN /\ Digits(b.w) \in Nat
        /\ (b.neg => Value(b) = 0 - Digits(b.w)) /\ (~b.neg => Value(b) = Digits(b.w))
    BY ValueFacts
  <2>3. a.w \in Words /\ b.w \in Words
    BY DEF FPNs
  <2>4. MagEq(a.w, b.w) <=> MagEq(b.w, a.w)
    BY DEF MagEq
  <2>5. CASE a.neg # b.neg
    <3>1. Takes <=> ~a.neg
      BY <1>2, <2>2, <2>5
    <3>2. CASE a.neg
      <4>3. ~b.neg
        BY <2>2, <2>5, <3>2
      <4>1. Value(a) <= Value(b)
        BY <1>2, <2>2, <3>2, <4>3
      <4>2. MaxFP(a, b) = b
        BY <2>1, <3>1, <3>2
      <4> QED
        BY <1>1, <4>1, <4>2
    <3>3. CASE ~a.neg
      BY <1>2, <2>2, <2>5, <3>3, <2>1, <3>1, <1>1
    <3> QED
      BY <3>2, <3>3
  <2>6. CASE a.neg = b.neg
    <3>1. LessThan(b, a) <=> Takes
      BY <2>4, <2>6 DEF LessThan
    <3> HIDE DEF Takes
    <3> QED
      BY <1>1, <2>1, <3>1
  <2> QED
    BY <2>5, <2>6
<1>6. Abs(a) \in FPNs /\ Value(Abs(a)) = Size(Value(a))
  <2> DEFINE r == Abs(a)
  <2>1. r.w = a.w /\ ~r.neg /\ r \in FPNs
    BY <1>2 DEF Abs, FPNs
  <2> HIDE DEF r
  <2>2. Value(r) = Digits(a.w)
    BY <2>1 DEF Value
  <2> QED
    BY <1>2, <2>1, <2>2 DEF r
<1>7. /\ Sign(a) \in FPNs
      /\ Value(Sign(a)) = IF Value(a) < 0 THEN 0 - Unit
                          ELSE IF Value(a) = 0 THEN 0 ELSE Unit
  <2>1. One = [w |-> UnitWords, neg |-> FALSE]
    BY PointFacts DEF ZeroWords, UnitWords, One
  <2>2. UnitWords \in Words /\ Digits(UnitWords) = Unit /\ Unit \in Nat /\ Unit > 0
    BY <1>2, WholeFacts, PointFacts
  <2>3. Zero \in FPNs /\ Value(Zero) = 0
    BY ZeroFacts
  <2>4. Sign(a) = IF MagIsZero(a.w) THEN Zero ELSE [w |-> UnitWords, neg |-> a.neg]
    BY <2>1 DEF Sign
  <2>5. /\ [w |-> UnitWords, neg |-> a.neg] \in FPNs
        /\ Value([w |-> UnitWords, neg |-> a.neg]) = IF a.neg THEN 0 - Unit ELSE Unit
    BY <1>2, <2>2 DEF FPNs, Value
  <2>6. CASE MagIsZero(a.w)
    <3>1. Value(a) = 0
      BY <1>2, <2>6
    <3> QED
      BY <2>3, <2>4, <2>6, <3>1
  <2>7. CASE ~MagIsZero(a.w)
    BY <1>2, <2>7, <2>4, <2>5
  <2> QED
    BY <2>6, <2>7
<1> QED
  BY <1>3, <1>4, <1>5, <1>6, <1>7

-----------------------------------------------------------------------------
(* Quotients: bits and words.                                              *)

\* Exponents add.
LEMMA ExponentsAdd ==
  ASSUME NEW m \in Nat, NEW e \in Nat
  PROVE  2 ^ (m + e) = 2 ^ m * 2 ^ e
<1> DEFINE P(i) == 2 ^ i
           T == {i \in 0 .. e : P(m + i) = P(m) * P(i)}
<1>1. \A i \in Nat : P(i) \in Nat /\ P(i + 1) = 2 * P(i)
  BY PowersOfTwo
<1>2. P(0) = 1
  OBVIOUS
<1> HIDE DEF P
<1>3. 0 \in T
  <2>1. P(m + 0) = P(m) * 1
    BY <1>1
  <2> QED
    BY <1>2, <2>1
<1>4. \A i \in 0 .. e : i # e /\ i \in T => (i + 1) \in T
  <2> SUFFICES ASSUME NEW i \in 0 .. e, i # e, P(m + i) = P(m) * P(i)
               PROVE  i + 1 \in 0 .. e /\ P(m + (i + 1)) = P(m) * P(i + 1)
    OBVIOUS
  <2>1. P(m + (i + 1)) = 2 * P(m + i) /\ P(i + 1) = 2 * P(i)
    BY <1>1
  <2>2. P(m) \in Nat /\ P(i) \in Nat
    BY <1>1
  <2>3. 2 * (P(m) * P(i)) = P(m) * (2 * P(i))
    BY <2>2
  <2> QED
    BY <2>1, <2>3
<1> HIDE DEF T
<1>5. \A i \in 0 .. e : i \in T
  BY <1>3, <1>4, IntervalInduction
<1>6. e \in T
  BY <1>5
<1> QED
  BY <1>6 DEF T, P

\* The weight of a word and the weight of a bit.
LEMMA WordWeights ==
  ASSUME FormatOK, NEW i \in 0 .. N
  PROVE  2 ^ (i * Bits) = Powers[i]
<1> DEFINE P(j) == 2 ^ j
           T == {j \in 0 .. N : P(j * Bits) = Powers[j]}
<1>1. WordsOK /\ Bits \in Nat /\ N \in Nat
  BY FormatFacts DEF WordsOK
<1>2. /\ Powers[0] = 1
      /\ \A j \in 0 .. 2 * N - 1 : Powers[j + 1] = B * Powers[j]
      /\ Powers \in [0 .. 2 * N -> Nat]
  BY <1>1, PowersFacts
<1>3. P(0) = 1 /\ B = P(Bits) /\ B \in Nat
  BY <1>1 DEF B, WordsOK
<1>4. \A m, e \in Nat : P(m + e) = P(m) * P(e)
  BY ExponentsAdd
<1> HIDE DEF P, B
<1>5. 0 \in T
  <2>1. 0 * Bits = 0
    BY <1>1
  <2> QED
    BY <1>1, <1>2, <1>3, <2>1
<1>6. \A j \in 0 .. N : j # N /\ j \in T => (j + 1) \in T
  BY <1>1, <1>3, <1>4, <1>2
<1> HIDE DEF T
<1>7. \A j \in 0 .. N : j \in T
  BY <1>1, <1>5, <1>6, IntervalInduction
<1> QED
  BY <1>7 DEF T, P

\* What carries do to the values of arrays of any length.
LEMMA ArrayCarries ==
  ASSUME WordsOK, NEW n \in 0 .. 2 * N, NEW s \in Arrays(n), NEW a \in Arrays(n),
         NEW b \in Arrays(n), NEW c \in [0 .. n -> Nat], c[0] = 0,
         \A i \in 0 .. n - 1 : s[i] + B * c[i + 1] = a[i] + b[i] + c[i]
  PROVE  Tails(s, n)[0] + Powers[n] * c[n] = Tails(a, n)[0] + Tails(b, n)[0]
<1> DEFINE ta == Tails(a, n)
           tb == Tails(b, n)
           ts == Tails(s, n)
           W(i) == Powers[n - i]
           over(i) == W(i) * c[n]
           T == {i \in 0 .. n : ts[i] + over(i) = ta[i] + tb[i] + c[i]}
<1>1. N \in Nat /\ B \in Nat /\ B > 1 /\ n \in Nat /\ n <= 2 * N
  BY DEF WordsOK
<1>2. /\ ta \in [0 .. n -> Nat] /\ ta[n] = 0
      /\ \A i \in 0 .. n - 1 : a[i] \in 0 .. B - 1 /\ ta[i] = a[i] + B * ta[i + 1]
  BY ArrayFacts
<1>3. /\ tb \in [0 .. n -> Nat] /\ tb[n] = 0
      /\ \A i \in 0 .. n - 1 : b[i] \in 0 .. B - 1 /\ tb[i] = b[i] + B * tb[i + 1]
  BY ArrayFacts
<1>4. /\ ts \in [0 .. n -> Nat] /\ ts[n] = 0
      /\ \A i \in 0 .. n - 1 : s[i] \in 0 .. B - 1 /\ ts[i] = s[i] + B * ts[i + 1]
  BY ArrayFacts
<1>5. /\ Powers \in [0 .. 2 * N -> Nat] /\ Powers[0] = 1
      /\ \A i \in 0 .. 2 * N - 1 : Powers[i + 1] = B * Powers[i]
  BY PowersFacts
<1> HIDE DEF ta, tb, ts, B
<1>6. \A i \in 0 .. n : W(i) \in Nat /\ over(i) \in Nat
  <2> SUFFICES ASSUME NEW i \in 0 .. n PROVE W(i) \in Nat /\ over(i) \in Nat
    OBVIOUS
  <2>1. n - i \in 0 .. 2 * N /\ n \in 0 .. n
    BY <1>1
  <2>2. W(i) \in Nat /\ c[n] \in Nat
    BY <1>5, <2>1
  <2> HIDE DEF W
  <2> QED
    BY <2>2
<1>7. \A i \in 0 .. n - 1 : over(i) = B * over(i + 1)
  <2> SUFFICES ASSUME NEW i \in 0 .. n - 1 PROVE over(i) = B * over(i + 1)
    OBVIOUS
  <2>1. /\ n - (i + 1) \in 0 .. 2 * N - 1 /\ (n - (i + 1)) + 1 = n - i /\ n \in 0 .. n
        /\ i + 1 \in 0 .. n
    BY <1>1
  <2>2. W(i) = B * W(i + 1)
    BY <1>5, <2>1
  <2> DEFINE x == W(i + 1)  y == c[n]
  <2>3. x \in Nat /\ y \in Nat
    BY <1>6, <2>1
  <2> HIDE DEF x, y
  <2>4. (B * x) * y = B * (x * y)
    BY <1>1, <2>3
  <2> HIDE DEF W
  <2> QED
    BY <2>2, <2>4 DEF x, y
<1>8. n \in T
  <2>1. W(n) = 1 /\ c[n] \in Nat
    BY <1>1, <1>5
  <2>2. over(n) = c[n]
    BY <2>1
  <2> HIDE DEF over
  <2> QED
    BY <1>1, <1>2, <1>3, <1>4, <2>1, <2>2
<1> HIDE DEF over
<1>9. \A i \in 0 .. n : i # n /\ (i + 1) \in T => i \in T
  <2> SUFFICES ASSUME NEW i \in 0 .. n, i # n,
                      ts[i + 1] + over(i + 1) = ta[i + 1] + tb[i + 1] + c[i + 1]
               PROVE  ts[i] + over(i) = ta[i] + tb[i] + c[i]
    OBVIOUS
  <2>1. i \in 0 .. n - 1 /\ i + 1 \in 0 .. n
    BY <1>1
  <2>2. /\ s[i] \in Nat /\ a[i] \in Nat /\ b[i] \in Nat
    <3>1. s[i] \in 0 .. B - 1 /\ a[i] \in 0 .. B - 1 /\ b[i] \in 0 .. B - 1
      BY <1>2, <1>3, <1>4, <2>1
    <3> QED
      BY <1>1, <3>1
  <2>3. /\ ts[i + 1] \in Nat /\ ta[i + 1] \in Nat /\ tb[i + 1] \in Nat
        /\ c[i] \in Nat /\ c[i + 1] \in Nat /\ over(i + 1) \in Nat
    BY <1>2, <1>3, <1>4, <1>6, <2>1
  <2>4. CarryKept(B, ts[i + 1], ta[i + 1], tb[i + 1], over(i + 1), c[i + 1],
                  s[i], a[i], b[i], c[i])
    BY <1>1, <2>2, <2>3, CarryStep
  <2>5. s[i] + B * c[i + 1] = a[i] + b[i] + c[i]
    BY <2>1
  <2>6. (s[i] + B * ts[i + 1]) + B * over(i + 1)
           = (a[i] + B * ta[i + 1]) + (b[i] + B * tb[i + 1]) + c[i]
    BY <2>4, <2>5 DEF CarryKept
  <2> QED
    BY <1>2, <1>3, <1>4, <1>7, <2>1, <2>6
<1> HIDE DEF T
<1>10. \A i \in 0 .. n : i \in T
  BY <1>1, <1>8, <1>9, DownInduction
<1>11. 0 \in T
  BY <1>1, <1>10
<1>12. ts[0] + over(0) = ta[0] + tb[0] + c[0]
  BY <1>11 DEF T
<1>13. n - 0 = n /\ ta[0] \in Nat /\ tb[0] \in Nat
  BY <1>1, <1>2, <1>3
<1>14. ts[0] + over(0) = ta[0] + tb[0]
  BY <1>12, <1>13
<1> QED
  BY <1>13, <1>14 DEF over, ta, tb, ts

\* One word doubled: what stays and what moves up.
LEMMA DoubledWord ==
  ASSUME FormatOK, NEW x \in 0 .. B - 1
  PROVE  /\ (2 * x) % B \in 0 .. B - 2 /\ x \div (B \div 2) \in 0 .. 1
         /\ ((2 * x) % B) + B * (x \div (B \div 2)) = x + x
<1> DEFINE h == B \div 2
<1>1. h \in Nat /\ B = 2 * h /\ B \in Nat /\ B > 1
  BY FormatFacts DEF WordsOK
<1>2. WordsOK
  BY FormatFacts
<1>3. /\ \A v \in 0 .. B - 1 : v % B = v
      /\ \A v \in B .. 2 * B - 1 : v % B = v - B
  BY <1>2, WordWraps
<1> HIDE DEF h, B
<1>4. CASE x < h
  BY <1>1, <1>4, <1>3 DEF h
<1>5. CASE ~(x < h)
  <2>1. x \div h = 1 /\ 2 * x \in B .. 2 * B - 1 /\ 2 * x - B \in 0 .. B - 2
    BY <1>1, <1>5
  <2>2. (2 * x) % B = 2 * x - B
    BY <1>3, <2>1
  <2>3. B * 1 = B /\ (2 * x - B) + B = x + x
    BY <1>1
  <2> QED
    BY <2>1, <2>2, <2>3 DEF h
<1> QED
  BY <1>4, <1>5

\* The remainder moves up by one bit; nothing is lost while its top bit is free.
LEMMA ShiftFacts ==
  ASSUME FormatOK, NEW v \in Arrays(2 * N)
  PROVE  /\ ShiftLeft1(v) \in Arrays(2 * N)
         /\ 2 * Tails(v, 2 * N)[0] < Powers[2 * N]
              => Tails(ShiftLeft1(v), 2 * N)[0] = 2 * Tails(v, 2 * N)[0]
<1> DEFINE n == 2 * N
           h == B \div 2
           s == ShiftLeft1(v)
           c == [i \in 0 .. n |-> IF i = 0 THEN 0 ELSE v[i - 1] \div h]
<1>1. /\ WordsOK /\ N \in Nat /\ n \in Nat /\ n = 2 * N /\ n \in 0 .. 2 * N /\ N > 0
      /\ B \in Nat /\ B > 1
  BY FormatFacts DEF WordsOK
<1>2. /\ Tails(v, n) \in [0 .. n -> Nat] /\ \A i \in 0 .. n - 1 : v[i] \in 0 .. B - 1
  BY <1>1, ArrayFacts
<1>3. \A x \in 0 .. B - 1 :
        /\ (2 * x) % B \in 0 .. B - 2 /\ x \div h \in 0 .. 1
        /\ ((2 * x) % B) + B * (x \div h) = x + x
  BY DoubledWord
<1>4. \A i \in 0 .. 2 * N - 1 :
        s[i] = ((2 * v[i]) % B) + (IF i = 0 THEN 0 ELSE v[i - 1] \div h)
  BY DEF ShiftLeft1
<1>5. s = [i \in 0 .. 2 * N - 1 |-> s[i]]
  BY DEF ShiftLeft1
<1> HIDE DEF s, h, n, B
<1>6. c \in [0 .. n -> 0 .. 1] /\ c[0] = 0 /\ \A i \in 0 .. n - 1 : c[i + 1] = v[i] \div h
  <2>1. ASSUME NEW i \in 0 .. n, i # 0 PROVE v[i - 1] \div h \in 0 .. 1
    <3>1. i - 1 \in 0 .. n - 1
      BY <1>1, <2>1
    <3> QED
      BY <1>2, <1>3, <3>1
  <2>2. \A i \in 0 .. n - 1 : i + 1 \in 0 .. n /\ i + 1 # 0 /\ (i + 1) - 1 = i
    BY <1>1
  <2> QED
    BY <1>1, <2>1, <2>2
<1>7. \A i \in 0 .. n - 1 : s[i] = ((2 * v[i]) % B) + c[i]
  BY <1>1, <1>4
<1> HIDE DEF c
<1>8. ASSUME NEW i \in 0 .. n - 1
      PROVE  s[i] \in 0 .. B - 1 /\ s[i] + B * c[i + 1] = v[i] + v[i] + c[i]
  <2> DEFINE r == (2 * v[i]) % B  m == v[i] \div h
  <2>1. v[i] \in 0 .. B - 1 /\ c[i] \in 0 .. 1 /\ c[i + 1] = m
    BY <1>1, <1>2, <1>6
  <2>2. r \in 0 .. B - 2 /\ m \in 0 .. 1 /\ r + B * m = v[i] + v[i] /\ s[i] = r + c[i]
    BY <1>3, <1>7, <2>1
  <2> HIDE DEF r, m
  <2>3. B * m \in Int /\ r \in Int /\ c[i] \in Int /\ v[i] \in Int
    BY <1>1, <2>1, <2>2
  <2>4. r + c[i] \in 0 .. B - 1
    BY <1>1, <2>1, <2>2
  <2>5. (r + c[i]) + B * m = v[i] + v[i] + c[i]
    <3> DEFINE x == v[i]  y == c[i]  z == B * m
    <3>1. x \in Int /\ y \in Int /\ z \in Int /\ r \in Int /\ r + z = x + x
      BY <2>2, <2>3
    <3> HIDE DEF x, y, z
    <3>2. (r + y) + z = x + x + y
      BY <3>1
    <3> QED
      BY <3>2 DEF x, y, z
  <2> QED
    BY <2>1, <2>2, <2>4, <2>5
<1>9. s \in Arrays(n) /\ v \in Arrays(n)
  BY <1>1, <1>5, <1>8 DEF Arrays
<1>10. c \in [0 .. n -> Nat]
  BY <1>6
<1>11. Tails(s, n)[0] + Powers[n] * c[n] = Tails(v, n)[0] + Tails(v, n)[0]
  <2>1. \A i \in 0 .. n - 1 : s[i] + B * c[i + 1] = v[i] + v[i] + c[i]
    BY <1>8
  <2> QED
    BY <1>1, <1>6, <1>9, <1>10, <2>1, ArrayCarries
<1>12. /\ Tails(s, n)[0] \in Nat /\ Tails(v, n)[0] \in Nat /\ Powers[n] \in Nat
       /\ c[n] \in 0 .. 1
  <2>1. Tails(s, n) \in [0 .. n -> Nat]
    BY <1>1, <1>9, ArrayFacts
  <2>2. 0 \in 0 .. n /\ n \in 0 .. n /\ n \in 0 .. 2 * N
    BY <1>1
  <2> QED
    BY <1>1, <1>2, <1>6, <2>1, <2>2, PowersFacts
<1>13. 2 * Tails(v, n)[0] < Powers[n] => c[n] = 0
  BY <1>12, <1>11
<1>14. 2 * Tails(v, n)[0] < Powers[n] => Tails(s, n)[0] = 2 * Tails(v, n)[0]
  BY <1>12, <1>11, <1>13
<1> QED
  BY <1>1, <1>9, <1>14 DEF s

\* One round takes the divisor from the upper half of the remainder if it is there.
LEMMA CondSubFacts ==
  ASSUME FormatOK, NEW v \in Arrays(2 * N), NEW d \in Words
  PROVE  LET V == Tails(v, 2 * N)[0]
             D == Digits(d) * Powers[N]
             r == CondSub(v, d)
         IN  /\ r.rem \in Arrays(2 * N) /\ r.bit = Bit(V >= D)
             /\ Tails(r.rem, 2 * N)[0] = IF V >= D THEN V - D ELSE V
<1> DEFINE n == 2 * N
           top == [i \in 0 .. N - 1 |-> v[N + i]]
           ge  == MagGe(top, d)
           res == IF ge THEN MagSubN(top, d) ELSE top
           q == [i \in 0 .. 2 * N - 1 |-> IF i < N THEN v[i] ELSE res[i - N]]
           V == Tails(v, n)[0]
           W == Powers[N]
           D == Digits(d) * W
           l == Low(v, n, N)
<1>1. /\ WordsOK /\ N \in Nat /\ N > 0 /\ n \in Nat /\ n = 2 * N /\ n \in 0 .. 2 * N
      /\ B \in Nat /\ B > 1 /\ N \in 0 .. N /\ N \in 0 .. n /\ N + N = n /\ N \in 0 .. 2 * N
  BY FormatFacts DEF WordsOK
<1>2. CondSub(v, d) = [rem |-> q, bit |-> Bit(ge)]
  BY DEF CondSub
<1>3. /\ Tails(v, n) \in [0 .. n -> Nat] /\ Tails(v, n)[n] = 0
      /\ \A i \in 0 .. n - 1 : v[i] \in 0 .. B - 1
  BY <1>1, ArrayFacts
<1>4. W \in Nat /\ W > 0
  BY <1>1, PowersFacts
<1> HIDE DEF n, W
<1>5. top \in Words /\ Tails(v, n)[N] = Digits(top)
  <2>1. top \in Words /\ Tails(v, 2 * N)[N] = Digits(top) + Powers[N] * Tails(v, 2 * N)[N + N]
    BY <1>1, MiddleWords
  <2>2. Digits(top) \in Nat
    BY <1>1, <2>1, MagnitudeFacts
  <2> HIDE DEF top
  <2>3. Powers[N] * 0 = 0 /\ Powers[N] \in Nat
    BY <1>4 DEF W
  <2>4. Digits(top) + Powers[N] * Tails(v, n)[n] = Digits(top)
    BY <1>3, <2>2, <2>3
  <2> QED
    BY <1>1, <2>1, <2>4
<1> HIDE DEF top
<1>6. V = l + W * Digits(top) /\ l \in 0 .. W - 1
  BY <1>1, <1>5, LowFacts DEF W
<1>7. ge <=> Digits(top) >= Digits(d)
  BY <1>1, <1>5, MagGeFacts
<1>8. /\ res \in Words
      /\ Digits(res) = IF ge THEN Digits(top) - Digits(d) ELSE Digits(top)
  BY <1>1, <1>5, <1>7, MagSubNFacts
<1>9. Digits(top) \in Nat /\ Digits(d) \in Nat
  BY <1>1, <1>5, MagnitudeFacts
<1> HIDE DEF ge, res
<1>10. q \in Arrays(2 * N) /\ (\A i \in 0 .. N - 1 : q[i] = v[i])
       /\ \A i \in 0 .. N - 1 : q[N + i] = res[i]
  <2>1. \A i \in 0 .. N - 1 : res[i] \in 0 .. B - 1
    BY <1>1, <1>8, WordsFacts
  <2> HIDE DEF B
  <2>2. \A i \in 0 .. n - 1 : q[i] = IF i < N THEN v[i] ELSE res[i - N]
    BY <1>1
  <2>3. ASSUME NEW i \in 0 .. n - 1 PROVE q[i] \in 0 .. B - 1
    <3>1. CASE i < N
      BY <1>3, <2>2, <3>1
    <3>2. CASE ~(i < N)
      BY <1>1, <3>2, <2>1, <2>2
    <3> QED
      BY <3>1, <3>2
  <2>4. ASSUME NEW i \in 0 .. N - 1 PROVE q[i] = v[i] /\ q[N + i] = res[i]
    <3>1. i \in 0 .. n - 1 /\ N + i \in 0 .. n - 1 /\ i < N /\ ~(N + i < N) /\ (N + i) - N = i
      BY <1>1
    <3> HIDE DEF q
    <3> QED
      BY <2>2, <3>1
  <2>5. q = [i \in 0 .. 2 * N - 1 |-> q[i]]
    OBVIOUS
  <2> HIDE DEF q
  <2> QED
    BY <1>1, <2>3, <2>4, <2>5 DEF Arrays
<1> HIDE DEF q
<1>11. Tails(q, n)[0] = l + W * Digits(res)
  <2>1. Low(q, n, N) = l
    BY <1>1, <1>10, LowSame
  <2>2. Tails(q, n)[0] = Low(q, n, N) + W * Tails(q, n)[N]
    BY <1>1, <1>10, LowFacts DEF W
  <2>3. Tails(q, n)[N] = Digits(res)
    <3> DEFINE w == [i \in 0 .. N - 1 |-> q[N + i]]
    <3>1. w = res
      BY <1>8, <1>10 DEF Words
    <3>2. /\ Tails(q, 2 * N)[N] = Digits(w) + Powers[N] * Tails(q, 2 * N)[N + N]
      BY <1>1, <1>10, MiddleWords
    <3>3. Tails(q, n)[n] = 0
      BY <1>1, <1>10, ArrayFacts
    <3>4. Digits(res) \in Nat
      BY <1>1, <1>8, MagnitudeFacts
    <3>5. Digits(res) + W * 0 = Digits(res)
      BY <1>4, <3>4
    <3> HIDE DEF w
    <3> QED
      BY <1>1, <3>1, <3>2, <3>3, <3>5 DEF W
  <2> QED
    BY <2>1, <2>2, <2>3
<1> HIDE DEF V, D, l
<1>12. /\ ge <=> V >= D
       /\ Tails(q, n)[0] = IF ge THEN V - D ELSE V
  <2> DEFINE x == Digits(top)  y == Digits(d)
  <2>1. x \in Nat /\ y \in Nat /\ V = l + W * x /\ D = y * W /\ l \in 0 .. W - 1
    BY <1>6, <1>9 DEF D
  <2>2. ge <=> x >= y
    BY <1>7
  <2>3. Tails(q, n)[0] = IF ge THEN l + W * (x - y) ELSE l + W * x
    BY <1>8, <1>11
  <2> HIDE DEF x, y
  <2>4. x >= y <=> V >= D
    <3>1. CASE x >= y
      BY <1>4, <2>1, <3>1
    <3>2. CASE ~(x >= y)
      <4>1. W * (x + 1) <= y * W
        BY <2>1, <3>2, <1>4
      <4>2. W * (x + 1) = W * x + W
        BY <1>4, <2>1
      <4>3. W * x \in Int /\ y * W \in Int
        BY <1>4, <2>1
      <4> QED
        BY <1>4, <2>1, <3>2, <4>1, <4>2, <4>3
    <3> QED
      BY <3>1, <3>2
  <2>5. l + W * (x - y) = V - D
    BY <1>4, <2>1
  <2> QED
    BY <2>1, <2>2, <2>3, <2>4, <2>5
<1>13. Bit(ge) = Bit(V >= D)
  BY <1>12 DEF Bit
<1>14. Tails(q, n)[0] = IF V >= D THEN V - D ELSE V
  BY <1>12
<1>15. CondSub(v, d).rem = q /\ CondSub(v, d).bit = Bit(ge)
  BY <1>2
<1> QED
  BY <1>1, <1>10, <1>13, <1>14, <1>15 DEF V, D, W

\* Where round x + 1 puts its bit: the word and the place in it.
Place(x)   == N - 1 - x \div Bits
Exponent(x) == Bits - 1 - (x % Bits)

\* A round of the division works at a bit of a word.
LEMMA PlaceFacts ==
  ASSUME FormatOK, NEW x \in 0 .. N * Bits - 1
  PROVE  /\ x \div Bits \in 0 .. N - 1 /\ x % Bits \in 0 .. Bits - 1
         /\ x = Bits * (x \div Bits) + (x % Bits)
         /\ Place(x) \in 0 .. N - 1 /\ Exponent(x) \in 0 .. Bits - 1
         /\ Place(x) * Bits + Exponent(x) = N * Bits - 1 - x
<1> DEFINE q == x \div Bits
           r == x % Bits
           t == N * Bits
<1>1. Bits \in Nat /\ Bits > 0 /\ N \in Nat /\ N > 0
  BY DEF FormatOK
<1>2. t \in Nat /\ x \in Nat /\ x < t
  BY <1>1
<1>3. q \in Nat /\ r \in 0 .. Bits - 1 /\ x = Bits * q + r
  BY <1>1, <1>2
<1>4. Place(x) = N - 1 - q /\ Exponent(x) = Bits - 1 - r
  BY DEF Place, Exponent
<1> HIDE DEF q, r
<1>5. q <= N - 1
  BY <1>1, <1>3, <1>2
<1>6. q \in 0 .. N - 1 /\ N - 1 - q \in 0 .. N - 1 /\ Bits - 1 - r \in 0 .. Bits - 1
  BY <1>1, <1>3, <1>5
<1>7. (N - 1 - q) * Bits + (Bits - 1 - r) = t - 1 - x
  <2> DEFINE z == Bits * q
  <2>1. (N - 1 - q) * Bits = t - Bits - z
    BY <1>1, <1>3
  <2>2. z \in Nat /\ x = z + r
    BY <1>1, <1>3
  <2> HIDE DEF t, z
  <2> QED
    BY <1>1, <1>2, <1>3, <2>1, <2>2
<1> HIDE DEF t
<1>8. Place(x) \in 0 .. N - 1 /\ Exponent(x) \in 0 .. Bits - 1
  BY <1>4, <1>6
<1>9. Place(x) * Bits + Exponent(x) = t - 1 - x
  BY <1>4, <1>7
<1> QED
  BY <1>3, <1>6, <1>8, <1>9 DEF q, r, t

\* The rounds of a division.
Rounds(a, d) ==
  LET round[k \in 0 .. N * Bits] ==
        IF k = 0
        THEN [rem |-> [i \in 0 .. 2 * N - 1 |->
                         IF i \in FW .. FW + N - 1 THEN a[i - FW] ELSE 0],
              q   |-> ZeroWords]
        ELSE LET prev == round[k - 1]
                 step == CondSub(ShiftLeft1(prev.rem), d)
                 i    == N - 1 - (k - 1) \div Bits
             IN  [rem |-> step.rem,
                  q   |-> [prev.q EXCEPT
                             ![i] = @ + step.bit * 2 ^ (Bits - 1 - ((k - 1) % Bits))]]
  IN  round

\* The dividend, above as many fractional words; and what a round makes of it.
FirstRemainder(a) ==
  [i \in 0 .. 2 * N - 1 |-> IF i \in FW .. FW + N - 1 THEN a[i - FW] ELSE 0]

NextRound(r, x, d) ==
  LET step == CondSub(ShiftLeft1(r.rem), d)
  IN  [rem |-> step.rem,
       q   |-> [r.q EXCEPT ![Place(x)] = @ + step.bit * 2 ^ Exponent(x)]]

\* The rounds of the division, from the whole dividend.
LEMMA RoundsFacts ==
  ASSUME FormatOK, NEW a \in Words, NEW d \in Words
  PROVE  /\ Quotient(a, d) = Rounds(a, d)[N * Bits].q
         /\ FirstRemainder(a) \in Arrays(2 * N)
         /\ Rounds(a, d)[0] = [rem |-> FirstRemainder(a), q |-> ZeroWords]
         /\ \A x \in 0 .. N * Bits - 1 :
              Rounds(a, d)[x + 1] = NextRound(Rounds(a, d)[x], x, d)
         /\ \A x \in 0 .. N * Bits :
              /\ Rounds(a, d)[x].rem \in Arrays(2 * N)
              /\ Rounds(a, d)[x].q \in [0 .. N - 1 -> Nat]
<1> DEFINE t == N * Bits
           S == [rem : Arrays(2 * N), q : [0 .. N - 1 -> Nat]]
           first == [rem |-> FirstRemainder(a), q |-> ZeroWords]
           Is(f) == f = [k \in 0 .. N * Bits |-> IF k = 0 THEN first
                                                 ELSE NextRound(f[k - 1], k - 1, d)]
           rounds == Rounds(a, d)
           step == [k \in 1 .. t |-> [r \in S |-> NextRound(r, k - 1, d)]]
<1>1. /\ WordsOK /\ N \in Nat /\ N > 0 /\ Bits \in Nat /\ Bits > 0 /\ B \in Nat /\ B > 1
      /\ FW \in Nat /\ FW + FW = N
  BY FormatFacts, PointFacts DEF WordsOK
<1>2. t \in Nat
  BY <1>1
<1>3. Quotient(a, d) = rounds[N * Bits].q
  BY DEF Quotient, Rounds
<1>4. FirstRemainder(a) \in Arrays(2 * N)
  <2>1. \A i \in 0 .. N - 1 : a[i] \in 0 .. B - 1
    BY <1>1, WordsFacts
  <2> HIDE DEF B, FW
  <2>2. ASSUME NEW i \in 0 .. 2 * N - 1, i \in FW .. FW + N - 1
        PROVE  i - FW \in 0 .. N - 1
    BY <1>1, <2>2
  <2>3. 0 \in 0 .. B - 1
    BY <1>1
  <2> QED
    BY <2>1, <2>2, <2>3 DEF FirstRemainder, Arrays
<1>5. first \in S
  BY <1>1, <1>4 DEF ZeroWords
<1>6. ASSUME NEW x \in 0 .. t - 1, NEW r \in S PROVE NextRound(r, x, d) \in S
  <2>1. r.rem \in Arrays(2 * N) /\ r.q \in [0 .. N - 1 -> Nat]
    OBVIOUS
  <2> DEFINE s == CondSub(ShiftLeft1(r.rem), d)
  <2>2. s.rem \in Arrays(2 * N) /\ s.bit \in {0, 1}
    BY <2>1, ShiftFacts, CondSubFacts DEF Bit
  <2> DEFINE e == 2 ^ Exponent(x)
  <2>3. Place(x) \in 0 .. N - 1 /\ e \in Nat
    BY PlaceFacts, PowersOfTwo
  <2>4. NextRound(r, x, d) = [rem |-> s.rem, q |-> [r.q EXCEPT ![Place(x)] = @ + s.bit * e]]
    BY DEF NextRound
  <2> HIDE DEF s, e
  <2>5. s.bit * e \in Nat
    BY <2>2, <2>3
  <2>6. [r.q EXCEPT ![Place(x)] = @ + s.bit * e] \in [0 .. N - 1 -> Nat]
    <3> DEFINE g == r.q  i == Place(x)  y == s.bit * e
    <3>1. g \in [0 .. N - 1 -> Nat] /\ i \in 0 .. N - 1 /\ y \in Nat
      BY <2>1, <2>3, <2>5
    <3> HIDE DEF g, i, y
    <3>2. g[i] + y \in Nat
      BY <3>1
    <3>3. [g EXCEPT ![i] = g[i] + y] \in [0 .. N - 1 -> Nat]
      BY <3>1, <3>2
    <3> QED
      BY <3>3 DEF g, i, y
  <2> QED
    BY <2>2, <2>4, <2>6
<1> HIDE DEF S, first
<1>7. step \in [1 .. t -> [S -> S]] /\ \A k \in 1 .. t, r \in S : step[k][r] = NextRound(r, k - 1, d)
  <2>1. ASSUME NEW k \in 1 .. t, NEW r \in S PROVE NextRound(r, k - 1, d) \in S
    <3>1. k - 1 \in 0 .. t - 1
      BY <1>2
    <3> QED
      BY <1>6, <3>1
  <2> QED
    BY <2>1
<1> HIDE DEF step
<1>8. PICK f : Iterates(f, t, S, first, step)
  <2> HIDE DEF t
  <2> QED
    BY <1>2, <1>5, <1>7, Iteration
<1>9. /\ f \in [0 .. t -> S] /\ f[0] = first
      /\ \A k \in 1 .. t : f[k] = step[k][f[k - 1]]
  BY <1>8 DEF Iterates
<1>10. Is(f)
  <2> HIDE DEF t
  <2>1. ASSUME NEW k \in 1 .. t PROVE f[k] = NextRound(f[k - 1], k - 1, d)
    <3>1. f[k - 1] \in S
      BY <1>2, <1>9
    <3> QED
      BY <1>7, <1>9, <3>1
  <2>2. \A k \in 0 .. t : f[k] = IF k = 0 THEN first ELSE NextRound(f[k - 1], k - 1, d)
    BY <1>2, <1>9, <2>1
  <2>3. f = [k \in 0 .. t |-> IF k = 0 THEN first ELSE NextRound(f[k - 1], k - 1, d)]
    BY <1>9, <2>2
  <2> QED
    BY <2>3 DEF t
<1>11. Is(rounds)
  <2>1. rounds = CHOOSE g : Is(g)
    BY DEF Rounds, first, FirstRemainder, NextRound, Place, Exponent
  <2> HIDE DEF Is, rounds
  <2> QED
    BY <1>10, <2>1
<1> HIDE DEF rounds, t
<1>12. /\ rounds[0] = first
       /\ \A x \in 0 .. t - 1 : rounds[x + 1] = NextRound(rounds[x], x, d)
  <2>1. rounds = [k \in 0 .. t |-> IF k = 0 THEN first ELSE NextRound(rounds[k - 1], k - 1, d)]
    BY <1>11 DEF t
  <2> HIDE DEF Is
  <2>2. \A k \in 0 .. t : rounds[k] = IF k = 0 THEN first ELSE NextRound(rounds[k - 1], k - 1, d)
    BY <2>1
  <2>3. ASSUME NEW x \in 0 .. t - 1 PROVE rounds[x + 1] = NextRound(rounds[x], x, d)
    BY <1>2, <2>2
  <2> QED
    BY <1>2, <2>2, <2>3
<1> DEFINE T == {x \in 0 .. t : rounds[x] \in S}
<1>13. 0 \in T
  BY <1>2, <1>5, <1>12
<1>14. \A x \in 0 .. t : x # t /\ x \in T => (x + 1) \in T
  BY <1>2, <1>6, <1>12
<1> HIDE DEF T
<1>15. \A x \in 0 .. t : x \in T
  BY <1>2, <1>13, <1>14, IntervalInduction
<1>16. \A x \in 0 .. t : rounds[x].rem \in Arrays(2 * N) /\ rounds[x].q \in [0 .. N - 1 -> Nat]
  BY <1>15 DEF T, S
<1> QED
  BY <1>3, <1>4, <1>12, <1>16 DEF rounds, t, first

\* A word raised raises the number by the word's weight.
LEMMA WordRaised ==
  ASSUME WordsOK, NEW g \in [0 .. N - 1 -> Nat], NEW i \in 0 .. N - 1, NEW y \in Nat,
         NEW h \in [0 .. N - 1 -> Nat], h[i] = g[i] + y,
         \A j \in 0 .. N - 1 : j # i => h[j] = g[j]
  PROVE  Digits(h) = Digits(g) + Powers[i] * y /\ Digits(g) \in Nat
<1> DEFINE tg == Tails(g, N)
           th == Tails(h, N)
           up(j) == IF j <= i THEN Powers[i - j] * y ELSE 0
           T == {j \in 0 .. N : th[j] = tg[j] + up(j)}
<1>1. N \in Nat /\ N > 0 /\ B \in Nat /\ B > 1
  BY DEF WordsOK
<1>2. /\ Powers \in [0 .. 2 * N -> Nat] /\ Powers[0] = 1
      /\ \A j \in 0 .. 2 * N - 1 : Powers[j + 1] = B * Powers[j]
  BY PowersFacts
<1>3. h[i] = g[i] + y /\ \A j \in 0 .. N - 1 : j # i => h[j] = g[j]
  OBVIOUS
<1>4. /\ tg \in [0 .. N -> Nat] /\ tg[N] = 0
      /\ \A j \in 0 .. N - 1 : tg[j] = g[j] + B * tg[j + 1]
  BY <1>1, TailsFacts
<1>5. /\ th \in [0 .. N -> Nat] /\ th[N] = 0
      /\ \A j \in 0 .. N - 1 : th[j] = h[j] + B * th[j + 1]
  BY <1>1, <1>3, TailsFacts
<1> HIDE DEF tg, th, B
<1>6. N \in T
  BY <1>1, <1>4, <1>5
<1>7. \A j \in 0 .. N : j # N /\ (j + 1) \in T => j \in T
  <2> SUFFICES ASSUME NEW j \in 0 .. N, j # N, th[j + 1] = tg[j + 1] + up(j + 1)
               PROVE  th[j] = tg[j] + up(j)
    OBVIOUS
  <2>1. j \in 0 .. N - 1 /\ j + 1 \in 0 .. N
    BY <1>1
  <2>2. tg[j] = g[j] + B * tg[j + 1] /\ th[j] = h[j] + B * th[j + 1]
        /\ tg[j + 1] \in Nat /\ g[j] \in Nat
    BY <1>4, <1>5, <2>1
  <2>3. CASE j > i
    BY <1>3, <2>1, <2>2, <2>3, <1>4
  <2>4. CASE j = i
    <3>1. th[j + 1] = tg[j + 1] /\ h[j] = g[j] + y
      BY <1>3, <2>1, <2>2, <2>4
    <3>2. i - j = 0 /\ j <= i
      BY <2>4
    <3>3. up(j) = y
      BY <1>2, <3>2
    <3>4. B * tg[j + 1] \in Int
      BY <1>1, <2>2
    <3> HIDE DEF up
    <3> QED
      BY <2>2, <3>1, <3>3, <3>4
  <2>5. CASE j < i
    <3> DEFINE p == Powers[i - (j + 1)]
    <3>1. i - (j + 1) \in 0 .. 2 * N - 1 /\ (i - (j + 1)) + 1 = i - j
      BY <1>1, <2>5
    <3>2. p \in Nat /\ Powers[i - j] = B * p
      BY <1>1, <1>2, <3>1
    <3> HIDE DEF p
    <3>3. up(j) = B * p * y /\ up(j + 1) = p * y /\ h[j] = g[j]
      BY <1>3, <2>1, <2>5, <3>2 DEF p
    <3> DEFINE z == tg[j + 1]  x == g[j]
    <3>4. z \in Nat /\ x \in Nat /\ tg[j] = x + B * z /\ th[j] = x + B * (z + p * y)
      BY <2>2, <3>3
    <3> HIDE DEF z, x, up
    <3>5. B * (z + p * y) = B * z + B * p * y
      BY <1>1, <3>2, <3>4
    <3>6. B * z \in Int /\ B * p * y \in Int
      BY <1>1, <3>2, <3>4
    <3> QED
      BY <3>3, <3>4, <3>5, <3>6
  <2> QED
    BY <2>3, <2>4, <2>5
<1> HIDE DEF T
<1>8. \A j \in 0 .. N : j \in T
  BY <1>1, <1>6, <1>7, DownInduction
<1>9. th[0] = tg[0] + Powers[i - 0] * y /\ tg[0] \in Nat /\ i - 0 = i
  BY <1>1, <1>4, <1>8 DEF T
<1> QED
  BY <1>3, <1>9 DEF Digits, tg, th

\* The dividend: the magnitude moved up by one unit.
LEMMA FirstValue ==
  ASSUME FormatOK, NEW a \in Words
  PROVE  Tails(FirstRemainder(a), 2 * N)[0] = Unit * Digits(a)
<1> DEFINE n == 2 * N
           p == FirstRemainder(a)
           z == [i \in 0 .. 2 * N - 1 |-> 0]
           w == [i \in 0 .. N - 1 |-> p[FW + i]]
<1>1. /\ WordsOK /\ N \in Nat /\ N > 0 /\ n \in Nat /\ n = 2 * N /\ B \in Nat /\ B > 1
      /\ FW \in Nat /\ FW + FW = N /\ FW \in 0 .. N /\ FW \in 0 .. n /\ n \in 0 .. 2 * N
      /\ FW + N \in 0 .. n /\ 0 \in 0 .. n
  <2>1. FW \in Nat /\ FW + FW = N
    BY FormatFacts, PointFacts
  <2>2. /\ WordsOK /\ N \in Nat /\ N > 0 /\ B \in Nat /\ B > 1
    BY FormatFacts DEF WordsOK
  <2> HIDE DEF FW
  <2> QED
    BY <2>1, <2>2
<1>2. p \in Arrays(2 * N)
  BY RoundsFacts
<1>3. /\ \A i \in 0 .. N - 1 : p[FW + i] = a[i]
      /\ \A i \in 0 .. FW - 1 : p[i] = 0
      /\ \A i \in FW + N .. n - 1 : p[i] = 0
  <2> HIDE DEF FW
  <2>1. \A i \in 0 .. n - 1 : p[i] = IF i \in FW .. FW + N - 1 THEN a[i - FW] ELSE 0
    BY <1>1 DEF FirstRemainder
  <2> HIDE DEF p
  <2>2. ASSUME NEW i \in 0 .. N - 1 PROVE p[FW + i] = a[i]
    BY <1>1, <2>1
  <2>3. ASSUME NEW i \in 0 .. FW - 1 PROVE p[i] = 0
    BY <1>1, <2>1
  <2>4. ASSUME NEW i \in FW + N .. n - 1 PROVE p[i] = 0
    BY <1>1, <2>1
  <2> QED
    BY <2>2, <2>3, <2>4
<1>4. z \in Arrays(2 * N) /\ \A i \in 0 .. n - 1 : z[i] = 0
  <2> HIDE DEF B
  <2>1. 0 \in 0 .. B - 1
    BY <1>1
  <2> QED
    BY <1>1, <2>1 DEF Arrays
<1> HIDE DEF p, z, n, B, FW
<1>5. w = a
  BY <1>3 DEF Words
<1>6. Tails(p, n)[FW] = Digits(a) + Powers[N] * Tails(p, n)[FW + N]
  BY <1>1, <1>2, <1>5, MiddleWords
<1>7. Tails(p, n)[FW + N] = 0
  BY <1>1, <1>2, <1>3, NoWords
<1>8. Low(p, n, FW) = Low(z, n, FW)
  <2>1. \A k \in 0 .. FW - 1 : p[k] = z[k]
    BY <1>1, <1>3, <1>4
  <2> QED
    BY <1>1, <1>2, <1>4, <2>1, LowSame
<1>9. Low(z, n, FW) = 0
  <2>1. Tails(z, n)[0] = 0 /\ Tails(z, n)[FW] = 0
    BY <1>1, <1>4, NoWords
  <2>2. Powers[FW] \in Nat
    BY <1>1, PowersFacts
  <2> QED
    BY <2>1, <2>2 DEF Low
<1>10. Tails(p, n)[0] = Low(p, n, FW) + Powers[FW] * Tails(p, n)[FW]
  BY <1>1, <1>2, LowFacts
<1>11. Digits(a) \in Nat /\ Powers[N] \in Nat /\ Powers[FW] \in Nat
  <2>1. N \in 0 .. 2 * N /\ FW \in 0 .. 2 * N
    BY <1>1
  <2> QED
    BY <1>1, <2>1, MagnitudeFacts, PowersFacts
<1>12. Tails(p, n)[FW] = Digits(a)
  BY <1>6, <1>7, <1>11
<1>13. Powers[FW] * Digits(a) \in Int
  BY <1>11
<1> QED
  BY <1>1, <1>8, <1>9, <1>10, <1>12, <1>13 DEF Unit, n, p

\* The bits of word i still to come after x rounds, and the weight of the last bit.
Left(x, i) == LET b == N * Bits - x - i * Bits
              IN  IF b < 0 THEN 0 ELSE IF b > Bits THEN Bits ELSE b
Weight(x)  == 2 ^ (N * Bits - x)

\* What is left of the dividend after a round, for the later ones.
LEMMA LeftFacts ==
  ASSUME FormatOK, NEW x \in 0 .. N * Bits - 1, NEW i \in 0 .. N - 1
  PROVE  /\ Left(x, i) \in 0 .. Bits /\ Left(x + 1, i) \in 0 .. Bits
         /\ i # Place(x) => Left(x + 1, i) = Left(x, i)
         /\ i = Place(x) => Left(x, i) = Exponent(x) + 1 /\ Left(x + 1, i) = Exponent(x)
         /\ Left(N * Bits, i) = 0 /\ Left(0, i) = Bits
<1> DEFINE t == N * Bits
           p == Place(x)
           e == Exponent(x)
           u == i * Bits
<1>1. Bits \in Nat /\ Bits > 0 /\ N \in Nat /\ N > 0 /\ t \in Nat /\ u \in Nat
  BY DEF FormatOK
<1>2. p \in 0 .. N - 1 /\ e \in 0 .. Bits - 1 /\ p * Bits + e = t - 1 - x
  BY PlaceFacts
<1>3. \A y \in 0 .. t : Left(y, i) = LET b == t - y - u
                                     IN  IF b < 0 THEN 0 ELSE IF b > Bits THEN Bits ELSE b
  BY DEF Left
<1>4. x \in 0 .. t /\ x + 1 \in 0 .. t /\ t \in 0 .. t /\ 0 \in 0 .. t
  BY <1>1
<1> HIDE DEF p, e, t
<1>5. t - u >= Bits
  <2>1. (i + 1) * Bits <= N * Bits
    BY <1>1
  <2>2. (i + 1) * Bits = u + Bits
    BY <1>1
  <2> HIDE DEF u
  <2> QED
    BY <1>1, <2>1, <2>2 DEF t
<1> DEFINE v == p * Bits
<1>6. v \in Nat /\ v + e = t - 1 - x
  BY <1>1, <1>2
<1>7. /\ i = p => u = v
      /\ i < p => v - u >= Bits
      /\ i > p => u - v >= Bits
  <2>1. ASSUME NEW m \in Nat, NEW n \in Nat, m < n PROVE n * Bits - m * Bits >= Bits
    BY <1>1, <2>1
  <2> QED
    BY <1>1, <1>2, <2>1
<1> HIDE DEF u, v
<1>8. /\ Left(x, i) = LET b == v + e + 1 - u
                      IN  IF b < 0 THEN 0 ELSE IF b > Bits THEN Bits ELSE b
      /\ Left(x + 1, i) = LET b == v + e - u
                          IN  IF b < 0 THEN 0 ELSE IF b > Bits THEN Bits ELSE b
  BY <1>1, <1>2, <1>4, <1>6, <1>3
<1>9. i = p => Left(x, i) = e + 1 /\ Left(x + 1, i) = e
  BY <1>1, <1>2, <1>6, <1>7, <1>8
<1>10. i # p => Left(x + 1, i) = Left(x, i)
  BY <1>1, <1>2, <1>6, <1>7, <1>8
<1>11. Left(x, i) \in 0 .. Bits /\ Left(x + 1, i) \in 0 .. Bits
  BY <1>1, <1>2, <1>6, <1>8
<1>12. Left(t, i) = 0 /\ Left(0, i) = Bits
  BY <1>1, <1>3, <1>4, <1>5
<1> QED
  BY <1>9, <1>10, <1>11, <1>12 DEF p, e, t

\* A round halves the weight of the quotient still to come.
LEMMA WeightFacts ==
  ASSUME FormatOK
  PROVE  /\ Weight(0) = Powers[N] /\ Weight(N * Bits) = 1
         /\ \A x \in 0 .. N * Bits : Weight(x) \in Nat
         /\ \A x \in 0 .. N * Bits - 1 :
              /\ Weight(x) = 2 * Weight(x + 1)
              /\ Weight(x + 1) = Powers[Place(x)] * 2 ^ Exponent(x)
<1> DEFINE t == N * Bits
           P(j) == 2 ^ j
<1>1. Bits \in Nat /\ Bits > 0 /\ N \in Nat /\ N > 0 /\ t \in Nat
  BY DEF FormatOK
<1>2. \A j \in Nat : P(j) \in Nat /\ P(j + 1) = 2 * P(j)
  BY PowersOfTwo
<1>3. P(0) = 1
  OBVIOUS
<1>4. \A x \in 0 .. t : Weight(x) = P(t - x)
  BY DEF Weight
<1>5. \A j \in 0 .. N : P(j * Bits) = Powers[j]
  BY WordWeights
<1>6. \A m, j \in Nat : P(m + j) = P(m) * P(j)
  BY ExponentsAdd
<1> HIDE DEF P
<1>7. Weight(0) = Powers[N] /\ Weight(t) = 1
  BY <1>1, <1>3, <1>4, <1>5
<1>8. ASSUME NEW x \in 0 .. t PROVE Weight(x) \in Nat
  <2>1. t - x \in Nat
    BY <1>1
  <2> QED
    BY <1>2, <1>4, <2>1
<1>9. ASSUME NEW x \in 0 .. t - 1
      PROVE  /\ Weight(x) = 2 * Weight(x + 1)
             /\ Weight(x + 1) = Powers[Place(x)] * P(Exponent(x))
  <2> DEFINE p == Place(x)  e == Exponent(x)
  <2>1. p \in 0 .. N - 1 /\ e \in 0 .. Bits - 1 /\ p * Bits + e = t - 1 - x
    BY PlaceFacts
  <2>2. x \in 0 .. t /\ x + 1 \in 0 .. t /\ t - (x + 1) \in Nat
        /\ (t - (x + 1)) + 1 = t - x /\ t - 1 - x = t - (x + 1)
    BY <1>1
  <2> HIDE DEF p, e, t
  <2>3. Weight(x) = 2 * Weight(x + 1)
    BY <1>2, <1>4, <2>2
  <2>4. p * Bits \in Nat /\ e \in Nat /\ p \in 0 .. N
    BY <1>1, <2>1
  <2>5. P(p * Bits + e) = Powers[p] * P(e)
    BY <1>5, <1>6, <2>4
  <2>6. Weight(x + 1) = Powers[p] * P(e)
    BY <1>4, <2>1, <2>2, <2>5
  <2> QED
    BY <2>3, <2>6 DEF p, e
<1> QED
  BY <1>7, <1>8, <1>9 DEF t, P

\* What one round does to the value of the remainder and to the quotient.
LEMMA RoundStep ==
  ASSUME FormatOK, NEW r, r.rem \in Arrays(2 * N), r.q \in [0 .. N - 1 -> Nat],
         NEW x \in 0 .. N * Bits - 1, NEW d \in Words,
         2 * Digits(d) <= Powers[N],
         Tails(r.rem, 2 * N)[0] < Digits(d) * Powers[N]
  PROVE  LET V == Tails(r.rem, 2 * N)[0]
             D == Digits(d) * Powers[N]
             s == NextRound(r, x, d)
             bit == IF 2 * V >= D THEN 1 ELSE 0
         IN  /\ Tails(s.rem, 2 * N)[0] = 2 * V - bit * D
             /\ Tails(s.rem, 2 * N)[0] < D
             /\ Digits(s.q) = Digits(r.q) + bit * Weight(x + 1)
             /\ \A i \in 0 .. N - 1 : i # Place(x) => s.q[i] = r.q[i]
             /\ s.q[Place(x)] = r.q[Place(x)] + bit * 2 ^ Exponent(x)
<1> DEFINE V == Tails(r.rem, 2 * N)[0]
           W == Powers[N]
           D == Digits(d) * W
           s == NextRound(r, x, d)
           bit == IF 2 * V >= D THEN 1 ELSE 0
           v == ShiftLeft1(r.rem)
           c == CondSub(v, d)
           e == 2 ^ Exponent(x)
           p == Place(x)
           y == c.bit * e
<1>1. WordsOK /\ N \in Nat /\ N > 0 /\ N \in 0 .. 2 * N /\ 2 * N \in 0 .. 2 * N
  BY FormatFacts DEF WordsOK
<1>2. W \in Nat /\ W > 0 /\ W * W = Powers[2 * N] /\ Digits(d) \in Nat /\ V \in Nat
  BY <1>1, LimitFacts, ArrayFacts, PowersFacts, MagnitudeFacts
<1>3. 2 * V < W * W
  <2> DEFINE z == Digits(d)
  <2>1. z \in Nat /\ 2 * z <= W /\ V < z * W
    BY <1>2
  <2> HIDE DEF V, W, z
  <2>2. (2 * z) * W <= W * W /\ (2 * z) * W = 2 * (z * W)
    BY <1>2, <2>1
  <2>3. z * W \in Nat /\ W * W \in Nat
    BY <1>2, <2>1
  <2> QED
    BY <1>2, <2>1, <2>2, <2>3
<1>4. v \in Arrays(2 * N) /\ Tails(v, 2 * N)[0] = 2 * V
  BY <1>2, <1>3, ShiftFacts
<1> HIDE DEF v
<1>5. /\ c.rem \in Arrays(2 * N) /\ c.bit = Bit(2 * V >= D)
      /\ Tails(c.rem, 2 * N)[0] = IF 2 * V >= D THEN 2 * V - D ELSE 2 * V
  BY <1>4, CondSubFacts
<1>6. s = [rem |-> c.rem, q |-> [r.q EXCEPT ![p] = @ + y]]
  BY DEF NextRound, v
<1>7. p \in 0 .. N - 1 /\ e \in Nat /\ Weight(x + 1) = Powers[p] * e /\ Powers[p] \in Nat
  <2>1. p \in 0 .. N - 1 /\ Exponent(x) \in Nat
    BY PlaceFacts
  <2>2. p \in 0 .. 2 * N
    BY <1>1, <2>1
  <2> QED
    BY <1>1, <2>1, <2>2, PowersOfTwo, PowersFacts, WeightFacts
<1>8. c.bit = bit /\ bit \in {0, 1}
  BY <1>5 DEF Bit
<1> HIDE DEF s, bit, c, e, p, V, W
<1>9. y \in Nat /\ y = bit * e
  BY <1>7, <1>8
<1> HIDE DEF y
<1> DEFINE h == [r.q EXCEPT ![p] = @ + y]
<1> DEFINE g == r.q
<1>11. /\ g \in [0 .. N - 1 -> Nat] /\ h \in [0 .. N - 1 -> Nat] /\ h[p] = g[p] + y
       /\ \A i \in 0 .. N - 1 : i # p => h[i] = g[i]
  <2>1. g \in [0 .. N - 1 -> Nat] /\ g[p] \in Nat
    BY <1>7
  <2>2. g[p] + y \in Nat
    BY <1>9, <2>1
  <2>3. h = [g EXCEPT ![p] = g[p] + y]
    OBVIOUS
  <2> HIDE DEF g, h
  <2> QED
    BY <1>7, <2>1, <2>2, <2>3
<1> HIDE DEF g, h
<1>12. s.rem = c.rem /\ s.q = h
  BY <1>6 DEF h, g
<1>10. Digits(h) = Digits(g) + Powers[p] * y /\ Digits(g) \in Nat
  <2>1. /\ WordsOK /\ p \in 0 .. N - 1 /\ y \in Nat
        /\ g \in [0 .. N - 1 -> Nat] /\ h \in [0 .. N - 1 -> Nat] /\ h[p] = g[p] + y
        /\ \A i \in 0 .. N - 1 : i # p => h[i] = g[i]
    BY <1>1, <1>7, <1>9, <1>11
  <2> QED
    BY <2>1, WordRaised
<1>13. Powers[p] * y = bit * Weight(x + 1)
  <2>1. CASE bit = 0
    BY <1>7, <1>9, <2>1
  <2>2. CASE bit = 1
    BY <1>7, <1>9, <2>2
  <2> QED
    BY <1>8, <2>1, <2>2
<1>14. D \in Nat /\ V < D
  BY <1>2 DEF V, W
<1> HIDE DEF D
<1>15. /\ Tails(s.rem, 2 * N)[0] = 2 * V - bit * D
       /\ Tails(s.rem, 2 * N)[0] < D
  <2>1. CASE 2 * V >= D
    BY <1>14, <2>1, <1>2, <1>5, <1>12 DEF bit
  <2>2. CASE ~(2 * V >= D)
    BY <1>14, <2>2, <1>2, <1>5, <1>12 DEF bit
  <2> QED
    BY <2>1, <2>2
<1> QED
  BY <1>9, <1>10, <1>11, <1>12, <1>13, <1>15 DEF V, D, W, s, bit, e, p, g

\* All rounds together divide.
LEMMA DivisionRounds ==
  ASSUME FormatOK, NEW a \in Words, NEW d \in Words,
         Digits(d) > 0, 2 * Digits(d) <= Powers[N],
         Unit * Digits(a) < Digits(d) * Powers[N]
  PROVE  /\ Quotient(a, d) \in Words
         /\ Digits(Quotient(a, d)) = (Unit * Digits(a)) \div Digits(d)
<1> DEFINE t == N * Bits
           R == Rounds(a, d)
           V(x) == Tails(R[x].rem, 2 * N)[0]
           Q(x) == Digits(R[x].q)
           W == Powers[N]
           D == Digits(d)
           DW == D * W
           A == Unit * Digits(a)
           Room(x, i) == R[x].q[i] + 2 ^ Left(x, i) <= B
           T == {x \in 0 .. t : /\ V(x) < DW
                                /\ V(x) * Weight(x) + DW * Q(x) = W * A
                                /\ \A i \in 0 .. N - 1 : Room(x, i)}
<1>1. /\ WordsOK /\ N \in Nat /\ N > 0 /\ N \in 0 .. 2 * N /\ Bits \in Nat /\ t \in Nat
      /\ B \in Nat /\ B > 1
  BY FormatFacts DEF WordsOK
<1>2. /\ Quotient(a, d) = R[t].q
      /\ R[0] = [rem |-> FirstRemainder(a), q |-> ZeroWords]
      /\ \A x \in 0 .. t - 1 : R[x + 1] = NextRound(R[x], x, d)
      /\ \A x \in 0 .. t : R[x].rem \in Arrays(2 * N) /\ R[x].q \in [0 .. N - 1 -> Nat]
  BY RoundsFacts
<1>3. W \in Nat /\ W > 0 /\ D \in Nat /\ D > 0 /\ A \in Nat /\ DW \in Nat /\ A < DW
  <2>1. Powers[N] \in Nat /\ Powers[N] > 0 /\ D \in Nat /\ Digits(a) \in Nat /\ Unit \in Nat
    <3>1. FW \in 0 .. 2 * N
      <4>1. FW \in Nat /\ FW + FW = N
        BY FormatFacts, PointFacts
      <4> HIDE DEF FW
      <4> QED
        BY <1>1, <4>1
    <3> QED
      BY <1>1, <3>1, PowersFacts, MagnitudeFacts DEF Unit
  <2> QED
    BY <2>1
<1>4. \A x \in 0 .. t : V(x) \in Nat /\ Q(x) \in Nat
  <2>1. ASSUME NEW x \in 0 .. t PROVE V(x) \in Nat /\ Q(x) \in Nat
    <3> DEFINE f == R[x].rem  g == R[x].q
    <3>1. f \in Arrays(2 * N) /\ g \in [0 .. N - 1 -> Nat]
      BY <1>2, <2>1
    <3> HIDE DEF f, g
    <3>2. Tails(f, 2 * N) \in [0 .. 2 * N -> Nat] /\ 0 \in 0 .. 2 * N /\ 2 * N \in 0 .. 2 * N
      BY <1>1, <3>1, ArrayFacts
    <3>3. Tails(g, N) \in [0 .. N -> Nat] /\ 0 \in 0 .. N
      BY <1>1, <3>1, TailsFacts
    <3>4. Digits(g) \in Nat
      BY <3>3 DEF Digits
    <3> QED
      BY <3>2, <3>4 DEF f, g
  <2> QED
    BY <2>1
<1>5. /\ Weight(0) = W /\ Weight(t) = 1 /\ \A x \in 0 .. t : Weight(x) \in Nat
      /\ \A x \in 0 .. t - 1 : Weight(x) = 2 * Weight(x + 1)
  BY WeightFacts
<1>6. ASSUME NEW x \in 0 .. t - 1, x \in T
      PROVE  x + 1 \in T
  <2> DEFINE r == R[x]
             bit == IF 2 * V(x) >= DW THEN 1 ELSE 0
  <2>1. x \in 0 .. t /\ x + 1 \in 0 .. t
    BY <1>1
  <2>2. r.rem \in Arrays(2 * N) /\ r.q \in [0 .. N - 1 -> Nat] /\ R[x + 1] = NextRound(r, x, d)
    BY <1>2, <2>1
  <2>3. V(x) < DW
    BY <1>6
  <2>4. /\ V(x + 1) = 2 * V(x) - bit * DW /\ V(x + 1) < DW
        /\ Q(x + 1) = Q(x) + bit * Weight(x + 1)
        /\ \A i \in 0 .. N - 1 : i # Place(x) => R[x + 1].q[i] = r.q[i]
        /\ R[x + 1].q[Place(x)] = r.q[Place(x)] + bit * 2 ^ Exponent(x)
    <3> HIDE DEF R
    <3> QED
      BY <2>2, <2>3, RoundStep
  <2>5. bit \in {0, 1}
    OBVIOUS
  <2>6. V(x + 1) * Weight(x + 1) + DW * Q(x + 1) = W * A
    <3> DEFINE g == Weight(x + 1)  u == V(x)  z == Q(x)  u1 == V(x + 1)  z1 == Q(x + 1)
               M == W * A
    <3>1. g \in Nat /\ Weight(x) = 2 * g /\ u \in Nat /\ z \in Nat
          /\ u1 = 2 * u - bit * DW /\ z1 = z + bit * g
      BY <1>4, <1>5, <2>1, <2>4
    <3>2. u * (2 * g) + DW * z = M
      BY <1>6, <3>1
    <3> HIDE DEF g, u, z, u1, z1, bit, DW, M
    <3>3. CASE bit = 0
      BY <1>3, <2>5, <3>1, <3>3, <3>2 DEF g, u1, z1, M
    <3>4. CASE bit = 1
      BY <1>3, <2>5, <3>1, <3>4, <3>2 DEF g, u1, z1, M
    <3> QED
      BY <2>5, <3>3, <3>4
  <2>7. ASSUME NEW i \in 0 .. N - 1
        PROVE  Room(x + 1, i)
    <3>1. /\ Left(x, i) \in 0 .. Bits /\ Left(x + 1, i) \in 0 .. Bits
          /\ i # Place(x) => Left(x + 1, i) = Left(x, i)
          /\ i = Place(x) => Left(x, i) = Exponent(x) + 1 /\ Left(x + 1, i) = Exponent(x)
      BY LeftFacts
    <3>2. Room(x, i)
      BY <1>6
    <3>3. CASE i # Place(x)
      BY <2>4, <3>1, <3>2, <3>3
    <3>4. CASE i = Place(x)
      <4> DEFINE e == Exponent(x)  P(j) == 2 ^ j  w == r.q[i]  w1 == R[x + 1].q[i]
      <4>1. e \in Nat /\ Left(x, i) = e + 1 /\ Left(x + 1, i) = e
        BY <1>1, <3>1, <3>4
      <4>2. P(e) \in Nat /\ P(e + 1) = 2 * P(e)
        BY <4>1, PowersOfTwo
      <4>3. w + P(e + 1) <= B
        BY <3>2, <4>1
      <4>4. w1 = w + bit * P(e)
        BY <2>4, <3>4
      <4>5. w \in Nat
        BY <2>2
      <4> HIDE DEF e, P, w, w1, bit
      <4>6. w1 + P(e) <= B
        <5>1. CASE bit = 0
          BY <4>2, <4>4, <4>5, <5>1, <1>1, <4>3
        <5>2. CASE bit = 1
          BY <4>2, <4>4, <4>5, <5>2, <1>1, <4>3
        <5> QED
          BY <2>5, <5>1, <5>2
      <4> QED
        BY <4>1, <4>6 DEF e, P, w1
    <3> QED
      BY <3>3, <3>4
  <2> HIDE DEF V, Q, DW, A, W, R, Room
  <2> QED
    BY <2>1, <2>4, <2>6, <2>7
<1>7. 0 \in T
  <2>1. V(0) = A
    BY <1>2, FirstValue
  <2>2. R[0].q = ZeroWords
    BY <1>2
  <2>3. Q(0) = 0
    BY <1>1, <2>2, ZeroFacts
  <2>4. ASSUME NEW i \in 0 .. N - 1 PROVE Room(0, i)
    <3>1. R[0].q[i] = 0
      BY <2>2 DEF ZeroWords
    <3>2. Left(0, i) = Bits
      <4>1. 0 \in 0 .. N * Bits - 1
        BY <1>1 DEF FormatOK
      <4> QED
        BY <4>1, LeftFacts
    <3>3. 2 ^ Left(0, i) = B
      BY <3>2 DEF B
    <3> HIDE DEF R, B
    <3>4. 0 + B <= B
      BY <1>1
    <3> QED
      BY <3>1, <3>3, <3>4
  <2>5. V(0) * Weight(0) + DW * Q(0) = W * A
    <3> HIDE DEF V, Q, A, W, DW
    <3>1. A * W + DW * 0 = W * A
      BY <1>3
    <3> QED
      BY <1>5, <2>1, <2>3, <3>1
  <2>6. V(0) < DW
    BY <1>3, <2>1
  <2> HIDE DEF V, Q, A, W, DW, R, Room, t
  <2> QED
    BY <1>1, <2>4, <2>5, <2>6
<1>8. t \in T
  <2> HIDE DEF T, t
  <2>1. \A x \in 0 .. t : x # t /\ x \in T => (x + 1) \in T
    BY <1>1, <1>6
  <2>2. \A x \in 0 .. t : x \in T
    BY <1>1, <1>7, <2>1, IntervalInduction
  <2> QED
    BY <1>1, <2>2
<1>9. t \in 0 .. t
  BY <1>1
<1>10. V(t) < DW /\ V(t) * Weight(t) + DW * Q(t) = W * A /\ \A i \in 0 .. N - 1 : Room(t, i)
  BY <1>8
<1>11. Q(t) = A \div D
  <2> DEFINE u == V(t)  z == Q(t)
  <2>1. u \in Nat /\ z \in Nat /\ u < D * W /\ u * 1 + (D * W) * z = W * A
    BY <1>4, <1>5, <1>9, <1>10
  <2> HIDE DEF u, z, D, W, A, DW
  <2>2. u + W * (D * z) = W * A
    BY <1>3, <2>1
  <2> DEFINE y == D * z
             m == A - y
  <2>3. y \in Nat /\ m \in Int
    BY <1>3, <2>1
  <2>4. W * m = u
    <3> HIDE DEF y
    <3>1. W * (A - y) = W * A - W * y
      BY <1>3, <2>3
    <3>2. W * A \in Int /\ W * y \in Int
      BY <1>3, <2>3
    <3> QED
      BY <2>1, <2>2, <3>1, <3>2 DEF y
  <2>5. m >= 0 /\ m < D
    <3> HIDE DEF m
    <3>1. m >= 0
      BY <2>3, <1>3, <2>1, <2>4
    <3>2. m < D
      BY <1>3, <2>3, <2>1, <2>4
    <3> QED
      BY <3>1, <3>2
  <2>6. A = D * z + m
    BY <1>3, <2>3
  <2> HIDE DEF m, y
  <2>7. A \div D = z
    BY <1>3, <2>1, <2>3, <2>5, <2>6
  <2> QED
    BY <2>7 DEF z, D, A
<1>12. Quotient(a, d) \in Words
  <2>1. R[t].q \in [0 .. N - 1 -> Nat]
    BY <1>2, <1>9
  <2>2. ASSUME NEW i \in 0 .. N - 1 PROVE R[t].q[i] \in 0 .. B - 1
    <3>1. Left(t, i) = 0
      <4>1. 0 \in 0 .. N * Bits - 1
        BY <1>1 DEF FormatOK
      <4> QED
        BY <4>1, LeftFacts
    <3>2. 2 ^ 0 = 1
      OBVIOUS
    <3>3. R[t].q[i] + 1 <= B
      BY <1>10, <3>1, <3>2
    <3> DEFINE w == R[t].q[i]
    <3>4. w \in Nat /\ w + 1 <= B
      BY <2>1, <3>3
    <3> HIDE DEF w, B
    <3>5. w \in 0 .. B - 1
      BY <1>1, <3>4
    <3> QED
      BY <3>5 DEF w
  <2> HIDE DEF R, t, B
  <2>3. R[t].q \in [0 .. N - 1 -> 0 .. B - 1]
    BY <2>1, <2>2
  <2> QED
    BY <1>2, <2>3 DEF Words
<1> QED
  BY <1>2, <1>11, <1>12

\* FPN_DivNoAssert (600-661): the quotient cut off below the last bit, with the
\* sign of the operands' signs, and the largest magnitude for a divisor of zero;
\* as long as the top bit of the divisor is free and the quotient fits.
THEOREM QuotientsTruncate ==
  ASSUME FormatOK, NEW a \in FPNs, NEW b \in FPNs
  PROVE  LET r == DivNoAssert(a, b)
         IN  /\ Value(b) = 0 => r \in FPNs /\ Size(Value(r)) = Limit /\ r.neg = a.neg
             /\ DivisionFits(Value(a), Value(b)) =>
                  /\ r \in FPNs
                  /\ Size(Value(r)) = (Size(Value(a)) * Unit) \div Size(Value(b))
                  /\ Value(r) # 0 => (Value(r) < 0 <=> (Value(a) < 0 <=> ~(Value(b) < 0)))
                  /\ r.neg => Value(r) < 0
<1> DEFINE r == DivNoAssert(a, b)
           w == Quotient(a.w, b.w)
           Q == (Size(Value(a)) * Unit) \div Size(Value(b))
<1>0. WordsOK /\ EvenWords
  BY FormatFacts
<1>1. /\ a.w \in Words /\ a.neg \in BOOLEAN /\ Digits(a.w) \in Nat
      /\ Size(Value(a)) = Digits(a.w)
      /\ a.neg => Value(a) = 0 - Digits(a.w)
      /\ ~a.neg => Value(a) = Digits(a.w)
  BY <1>0, ValueFacts
<1>2. /\ b.w \in Words /\ b.neg \in BOOLEAN /\ Digits(b.w) \in Nat
      /\ Size(Value(b)) = Digits(b.w)
      /\ b.neg => Value(b) = 0 - Digits(b.w)
      /\ ~b.neg => Value(b) = Digits(b.w)
      /\ MagIsZero(b.w) <=> Digits(b.w) = 0
  BY <1>0, ValueFacts
<1>3. Unit \in Nat /\ Unit > 0 /\ Limit \in Nat /\ Limit + 1 = Powers[N]
  BY <1>0, PointFacts, MaxWordsFacts, LimitFacts
<1>4. ASSUME Value(b) = 0
      PROVE  r \in FPNs /\ Size(Value(r)) = Limit /\ r.neg = a.neg
  <2>1. MagIsZero(b.w)
    BY <1>2, <1>4
  <2>2. r = [w |-> MaxWords, neg |-> a.neg]
    BY <2>1 DEF DivNoAssert
  <2>3. MaxWords \in Words
    BY <1>0, MaxWordsFacts
  <2>4. r.w = MaxWords /\ r.neg = a.neg /\ r \in FPNs
    BY <1>1, <2>2, <2>3 DEF FPNs
  <2> HIDE DEF r
  <2>5. Size(Value(r)) = Digits(r.w)
    BY <1>0, <2>4, ValueFacts
  <2> QED
    BY <2>4, <2>5 DEF Limit
<1>5. ASSUME DivisionFits(Value(a), Value(b))
      PROVE  /\ r \in FPNs /\ Size(Value(r)) = Q
             /\ Value(r) # 0 => (Value(r) < 0 <=> (Value(a) < 0 <=> ~(Value(b) < 0)))
             /\ r.neg => Value(r) < 0
  <2> DEFINE D == Digits(b.w)  A == Unit * Digits(a.w)
  <2>1. D \in Nat /\ D > 0 /\ A \in Nat /\ 2 * D <= Limit + 1 /\ Q = A \div D /\ Q <= Limit
    BY <1>2, <1>5, <1>1, <1>3 DEF DivisionFits
  <2>2. A < D * Powers[N]
    <3> HIDE DEF D, A, Q
    <3> DEFINE m == A % D
    <3>1. Q \in Nat /\ m \in 0 .. D - 1 /\ A = D * Q + m
      BY <2>1
    <3> HIDE DEF m
    <3>2. D * Q <= D * Limit /\ D * (Limit + 1) = D * Limit + D
      BY <1>3, <2>1, <3>1
    <3>3. D * Q \in Int /\ D * Limit \in Int
      BY <1>3, <2>1, <3>1
    <3> QED
      BY <1>3, <2>1, <3>1, <3>2, <3>3
  <2>3. w \in Words /\ Digits(w) = Q
    BY <1>1, <1>2, <1>3, <2>1, <2>2, DivisionRounds
  <2>4. r = [w |-> w, neg |-> a.neg # b.neg /\ ~MagIsZero(w)]
    <3>1. ~MagIsZero(b.w)
      BY <1>2, <2>1
    <3> QED
      BY <3>1 DEF DivNoAssert
  <2> HIDE DEF w, r, Q
  <2>5. r \in FPNs /\ r.w = w /\ r.neg = (a.neg # b.neg /\ ~MagIsZero(w))
    <3> DEFINE neg == a.neg # b.neg /\ ~MagIsZero(w)
    <3>1. neg \in BOOLEAN /\ r = [w |-> w, neg |-> neg]
      BY <2>4
    <3> HIDE DEF neg
    <3>2. r \in FPNs /\ r.w = w /\ r.neg = neg
      BY <2>3, <3>1 DEF FPNs
    <3> QED
      BY <3>2 DEF neg
  <2>6. /\ Size(Value(r)) = Digits(r.w) /\ Digits(r.w) \in Nat
        /\ r.neg => Value(r) = 0 - Digits(r.w)
        /\ ~r.neg => Value(r) = Digits(r.w)
        /\ MagIsZero(r.w) <=> Digits(r.w) = 0
    BY <1>0, <2>5, ValueFacts
  <2>7. r.neg <=> (a.neg # b.neg /\ Digits(r.w) # 0)
    BY <2>5, <2>6
  <2>8. Digits(r.w) # 0 => Digits(a.w) # 0
    BY <1>3, <2>1, <2>3, <2>5
  <2>9. Value(r) # 0 => (Value(r) < 0 <=> (Value(a) < 0 <=> ~(Value(b) < 0)))
    BY <2>1, <2>6, <2>8, <1>1, <1>2, <2>7
  <2>10. r.neg => Value(r) < 0
    BY <2>6, <2>7
  <2> QED
    BY <2>3, <2>5, <2>6, <2>9, <2>10
<1> QED
  BY <1>4, <1>5 DEF r, Q

\* The whole part of a quotient of fractions is the quotient of the integers.
LEMMA WholeQuotient ==
  ASSUME NEW a \in Nat, NEW u \in Nat, u > 0, NEW d \in Nat, d > 0,
         NEW n \in Nat, NEW f \in 0 .. u - 1, (a * u) \div d = u * n + f
  PROVE  n * d <= a /\ a < n * d + d
<1> DEFINE q == (a * u) \div d
           m == (a * u) % d
           y == n * d
           e == a * u
<1>1. e \in Nat
  OBVIOUS
<1>2. q \in Nat /\ m \in 0 .. d - 1 /\ e = d * q + m
  BY <1>1
<1>3. q = u * n + f
  OBVIOUS
<1>4. y \in Nat /\ d * (u * n + f) = u * y + d * f /\ d * f \in Nat /\ u * y \in Nat
  OBVIOUS
<1>5. d * f <= d * (u - 1) /\ d * (u - 1) = u * d - d /\ u * d \in Nat
  OBVIOUS
<1> HIDE DEF q, m, y, e
<1>6. e >= u * y /\ e < u * y + u * d
  BY <1>1, <1>2, <1>3, <1>4, <1>5
<1>7. u * y + u * d = u * (y + d)
  BY <1>4
<1>8. y <= a
  BY <1>4, <1>1, <1>6 DEF e
<1>9. a < y + d
  BY <1>4, <1>1, <1>5, <1>6, <1>7 DEF e
<1> QED
  BY <1>8, <1>9 DEF y

\* FPN_Mod (865-874): a remainder smaller than the divisor, with the dividend's
\* sign, that differs from the dividend by a whole number of divisors.
THEOREM RemaindersBounded ==
  ASSUME FormatOK, NEW a \in FPNs, NEW b \in FPNs,
         DivisionFits(Value(a), Value(b))
  PROVE  /\ Mod(a, b) \in FPNs
         /\ Size(Value(Mod(a, b))) < Size(Value(b))
         /\ Value(Mod(a, b)) # 0 => (Value(Mod(a, b)) < 0 <=> Value(a) < 0)
         /\ \E n \in Int : Value(a) = Value(Mod(a, b)) + n * Size(Value(b))
<1> DEFINE r == DivNoAssert(a, b)
           t == Truncate(r)
           m == Mul(t, b)
           A == Size(Value(a))
           D == Size(Value(b))
<1>0. WordsOK /\ EvenWords
  BY FormatFacts
<1>1. Value(a) \in Int /\ A \in 0 .. Limit /\ Limit \in Nat
  BY <1>0, ValueFacts
<1>2. Value(b) \in Int /\ D \in Nat /\ D > 0
  BY <1>0, ValueFacts DEF DivisionFits, Size
<1>3. /\ r \in FPNs /\ Size(Value(r)) = (A * Unit) \div D
      /\ Value(r) # 0 => (Value(r) < 0 <=> (Value(a) < 0 <=> ~(Value(b) < 0)))
  BY QuotientsTruncate
<1> HIDE DEF r
<1>4. /\ r.w \in Words /\ r.neg \in BOOLEAN /\ Digits(r.w) \in Nat
      /\ Size(Value(r)) = Digits(r.w)
      /\ r.neg => Value(r) = 0 - Digits(r.w)
      /\ ~r.neg => Value(r) = Digits(r.w)
  BY <1>0, <1>3, ValueFacts
<1>5. t = [w |-> WholeWords(r.w), neg |-> r.neg]
  <2>1. r = [w |-> r.w, neg |-> r.neg]
    BY <1>3 DEF FPNs
  <2>2. t = [r EXCEPT !.w = WholeWords(r.w)]
    BY DEF Truncate, WholeWords
  <2> QED
    BY <2>1, <2>2
<1>6. /\ WholeWords(r.w) \in Words /\ Fraction(r.w) \in 0 .. Unit - 1
      /\ Digits(r.w) = Digits(WholeWords(r.w)) + Fraction(r.w)
      /\ \E x \in Nat : Digits(WholeWords(r.w)) = Unit * x
  BY <1>0, <1>4, WholeFacts
<1>7. PICK n \in Nat : Digits(WholeWords(r.w)) = Unit * n
  BY <1>6
<1>8. t \in FPNs /\ t.w = WholeWords(r.w) /\ t.neg = r.neg
  BY <1>4, <1>5, <1>6 DEF FPNs
<1> HIDE DEF t
<1>9. /\ Size(Value(t)) = Unit * n
      /\ r.neg => Value(t) = 0 - Unit * n
      /\ ~r.neg => Value(t) = Unit * n
  BY <1>0, <1>7, <1>8, ValueFacts
<1>10. Unit \in Nat /\ Unit > 0
  BY <1>0, PointFacts
<1>11. n * D <= A /\ A < n * D + D /\ n * D \in Nat
  <2> DEFINE f == Fraction(r.w)
  <2>1. (A * Unit) \div D = Unit * n + f /\ f \in 0 .. Unit - 1 /\ A \in Nat
    BY <1>1, <1>3, <1>4, <1>6, <1>7
  <2> HIDE DEF f, A, D
  <2> QED
    BY <1>2, <1>10, <2>1, WholeQuotient
<1>12. (Size(Value(t)) * D) \div Unit = n * D
  <2> DEFINE u == Unit  y == n * D
  <2>1. Size(Value(t)) * D = u * y
    <3> HIDE DEF D
    <3> QED
      BY <1>2, <1>9, <1>10
  <2> HIDE DEF u, y
  <2>2. u \in Nat /\ u > 0 /\ y \in Nat
    BY <1>10, <1>11 DEF u, y
  <2>3. (u * y) \div u = y
    BY <2>2
  <2> QED
    BY <2>1, <2>3 DEF u, y
<1>13. /\ m \in FPNs
       /\ Size(Value(m)) = n * D
       /\ Value(m) # 0 => (Value(m) < 0 <=> (Value(t) < 0 <=> ~(Value(b) < 0)))
  <2>1. LET P == (Size(Value(t)) * D) \div Unit
        IN  /\ m \in FPNs
            /\ Size(Value(m)) = IF P > Limit THEN Limit ELSE P
            /\ Value(m) # 0 => (Value(m) < 0 <=> (Value(t) < 0 <=> ~(Value(b) < 0)))
    BY <1>0, <1>8, WordProductsSaturate DEF Unit
  <2>2. ~(n * D > Limit)
    BY <1>1, <1>11
  <2> HIDE DEF m, D
  <2> QED
    BY <1>12, <2>1, <2>2
<1> HIDE DEF m
<1>14. Value(m) \in Int
  BY <1>0, <1>13, ValueFacts
<1> DEFINE y == n * D
<1>15. Value(m) = IF Value(a) < 0 THEN 0 - y ELSE y
  <2>1. CASE y = 0
    BY <1>13, <1>14, <2>1 DEF Size
  <2>2. CASE y # 0
    <3>1. Value(m) # 0
      BY <1>13, <2>2 DEF Size
    <3>2. n # 0
      <4> HIDE DEF D
      <4> QED
        BY <1>2, <2>2
    <3>3. Unit * n > 0
      BY <1>10, <3>2
    <3>4. Value(t) < 0 <=> r.neg
      <4> DEFINE z == Unit * n  v == Value(t)
      <4>1. z \in Nat /\ z > 0 /\ (r.neg => v = 0 - z) /\ (~r.neg => v = z)
        BY <1>7, <1>9, <1>10, <3>3
      <4> HIDE DEF z, v
      <4>2. CASE r.neg
        BY <4>1, <4>2 DEF v
      <4>3. CASE ~r.neg
        BY <4>1, <4>3 DEF v
      <4> QED
        BY <4>2, <4>3
    <3>5. Digits(r.w) > 0
      <4> DEFINE z == Unit * n  f == Fraction(r.w)
      <4>1. z \in Nat /\ z > 0 /\ Digits(r.w) = z + f /\ f \in Nat
        BY <1>6, <1>7, <1>10, <3>3
      <4> HIDE DEF z, f
      <4> QED
        BY <4>1
    <3>6. Value(r) # 0 /\ (Value(r) < 0 <=> r.neg)
      BY <1>4, <3>5
    <3>7. Value(m) < 0 <=> Value(a) < 0
      BY <1>3, <1>13, <3>1, <3>4, <3>6
    <3> HIDE DEF y
    <3>8. Size(Value(m)) = y
      BY <1>13 DEF y
    <3> QED
      BY <1>14, <3>7, <3>8 DEF Size
  <2> QED
    BY <2>1, <2>2
<1>16. y <= A /\ A < y + D /\ y \in Nat
  BY <1>11
<1> HIDE DEF y, D
<1>17. /\ Size(Value(a) - Value(m)) <= Limit
       /\ Size(Value(a) - Value(m)) < D
       /\ Value(a) - Value(m) # 0 => (Value(a) - Value(m) < 0 <=> Value(a) < 0)
  BY <1>1, <1>2, <1>15, <1>16 DEF Size
<1>18. Mod(a, b) \in FPNs /\ Value(Mod(a, b)) = Value(a) - Value(m)
  BY <1>0, <1>13, DifferencesExactOrWrapped, <1>17 DEF Mod, m, t, r, ExactOrWrapped
<1>19. \E k \in Int : Value(a) = Value(Mod(a, b)) + k * D
  <2> DEFINE v == Value(Mod(a, b))
  <2>1. v = Value(a) - Value(m)
    BY <1>18
  <2> HIDE DEF v
  <2>2. CASE Value(a) < 0
    <3>1. Value(a) = v + (0 - n) * D
      BY <1>2, <1>1, <1>14, <1>15, <1>16, <2>1, <2>2 DEF y
    <3>2. 0 - n \in Int
      OBVIOUS
    <3> QED
      BY <3>1, <3>2 DEF v
  <2>3. CASE ~(Value(a) < 0)
    BY <1>1, <1>14, <1>15, <1>16, <2>1, <2>3 DEF y, v
  <2> QED
    BY <2>2, <2>3
<1> QED
  BY <1>17, <1>18, <1>19 DEF D

\* FPN_Lerp (876-880): a point between the two ends, for a weight between zero
\* and a unit, whatever the product cuts off.
THEOREM LerpStaysBetween ==
  ASSUME FormatOK, NEW a \in FPNs, NEW b \in FPNs, NEW t \in FPNs,
         0 <= Value(t), Value(t) <= Unit, Size(Value(b) - Value(a)) <= Limit
  PROVE  /\ Lerp(a, b, t) \in FPNs
         /\ \/ Value(a) <= Value(Lerp(a, b, t)) /\ Value(Lerp(a, b, t)) <= Value(b)
            \/ Value(b) <= Value(Lerp(a, b, t)) /\ Value(Lerp(a, b, t)) <= Value(a)
<1> DEFINE s == SubSat(b, a)
           m == Mul(s, t)
<1>0. WordsOK /\ EvenWords
  BY FormatFacts
<1>1. /\ Value(a) \in Int /\ Size(Value(a)) <= Limit
      /\ Value(b) \in Int /\ Size(Value(b)) <= Limit /\ Value(t) \in Int /\ Limit \in Nat
  BY <1>0, ValueFacts
<1>2. s \in FPNs /\ Value(s) = Value(b) - Value(a)
  BY <1>0, DifferencesExactOrWrapped DEF ExactOrWrapped
<1> HIDE DEF s
<1>3. Unit \in Nat /\ Unit > 0
  BY <1>0, PointFacts
<1> DEFINE S == Size(Value(s))
           T == Size(Value(t))
           P == (S * T) \div Unit
<1>4. S \in Nat /\ S <= Limit /\ T \in Nat /\ T <= Unit
  BY <1>1, <1>2 DEF Size
<1>5. P \in Nat /\ P <= S
  <2> DEFINE u == Unit  e == S * T  q == e \div u  x == e % u
  <2> HIDE DEF S, T
  <2>1. e \in Nat /\ e <= S * u /\ u \in Nat /\ u > 0
    BY <1>3, <1>4
  <2> HIDE DEF e, u
  <2>2. q \in Nat /\ x \in 0 .. u - 1 /\ e = u * q + x
    BY <2>1
  <2> HIDE DEF q, x
  <2>3. q <= S
    BY <1>4, <2>2, <2>1
  <2> QED
    BY <2>2, <2>3 DEF q, e, u
<1>6. /\ m \in FPNs
      /\ Size(Value(m)) = IF P > Limit THEN Limit ELSE P
      /\ Value(m) # 0 => (Value(m) < 0 <=> (Value(s) < 0 <=> ~(Value(t) < 0)))
  BY <1>0, <1>2, WordProductsSaturate DEF Unit
<1> HIDE DEF m, P
<1>7. Value(m) \in Int
  BY <1>0, <1>6, ValueFacts
<1>8. Size(Value(m)) <= S /\ (Value(m) # 0 => (Value(m) < 0 <=> Value(s) < 0))
  BY <1>1, <1>4, <1>5, <1>6
<1>9. \/ Value(a) <= Value(a) + Value(m) /\ Value(a) + Value(m) <= Value(b)
      \/ Value(b) <= Value(a) + Value(m) /\ Value(a) + Value(m) <= Value(a)
  BY <1>1, <1>2, <1>7, <1>8 DEF Size
<1>10. Size(Value(a) + Value(m)) <= Limit
  BY <1>1, <1>7, <1>9 DEF Size
<1>11. Lerp(a, b, t) \in FPNs /\ Value(Lerp(a, b, t)) = Value(a) + Value(m)
  BY <1>0, <1>6, SumsExactOrWrapped, <1>10 DEF Lerp, m, s, ExactOrWrapped
<1> QED
  BY <1>9, <1>11

-----------------------------------------------------------------------------
(* The numbers the amounts are in the other build: FP64, for every width   *)
(* of the word.                                                            *)

Clamp(n) == IF n > FP64!MaxMag THEN FP64!MaxMag ELSE IF n < -FP64!MaxMag THEN -FP64!MaxMag ELSE n

\* A magnitude is its two words.
LEMMA SplitWords ==
  ASSUME FP64!WordOK, NEW m \in 0 .. FP64!MaxMag
  PROVE  /\ FP64!Lo(m) \in 0 .. B - 1
         /\ FP64!Hi(m) \in 0 .. B - 1
         /\ m = FP64!Hi(m) * B + FP64!Lo(m)
<1>1. B \in Nat /\ B > 1  BY DEF FP64!WordOK
<1>2. m \in Nat /\ m < B * B  BY <1>1 DEF FP64!MaxMag
<1>3. FP64!Lo(m) \in 0 .. B - 1  BY <1>1, <1>2 DEF FP64!Lo
<1>4. FP64!Hi(m) \in Int /\ m = FP64!Hi(m) * B + FP64!Lo(m)  BY <1>1, <1>2 DEF FP64!Lo, FP64!Hi
<1>5. FP64!Hi(m) \in 0 .. B - 1  BY <1>1, <1>2, <1>3, <1>4
<1> QED  BY <1>3, <1>4, <1>5

\* Arithmetic in a word wraps once at most.
LEMMA ModWord ==
  ASSUME FP64!WordOK, NEW x \in Int
  PROVE  /\ x \in 0 .. B - 1 => x % B = x
         /\ x \in -B .. -1 => x % B = x + B
<1>1. B \in Nat /\ B > 1  BY DEF FP64!WordOK
<1> QED  BY <1>1

\* Two words make a magnitude.
LEMMA JoinRange ==
  ASSUME FP64!WordOK, NEW hi \in 0 .. B - 1, NEW lo \in 0 .. B - 1
  PROVE  FP64!Join(hi, lo) \in 0 .. FP64!MaxMag
<1>1. B \in Nat /\ B > 1  BY DEF FP64!WordOK
<1>2. hi * B \in Nat /\ hi * B <= (B - 1) * B  BY <1>1
<1> QED  BY <1>1, <1>2 DEF FP64!Join, FP64!MaxMag

(* Comparing the words compares the magnitudes. *)
LEMMA MagGeCompares ==
  ASSUME FP64!WordOK, NEW a \in 0 .. FP64!MaxMag, NEW b \in 0 .. FP64!MaxMag
  PROVE  FP64!MagGe(a, b) <=> a >= b
<1> DEFINE ah == FP64!Hi(a)  al == FP64!Lo(a)  bh == FP64!Hi(b)  bl == FP64!Lo(b)
<1>1. B \in Nat /\ B > 1  BY DEF FP64!WordOK
<1>2. /\ ah \in 0 .. B - 1 /\ al \in 0 .. B - 1 /\ a = ah * B + al
      /\ bh \in 0 .. B - 1 /\ bl \in 0 .. B - 1 /\ b = bh * B + bl
  BY SplitWords
<1>3. FP64!MagGe(a, b) <=> ah > bh \/ (ah = bh /\ al >= bl)  BY DEF FP64!MagGe
<1> HIDE DEF ah, al, bh, bl
<1>4. CASE ah > bh
  BY <1>1, <1>2, <1>4, <1>3
<1>5. CASE ah = bh
  BY <1>1, <1>2, <1>3, <1>5
<1>6. CASE ah < bh
  BY <1>1, <1>2, <1>6, <1>3
<1> QED  BY <1>2, <1>4, <1>5, <1>6

(* The subtraction with the borrow of the lower word is the difference. *)
LEMMA WordDifferenceExact ==
  ASSUME FP64!WordOK, NEW a \in 0 .. FP64!MaxMag, NEW b \in 0 .. FP64!MaxMag, a >= b
  PROVE  FP64!WordDifference(a, b) = a - b
<1> DEFINE ah == FP64!Hi(a)  al == FP64!Lo(a)  bh == FP64!Hi(b)  bl == FP64!Lo(b)
           lo == (al - bl) % B
           c  == FP64!Borrow(al < bl)
           hi == (ah - bh - c) % B
<1>1. B \in Nat /\ B > 1  BY DEF FP64!WordOK
<1>2. /\ ah \in 0 .. B - 1 /\ al \in 0 .. B - 1 /\ a = ah * B + al
      /\ bh \in 0 .. B - 1 /\ bl \in 0 .. B - 1 /\ b = bh * B + bl
  BY SplitWords
<1>3. FP64!WordDifference(a, b) = hi * B + lo  BY DEF FP64!WordDifference, FP64!Join
<1>4. ah > bh \/ (ah = bh /\ al >= bl)  BY MagGeCompares DEF FP64!MagGe
<1>5. a - b = (ah - bh) * B + (al - bl)
  <2>1. a - b = (ah * B + al) - (bh * B + bl)  BY <1>2
  <2> HIDE DEF ah, al, bh, bl
  <2> QED  BY <1>1, <1>2, <2>1
<1>6. CASE al >= bl
  <2>1. c = 0 /\ al - bl \in 0 .. B - 1  BY <1>1, <1>2, <1>6 DEF FP64!Borrow
  <2>2. ah - bh - c \in 0 .. B - 1  BY <1>1, <1>2, <1>4, <2>1
  <2>3. lo = al - bl /\ hi = ah - bh - c  BY <1>2, <2>1, <2>2, ModWord
  <2> HIDE DEF ah, al, bh, bl, lo, hi, c
  <2> QED  BY <1>1, <1>2, <1>3, <1>5, <2>1, <2>3
<1>7. CASE al < bl
  <2>1. c = 1 /\ al - bl \in -B .. -1  BY <1>1, <1>2, <1>7 DEF FP64!Borrow
  <2>2. ah - bh - c \in 0 .. B - 1  BY <1>1, <1>2, <1>4, <1>7, <2>1
  <2>3. lo = al - bl + B /\ hi = ah - bh - c  BY <1>2, <2>1, <2>2, ModWord
  <2> HIDE DEF ah, al, bh, bl, lo, hi, c
  <2>4. hi * B = (ah - bh) * B - B  BY <1>1, <1>2, <2>1, <2>3
  <2> QED  BY <1>1, <1>2, <1>3, <1>5, <2>3, <2>4
<1> QED  BY <1>2, <1>6, <1>7

(* The wrapped 128-bit sum shows by itself whether it wrapped. *)
LEMMA SaturatedSumClamps ==
  ASSUME FP64!WordOK, NEW a \in 0 .. FP64!MaxMag, NEW b \in 0 .. FP64!MaxMag
  PROVE  FP64!SaturatedSum(a, b) = IF a + b > FP64!MaxMag THEN FP64!MaxMag ELSE a + b
<1> DEFINE M == B * B
<1>1. M \in Nat /\ M > 1 /\ FP64!MaxMag = M - 1
  <2>1. B \in Nat /\ B > 1  BY DEF FP64!WordOK
  <2> QED  BY <2>1 DEF FP64!MaxMag
<1>2. FP64!WrappedSum(a, b) = (a + b) % M  BY DEF FP64!WrappedSum
<1> HIDE DEF M
<1>3. CASE a + b <= FP64!MaxMag
  <2>1. (a + b) % M = a + b  BY <1>1, <1>3
  <2> QED  BY <1>1, <1>2, <1>3, <2>1 DEF FP64!SaturatedSum
<1>4. CASE a + b > FP64!MaxMag
  BY <1>1, <1>4, <1>2 DEF FP64!SaturatedSum
<1> QED  BY <1>1, <1>3, <1>4

-----------------------------------------------------------------------------
(* A number put together from a magnitude and a sign that zero does not take. *)
LEMMA SignedValue ==
  ASSUME FP64!WordOK, NEW m \in 0 .. FP64!MaxMag, NEW p \in BOOLEAN
  PROVE  LET v == [mag |-> m, neg |-> p /\ m # 0]
         IN  /\ v \in FP64!FP64s
             /\ FP64!Value(v) = IF p THEN 0 - m ELSE m
             /\ v.mag = 0 => ~v.neg
<1> DEFINE v == [mag |-> m, neg |-> p /\ m # 0]
<1>1. v \in FP64!FP64s  BY DEF FP64!FP64s
<1>2. v.mag = m /\ (v.neg <=> p /\ m # 0)  OBVIOUS
<1>3. FP64!MaxMag \in Int
  <2>1. B \in Nat  BY DEF FP64!WordOK
  <2> QED  BY <2>1 DEF FP64!MaxMag
<1>4. FP64!Value(v) = IF p THEN 0 - m ELSE m
  <2>1. CASE p /\ m # 0  BY <1>2, <2>1 DEF FP64!Value
  <2>2. CASE ~p  BY <1>2, <2>2 DEF FP64!Value
  <2>3. CASE m = 0
    BY <1>2, <2>3, <1>3 DEF FP64!Value
  <2> QED  BY <2>1, <2>2, <2>3
<1> QED  BY <1>1, <1>2, <1>4

\* The largest magnitude of FP64.
LEMMA MaxMagNat ==
  ASSUME FP64!WordOK
  PROVE  FP64!MaxMag \in Nat
<1>1. B \in Nat /\ B > 1  BY DEF FP64!WordOK
<1> QED  BY <1>1 DEF FP64!MaxMag

\* The fields of an FP64.
LEMMA Fields ==
  ASSUME FP64!WordOK, NEW a \in FP64!FP64s
  PROVE  a.mag \in 0 .. FP64!MaxMag /\ a.neg \in BOOLEAN
BY DEF FP64!FP64s

(* FP64_AddSat (FixedPoint64.hpp:71-119) computes the sum of the values,     *)
(* clamped to the range, and never a negative zero, for every word size and  *)
(* every two numbers: the carry, the borrow and the masks are right.         *)
THEOREM AddSatClamps ==
  ASSUME FP64!WordOK, NEW a \in FP64!FP64s, NEW b \in FP64!FP64s
  PROVE  /\ FP64!AddSat(a, b) \in FP64!FP64s
         /\ FP64!Value(FP64!AddSat(a, b)) = Clamp(FP64!Value(a) + FP64!Value(b))
         /\ FP64!AddSat(a, b).mag = 0 => ~FP64!AddSat(a, b).neg
<1>1. /\ a.mag \in 0 .. FP64!MaxMag /\ a.neg \in BOOLEAN
      /\ b.mag \in 0 .. FP64!MaxMag /\ b.neg \in BOOLEAN
      /\ FP64!MaxMag \in Nat
  BY Fields, MaxMagNat
<1>2. CASE a.neg = b.neg
  <2> DEFINE m == IF a.mag + b.mag > FP64!MaxMag THEN FP64!MaxMag ELSE a.mag + b.mag
  <2>1. FP64!SaturatedSum(a.mag, b.mag) = m  BY <1>1, SaturatedSumClamps
  <2>2. FP64!AddSat(a, b) = [mag |-> m, neg |-> a.neg /\ m # 0]  BY <1>2, <2>1 DEF FP64!AddSat
  <2>3. m \in 0 .. FP64!MaxMag  BY <1>1
  <2>4. (IF a.neg THEN 0 - m ELSE m) = Clamp(FP64!Value(a) + FP64!Value(b))
    <3>1. CASE a.neg
      BY <1>2, <3>1, <1>1 DEF FP64!Value, Clamp
    <3>2. CASE ~a.neg
      BY <1>2, <3>2, <1>1 DEF FP64!Value, Clamp
    <3> QED  BY <3>1, <3>2
  <2> HIDE DEF m
  <2> QED  BY <1>1, <2>2, <2>3, <2>4, SignedValue
<1>3. CASE a.neg # b.neg /\ a.mag >= b.mag
  <2> DEFINE m == a.mag - b.mag
  <2>1. FP64!MagGe(a.mag, b.mag) /\ FP64!WordDifference(a.mag, b.mag) = m
    BY <1>1, <1>3, MagGeCompares, WordDifferenceExact
  <2>2. FP64!AddSat(a, b) = [mag |-> m, neg |-> a.neg /\ m # 0]  BY <1>3, <2>1 DEF FP64!AddSat
  <2>3. m \in 0 .. FP64!MaxMag  BY <1>1, <1>3
  <2>4. (IF a.neg THEN 0 - m ELSE m) = Clamp(FP64!Value(a) + FP64!Value(b))
    <3>1. CASE a.neg
      <4>1. FP64!Value(a) = 0 - a.mag /\ FP64!Value(b) = b.mag  BY <1>1, <1>3, <3>1 DEF FP64!Value
      <4> QED  BY <1>1, <1>3, <3>1, <4>1 DEF Clamp
    <3>2. CASE ~a.neg
      BY <1>1, <1>3, <3>2 DEF FP64!Value, Clamp
    <3> QED  BY <3>1, <3>2
  <2> HIDE DEF m
  <2> QED  BY <1>1, <2>2, <2>3, <2>4, SignedValue
<1>4. CASE a.neg # b.neg /\ a.mag < b.mag
  <2> DEFINE m == b.mag - a.mag
  <2>1. ~FP64!MagGe(a.mag, b.mag) /\ FP64!WordDifference(b.mag, a.mag) = m
    BY <1>1, <1>4, MagGeCompares, WordDifferenceExact
  <2>2. FP64!AddSat(a, b) = [mag |-> m, neg |-> b.neg /\ m # 0]  BY <1>4, <2>1 DEF FP64!AddSat
  <2>3. m \in 0 .. FP64!MaxMag  BY <1>1, <1>4
  <2>4. (IF b.neg THEN 0 - m ELSE m) = Clamp(FP64!Value(a) + FP64!Value(b))
    <3>1. CASE b.neg
      <4>1. FP64!Value(a) = a.mag /\ FP64!Value(b) = 0 - b.mag  BY <1>1, <1>4, <3>1 DEF FP64!Value
      <4> QED  BY <1>1, <1>4, <3>1, <4>1 DEF Clamp
    <3>2. CASE ~b.neg
      BY <1>1, <1>4, <3>2 DEF FP64!Value, Clamp
    <3> QED  BY <3>1, <3>2
  <2> HIDE DEF m
  <2> QED  BY <1>1, <2>2, <2>3, <2>4, SignedValue
<1> QED  BY <1>1, <1>2, <1>3, <1>4

(* FP64_SubSat (121-124) adds the operand negated, and computes the clamped  *)
(* difference.                                                               *)
THEOREM SubSatClamps ==
  ASSUME FP64!WordOK, NEW a \in FP64!FP64s, NEW b \in FP64!FP64s
  PROVE  /\ FP64!SubSat(a, b) \in FP64!FP64s
         /\ FP64!Value(FP64!SubSat(a, b)) = Clamp(FP64!Value(a) - FP64!Value(b))
         /\ FP64!SubSat(a, b).mag = 0 => ~FP64!SubSat(a, b).neg
<1> DEFINE n == FP64!Negate(b)
<1>1. b.mag \in 0 .. FP64!MaxMag /\ b.neg \in BOOLEAN /\ FP64!MaxMag \in Nat
  BY Fields, MaxMagNat
<1>2. n = [mag |-> b.mag, neg |-> (b.neg # (b.mag # 0))]  BY DEF FP64!Negate, FP64!FP64s
<1>3. n \in FP64!FP64s  BY <1>1, <1>2 DEF FP64!FP64s
<1>4. FP64!Value(n) = 0 - FP64!Value(b)
  <2>1. n.mag = b.mag /\ n.neg = (b.neg # (b.mag # 0))  BY <1>2
  <2> HIDE DEF n
  <2>2. CASE b.mag = 0
    BY <2>1, <2>2 DEF FP64!Value
  <2>3. CASE b.mag # 0 /\ b.neg
    <3>1. ~n.neg  BY <2>1, <2>3
    <3>2. FP64!Value(n) = b.mag /\ FP64!Value(b) = 0 - b.mag  BY <2>1, <2>3, <3>1 DEF FP64!Value
    <3> QED  BY <1>1, <3>2
  <2>4. CASE b.mag # 0 /\ ~b.neg
    BY <2>1, <2>4, <1>1 DEF FP64!Value
  <2> QED  BY <2>2, <2>3, <2>4
<1>5. FP64!Value(a) \in Int /\ FP64!Value(b) \in Int
  BY Fields, MaxMagNat DEF FP64!Value
<1> HIDE DEF n
<1>6. FP64!Value(a) + FP64!Value(n) = FP64!Value(a) - FP64!Value(b)  BY <1>4, <1>5
<1> QED  BY <1>3, <1>6, AddSatClamps DEF FP64!SubSat, n

(* The comparisons of FP64 (194-221), branch-free combinations of sign bits  *)
(* and magnitudes, order numbers as their values are ordered: the two zeros  *)
(* are equal, and the five comparisons agree with each other.                *)
THEOREM ComparisonsOrderValues ==
  ASSUME FP64!WordOK, NEW a \in FP64!FP64s, NEW b \in FP64!FP64s
  PROVE  /\ FP64!LessThan(a, b) <=> FP64!Value(a) < FP64!Value(b)
         /\ FP64!Equal(a, b) <=> FP64!Value(a) = FP64!Value(b)
         /\ FP64!LessThanOrEqual(a, b) <=> FP64!Value(a) <= FP64!Value(b)
         /\ FP64!GreaterThan(a, b) <=> FP64!Value(a) > FP64!Value(b)
         /\ FP64!GreaterThanOrEqual(a, b) <=> FP64!Value(a) >= FP64!Value(b)
<1> DEFINE LT(x, y) == FP64!LessThan(x, y) <=> FP64!Value(x) < FP64!Value(y)
<1>1. ASSUME NEW x \in FP64!FP64s
      PROVE  /\ x.mag \in Nat /\ x.neg \in BOOLEAN
             /\ x.neg => FP64!Value(x) = 0 - x.mag
             /\ ~x.neg => FP64!Value(x) = x.mag
  BY Fields, MaxMagNat DEF FP64!Value
<1>2. ASSUME NEW x \in FP64!FP64s, NEW y \in FP64!FP64s
      PROVE  LT(x, y)
  <2>1. CASE x.neg /\ y.neg
    <3>1. FP64!LessThan(x, y) <=> ~(x.mag < y.mag) /\ x.mag # y.mag
      BY <2>1 DEF FP64!LessThan
    <3> QED  BY <1>1, <2>1, <3>1
  <2>2. CASE ~x.neg /\ ~y.neg
    BY <1>1, <2>2 DEF FP64!LessThan
  <2>3. CASE x.neg /\ ~y.neg
    <3>1. FP64!LessThan(x, y) <=> ~(x.mag = 0 /\ y.mag = 0)
      BY <1>1, <2>3 DEF FP64!LessThan, FP64!BothZero
    <3> QED  BY <1>1, <2>3, <3>1
  <2>4. CASE ~x.neg /\ y.neg
    <3>1. ~FP64!LessThan(x, y)  BY <1>1, <2>4 DEF FP64!LessThan
    <3> QED  BY <1>1, <2>4, <3>1
  <2> QED  BY <1>1, <2>1, <2>2, <2>3, <2>4
<1>3. FP64!Equal(a, b) <=> FP64!Value(a) = FP64!Value(b)
  <2>1. CASE a.neg = b.neg
    <3>1. FP64!Equal(a, b) <=> a.mag = b.mag  BY <1>1, <2>1 DEF FP64!Equal, FP64!BothZero
    <3>2. CASE a.neg
      <4>1. FP64!Value(a) = 0 - a.mag /\ FP64!Value(b) = 0 - b.mag  BY <1>1, <2>1, <3>2
      <4>2. a.mag \in Nat /\ b.mag \in Nat  BY <1>1
      <4>3. 0 - a.mag = 0 - b.mag <=> a.mag = b.mag  BY <4>2
      <4> QED  BY <3>1, <4>1, <4>3
    <3>3. CASE ~a.neg  BY <1>1, <2>1, <3>1, <3>3
    <3> QED  BY <3>2, <3>3
  <2>2. CASE a.neg # b.neg
    <3>1. FP64!Equal(a, b) <=> a.mag = 0 /\ b.mag = 0  BY <2>2 DEF FP64!Equal, FP64!BothZero
    <3>2. CASE a.neg /\ ~b.neg  BY <1>1, <3>1, <3>2
    <3>3. CASE ~a.neg /\ b.neg  BY <1>1, <3>1, <3>3
    <3> QED  BY <1>1, <2>2, <3>2, <3>3
  <2> QED  BY <2>1, <2>2
<1>4. FP64!Value(a) \in Int /\ FP64!Value(b) \in Int  BY <1>1
<1>5. LT(a, b) /\ LT(b, a)  BY <1>2
<1> QED
  BY <1>3, <1>4, <1>5 DEF FP64!LessThanOrEqual, FP64!GreaterThan, FP64!GreaterThanOrEqual

-----------------------------------------------------------------------------
(* Where the 128-bit sum of the middle products overflows, the product of    *)
(* the upper words alone is beyond the result, and the flag is raised.       *)
LEMMA UpperWordsLarge ==
  ASSUME FP64!WordOK, NEW ah \in 0 .. B - 1, NEW al \in 0 .. B - 1,
         NEW bh \in 0 .. B - 1, NEW bl \in 0 .. B - 1,
         NEW h \in 0 .. B - 1,
         al * bh + ah * bl + h >= B * B
  PROVE  ah * bh >= B
<1>1. B \in Nat /\ B > 1  BY DEF FP64!WordOK
<1>2. al * bh <= (B - 1) * bh /\ ah * bl <= (B - 1) * ah  BY <1>1
<1>3. (B - 1) * (ah + bh + 1) >= B * B
  BY <1>1, <1>2
<1>4. B * B > (B - 1) * (B + 1)  BY <1>1
<1>5. ah + bh + 1 > B + 1
  BY <1>1, <1>3, <1>4
<1>6. (ah - 1) * (bh - 1) >= 1  BY <1>1, <1>5
<1>7. ah * bh = (ah - 1) * (bh - 1) + ah + bh - 1  BY <1>1
<1> QED  BY <1>1, <1>5, <1>6, <1>7

\* The product of two-word numbers from the four products of their words.
LEMMA ProductOfWords ==
  ASSUME FP64!WordOK, NEW W \in Nat, NEW ah \in Nat, NEW al \in Nat, NEW bh \in Nat, NEW bl \in Nat,
         NEW h \in Nat, NEW l \in Nat, al * bl = h * W + l, l < W
  PROVE  LET p == (ah * W + al) * (bh * W + bl)
             q == ah * bh * W + (al * bh + ah * bl + h)
         IN  p = q * W + l /\ p \div W = q
<1> DEFINE p == (ah * W + al) * (bh * W + bl)
           x == ah * bh  y == al * bh  z == ah * bl
           q == x * W + (y + z + h)
<1>1. x \in Nat /\ y \in Nat /\ z \in Nat  OBVIOUS
<1>2. p = x * W * W + y * W + z * W + al * bl  OBVIOUS
<1>3. q * W = x * W * W + y * W + z * W + h * W
  <2> HIDE DEF x, y, z
  <2> QED  BY <1>1
<1>4. p = q * W + l /\ q \in Nat
  <2> HIDE DEF p
  <2>1. q \in Nat  BY <1>1
  <2>2. x * W * W \in Int /\ y * W \in Int /\ z * W \in Int /\ h * W \in Int
        /\ q * W \in Int
    BY <1>1, <2>1
  <2> HIDE DEF q
  <2>3. p = q * W - h * W + al * bl  BY <1>2, <1>3, <2>2
  <2>4. h * W \in Int /\ q * W \in Int  BY <2>2
  <2> QED  BY <2>1, <2>3, <2>4
<1>5. p \div W = q
  <2> HIDE DEF p, q
  <2> QED  BY <1>4
<1> QED  BY <1>4, <1>5

(* FP64_Mul (132-158) takes the middle 128 bits of the product from four     *)
(* partial products and saturates; the sum of the middle ones may wrap       *)
(* unseen, and the result is right all the same, for every word size.        *)
THEOREM MulSaturates ==
  ASSUME FP64!WordOK, NEW a \in FP64!FP64s, NEW b \in FP64!FP64s
  PROVE  LET q == (a.mag * b.mag) \div B
         IN  /\ FP64!Mul(a, b).mag = IF q > FP64!MaxMag THEN FP64!MaxMag ELSE q
             /\ FP64!Mul(a, b).neg = (a.neg # b.neg /\ FP64!Mul(a, b).mag # 0)
<1> DEFINE ah == FP64!Hi(a.mag)  al == FP64!Lo(a.mag)  bh == FP64!Hi(b.mag)  bl == FP64!Lo(b.mag)
           h  == FP64!Hi(al * bl)
           hh == ah * bh
           T  == al * bh + ah * bl + h
           W2 == B * B
           mid == T % W2
           S  == (hh + FP64!Hi(mid)) % W2
           q  == (a.mag * b.mag) \div B
<1>1. B \in Nat /\ B > 1 /\ W2 \in Nat /\ W2 > B /\ FP64!MaxMag = W2 - 1
  BY DEF FP64!WordOK, FP64!MaxMag
<1>2. /\ ah \in 0 .. B - 1 /\ al \in 0 .. B - 1 /\ a.mag = ah * B + al
      /\ bh \in 0 .. B - 1 /\ bl \in 0 .. B - 1 /\ b.mag = bh * B + bl
  BY Fields, SplitWords
<1>3. /\ FP64!Mul(a, b).mag = IF FP64!Hi(S) # 0 THEN FP64!MaxMag ELSE FP64!Join(FP64!Lo(S), FP64!Lo(mid))
      /\ FP64!Mul(a, b).neg = (a.neg # b.neg /\ FP64!Mul(a, b).mag # 0)
  BY DEF FP64!Mul
<1> HIDE DEF ah, al, bh, bl
<1>4. al * bl \in 0 .. FP64!MaxMag
  BY <1>1, <1>2
<1>5. h \in 0 .. B - 1 /\ al * bl = h * B + FP64!Lo(al * bl) /\ FP64!Lo(al * bl) \in 0 .. B - 1
  BY <1>4, SplitWords
<1>6. hh \in Nat /\ hh <= (B - 1) * (B - 1) /\ T \in Nat  BY <1>1, <1>2, <1>5
<1> HIDE DEF h
<1>7. q = hh * B + T  BY <1>1, <1>2, <1>5, ProductOfWords
<1> HIDE DEF hh, T, q, W2
<1>8. mid \in 0 .. FP64!MaxMag  BY <1>1, <1>6
<1>9. /\ FP64!Hi(mid) \in 0 .. B - 1 /\ FP64!Lo(mid) \in 0 .. B - 1
      /\ mid = FP64!Hi(mid) * B + FP64!Lo(mid)
  BY <1>8, SplitWords
<1>10. hh + FP64!Hi(mid) \in 0 .. FP64!MaxMag
  BY <1>1, <1>6, <1>9 DEF W2
<1>11. S = hh + FP64!Hi(mid)  BY <1>1, <1>10
<1>12. /\ FP64!Hi(S) \in 0 .. B - 1 /\ FP64!Lo(S) \in 0 .. B - 1
       /\ S = FP64!Hi(S) * B + FP64!Lo(S)
  BY <1>10, <1>11, SplitWords
<1>13. ASSUME T < W2
       PROVE  FP64!Mul(a, b).mag = IF q > FP64!MaxMag THEN FP64!MaxMag ELSE q
  <2>1. mid = T  BY <1>1, <1>6, <1>13
  <2> HIDE DEF mid, S
  <2>2. q = S * B + FP64!Lo(mid)
    <3>1. S * B = hh * B + FP64!Hi(mid) * B  BY <1>1, <1>6, <1>9, <1>11
    <3>2. hh * B \in Int /\ FP64!Hi(mid) * B \in Int  BY <1>1, <1>6, <1>9
    <3> QED  BY <1>7, <1>9, <2>1, <3>1, <3>2
  <2>3. CASE FP64!Hi(S) = 0
    <3>1. S = FP64!Lo(S) /\ S <= B - 1  BY <1>1, <1>12, <2>3
    <3>2. q = FP64!Join(FP64!Lo(S), FP64!Lo(mid))  BY <2>2, <3>1 DEF FP64!Join
    <3>3. q \in 0 .. FP64!MaxMag  BY <1>9, <1>12, <3>2, JoinRange
    <3>4. FP64!Mul(a, b).mag = q  BY <1>3, <2>3, <3>2
    <3>5. ~(q > FP64!MaxMag)  BY <1>1, <3>3
    <3> QED  BY <3>4, <3>5
  <2>4. CASE FP64!Hi(S) # 0
    BY <1>1, <1>12, <2>4, <1>9, <2>2, <1>3 DEF W2
  <2> QED  BY <2>3, <2>4
<1>14. ASSUME T >= W2
       PROVE  FP64!Mul(a, b).mag = IF q > FP64!MaxMag THEN FP64!MaxMag ELSE q
  <2>1. hh >= B  BY <1>2, <1>5, <1>14, UpperWordsLarge DEF hh, T, W2
  <2> HIDE DEF mid, S
  <2>2. S >= B  BY <1>1, <1>6, <1>9, <1>11, <2>1
  <2>3. FP64!Hi(S) # 0  BY <1>1, <1>12, <2>2
  <2>4. hh * B \in Nat  BY <1>1, <1>6
  <2>5. q > FP64!MaxMag  BY <1>1, <1>6, <1>7, <1>14, <2>4
  <2> QED  BY <1>3, <2>3, <2>5
<1>15. T \in Int /\ W2 \in Int  BY <1>1, <1>6
<1> QED  BY <1>3, <1>13, <1>14, <1>15 DEF q

-----------------------------------------------------------------------------
(* Both builds.                                                            *)

\* Its value is the same.
LEMMA NativeFacts ==
  ASSUME FormatOK, N = 2, NEW v \in FPNs
  PROVE  /\ FP64!WordOK /\ FP64!MaxMag = Limit /\ Limit \in Nat /\ Unit = B
         /\ Native(v) \in FP64!FP64s /\ FP64!Value(Native(v)) = Value(v)
         /\ Native(v).mag = Digits(v.w) /\ Native(v).neg = v.neg
<1>1. WordsOK /\ EvenWords /\ B \in Nat /\ B > 1
  BY FormatFacts DEF WordsOK
<1>2. Digits(v.w) \in 0 .. Limit /\ Limit \in Nat /\ v.neg \in BOOLEAN
  BY <1>1, ValueFacts
<1>3. Powers[1] = B /\ Powers[2] = B * B
  <2>1. /\ Powers[0] = 1 /\ Powers[0 + 1] = B * Powers[0] /\ Powers[1 + 1] = B * Powers[1]
    BY <1>1, PowersFacts
  <2> HIDE DEF B
  <2> QED
    BY <1>1, <2>1
<1>4. FP64!MaxMag = Limit
  <2>1. Limit + 1 = B * B
    BY <1>1, <1>3, LimitFacts
  <2> HIDE DEF B
  <2> QED
    BY <1>1, <1>2, <2>1 DEF FP64!MaxMag
<1>5. Unit = B
  <2>1. FW = 1
    BY DEF FW
  <2> QED
    BY <1>3, <2>1 DEF Unit
<1>6. FP64!WordOK
  BY <1>1 DEF FP64!WordOK
<1>7. Native(v) \in FP64!FP64s
  BY <1>2, <1>4 DEF Native, FP64!FP64s
<1>8. FP64!Value(Native(v)) = Value(v)
  BY DEF Native, FP64!Value, Value
<1> QED
  BY <1>2, <1>4, <1>5, <1>6, <1>7, <1>8 DEF Native

\* Without a negative zero the value is the number.
LEMMA SameNumber ==
  ASSUME FP64!WordOK, NEW x \in FP64!FP64s, NEW y \in FP64!FP64s,
         FP64!Value(x) = FP64!Value(y),
         x.neg => FP64!Value(x) < 0, y.neg => FP64!Value(y) < 0
  PROVE  x = y
<1>1. /\ x = [mag |-> x.mag, neg |-> x.neg] /\ x.neg \in BOOLEAN /\ x.mag \in Nat
      /\ y = [mag |-> y.mag, neg |-> y.neg] /\ y.neg \in BOOLEAN /\ y.mag \in Nat
  BY MaxMagNat DEF FP64!FP64s
<1>2. /\ x.neg => FP64!Value(x) = 0 - x.mag
      /\ ~x.neg => FP64!Value(x) = x.mag
      /\ y.neg => FP64!Value(y) = 0 - y.mag
      /\ ~y.neg => FP64!Value(y) = y.mag
  BY DEF FP64!Value
<1>n. x.mag \in Nat /\ y.mag \in Nat
  BY <1>1
<1>3. CASE x.neg
  <2>1. y.neg
    BY <1>2, <1>n, <1>3
  <2>2. x.mag = y.mag
    BY <1>2, <1>n, <1>3, <2>1
  <2> QED
    BY <1>1, <1>3, <2>1, <2>2
<1>4. CASE ~x.neg
  BY <1>2, <1>n, <1>4, <1>1
<1> QED
  BY <1>3, <1>4

\* The specializations for FPN<64> (FixedPointN.hpp:920-959) forward to FP64 in
\* the other build. For words of any width both give the same sum and difference,
\* sign of zero included, as long as it fits; the same product, saturated or not;
\* and the same comparisons.
THEOREM BuildsAgreeOnResults ==
  ASSUME FormatOK, N = 2, NEW a \in FPNs, NEW b \in FPNs
  PROVE  /\ Size(Value(a) + Value(b)) <= Limit
              => Native(AddSat(a, b)) = FP64!AddSat(Native(a), Native(b))
         /\ Size(Value(a) - Value(b)) <= Limit
              => Native(SubSat(a, b)) = FP64!SubSat(Native(a), Native(b))
         /\ Native(Mul(a, b)) = FP64!Mul(Native(a), Native(b))
         /\ LessThan(a, b) <=> FP64!LessThan(Native(a), Native(b))
         /\ Equal(a, b) <=> FP64!Equal(Native(a), Native(b))
<1> DEFINE x == Native(a)
           y == Native(b)
<1>1. /\ FP64!WordOK /\ FP64!MaxMag = Limit /\ Limit \in Nat /\ Unit = B
      /\ x \in FP64!FP64s /\ FP64!Value(x) = Value(a)
      /\ x.mag = Digits(a.w) /\ x.neg = a.neg
      /\ y \in FP64!FP64s /\ FP64!Value(y) = Value(b)
      /\ y.mag = Digits(b.w) /\ y.neg = b.neg
  BY NativeFacts
<1>2. /\ Value(a) \in Int /\ Size(Value(a)) = Digits(a.w) /\ Digits(a.w) \in Nat
      /\ Value(b) \in Int /\ Size(Value(b)) = Digits(b.w) /\ Digits(b.w) \in Nat
      /\ a.neg \in BOOLEAN /\ b.neg \in BOOLEAN
      /\ a.neg => Value(a) = 0 - Digits(a.w)
      /\ ~a.neg => Value(a) = Digits(a.w)
      /\ b.neg => Value(b) = 0 - Digits(b.w)
      /\ ~b.neg => Value(b) = Digits(b.w)
  <2>1. WordsOK
    BY FormatFacts
  <2> QED
    BY <2>1, ValueFacts
<1> HIDE DEF x, y
<1>3. ASSUME NEW n \in Int, Size(n) <= Limit, NEW p \in FP64!FP64s,
             FP64!Value(p) = Clamp(n), p.mag = 0 => ~p.neg
      PROVE  FP64!Value(p) = n /\ (p.neg => FP64!Value(p) < 0)
  BY <1>1, <1>3 DEF Clamp, Size, FP64!FP64s, FP64!Value
<1>4. ASSUME NEW r \in FPNs, NEW p \in FP64!FP64s, Value(r) = FP64!Value(p),
             r.neg => Value(r) < 0, p.neg => FP64!Value(p) < 0
      PROVE  Native(r) = p
  BY NativeFacts, <1>1, <1>4, SameNumber
<1>5. Size(Value(a) + Value(b)) <= Limit => Native(AddSat(a, b)) = FP64!AddSat(x, y)
  <2> SUFFICES ASSUME Size(Value(a) + Value(b)) <= Limit
               PROVE  Native(AddSat(a, b)) = FP64!AddSat(x, y)
    OBVIOUS
  <2>1. /\ AddSat(a, b) \in FPNs /\ Value(AddSat(a, b)) = Value(a) + Value(b)
        /\ AddSat(a, b).neg => Value(AddSat(a, b)) < 0
    BY SumsExactOrWrapped DEF ExactOrWrapped
  <2> DEFINE p == FP64!AddSat(x, y)
             n == Value(a) + Value(b)
  <2>2. p \in FP64!FP64s /\ FP64!Value(p) = Clamp(n) /\ (p.mag = 0 => ~p.neg)
    BY <1>1, AddSatClamps
  <2>3. n \in Int /\ Size(n) <= Limit
    BY <1>2
  <2> HIDE DEF p, n
  <2>4. FP64!Value(p) = n /\ (p.neg => FP64!Value(p) < 0)
    BY <1>3, <2>2, <2>3
  <2>5. Value(AddSat(a, b)) = n
    BY <2>1 DEF n
  <2>6. Native(AddSat(a, b)) = p
    BY <1>4, <2>1, <2>2, <2>4, <2>5
  <2> QED
    BY <2>6 DEF p
<1>6. Size(Value(a) - Value(b)) <= Limit => Native(SubSat(a, b)) = FP64!SubSat(x, y)
  <2> SUFFICES ASSUME Size(Value(a) - Value(b)) <= Limit
               PROVE  Native(SubSat(a, b)) = FP64!SubSat(x, y)
    OBVIOUS
  <2>1. /\ SubSat(a, b) \in FPNs /\ Value(SubSat(a, b)) = Value(a) - Value(b)
        /\ SubSat(a, b).neg => Value(SubSat(a, b)) < 0
    BY DifferencesExactOrWrapped DEF ExactOrWrapped
  <2> DEFINE p == FP64!SubSat(x, y)
             n == Value(a) - Value(b)
  <2>2. p \in FP64!FP64s /\ FP64!Value(p) = Clamp(n) /\ (p.mag = 0 => ~p.neg)
    BY <1>1, SubSatClamps
  <2>3. n \in Int /\ Size(n) <= Limit
    BY <1>2
  <2> HIDE DEF p, n
  <2>4. FP64!Value(p) = n /\ (p.neg => FP64!Value(p) < 0)
    BY <1>3, <2>2, <2>3
  <2>5. Value(SubSat(a, b)) = n
    BY <2>1 DEF n
  <2>6. Native(SubSat(a, b)) = p
    BY <1>4, <2>1, <2>2, <2>4, <2>5
  <2> QED
    BY <2>6 DEF p
<1>7. Native(Mul(a, b)) = FP64!Mul(x, y)
  <2> DEFINE q == (Digits(a.w) * Digits(b.w)) \div Unit
             r == Mul(a, b)
             p == FP64!Mul(x, y)
  <2>1. WordsOK /\ EvenWords
    BY FormatFacts
  <2>2. /\ Digits(r.w) = IF q > Limit THEN Limit ELSE q
        /\ r = [w |-> r.w, neg |-> a.neg # b.neg /\ ~MagIsZero(r.w)]
        /\ r.w \in Words
    BY <2>1, MulWords DEF FPNs, Unit
  <2>3. p.mag = IF q > Limit THEN Limit ELSE q
    BY <1>1, MulSaturates
  <2>4. p.neg = (x.neg # y.neg /\ p.mag # 0)
    BY <1>1, MulSaturates
  <2>5. p = [mag |-> p.mag, neg |-> p.neg]
    BY DEF FP64!Mul
  <2> HIDE DEF q, r, p
  <2>6. MagIsZero(r.w) <=> Digits(r.w) = 0
    BY <2>1, <2>2, MagIsZeroFacts
  <2>7. r.neg = p.neg
    BY <1>1, <2>2, <2>3, <2>4, <2>6
  <2>8. Digits(r.w) = p.mag
    BY <2>2, <2>3
  <2>9. Native(r) = p
    BY <2>5, <2>7, <2>8 DEF Native
  <2> QED
    BY <2>9 DEF r, p
<1>8. /\ LessThan(a, b) <=> FP64!LessThan(x, y)
      /\ Equal(a, b) <=> FP64!Equal(x, y)
  BY <1>1, ComparisonsOrderValues, WordComparisonsOrderValues
<1> QED
  BY <1>5, <1>6, <1>7, <1>8 DEF x, y

\* Whatever is shifted out of the remainder: the rounds set each bit of the
\* quotient at most once, and its words stay words.
LEMMA QuotientWords ==
  ASSUME FormatOK, NEW a \in Words, NEW d \in Words
  PROVE  Quotient(a, d) \in Words
<1> DEFINE t == N * Bits
           R == Rounds(a, d)
           Room(x, i) == R[x].q[i] + 2 ^ Left(x, i) <= B
           T == {x \in 0 .. t : \A i \in 0 .. N - 1 : Room(x, i)}
<1>1. /\ WordsOK /\ N \in Nat /\ N > 0 /\ N \in 0 .. 2 * N /\ Bits \in Nat /\ t \in Nat
      /\ B \in Nat /\ B > 1 /\ 2 * N \in 0 .. 2 * N
  BY FormatFacts DEF WordsOK
<1>2. /\ Quotient(a, d) = R[t].q
      /\ R[0] = [rem |-> FirstRemainder(a), q |-> ZeroWords]
      /\ \A x \in 0 .. t - 1 : R[x + 1] = NextRound(R[x], x, d)
      /\ \A x \in 0 .. t : R[x].rem \in Arrays(2 * N) /\ R[x].q \in [0 .. N - 1 -> Nat]
  BY RoundsFacts
<1>3. 0 \in 0 .. N * Bits - 1
  BY <1>1 DEF FormatOK
<1>6. ASSUME NEW x \in 0 .. t - 1, x \in T
      PROVE  x + 1 \in T
  <2> DEFINE r == R[x]
             v == ShiftLeft1(r.rem)
             c == CondSub(v, d)
             p == Place(x)
             e == 2 ^ Exponent(x)
             y == c.bit * e
             g == r.q
             h == [r.q EXCEPT ![p] = @ + y]
  <2>1. x \in 0 .. t /\ x + 1 \in 0 .. t
    BY <1>1
  <2>2. r.rem \in Arrays(2 * N) /\ r.q \in [0 .. N - 1 -> Nat] /\ R[x + 1] = NextRound(r, x, d)
    BY <1>2, <2>1
  <2>3. v \in Arrays(2 * N)
    BY <2>2, ShiftFacts
  <2> HIDE DEF v
  <2>4. c.bit \in {0, 1}
    BY <2>3, CondSubFacts DEF Bit
  <2>5. R[x + 1] = [rem |-> c.rem, q |-> h]
    BY <2>2 DEF NextRound, v
  <2>6. R[x + 1].q = h
    BY <2>5
  <2>7. p \in 0 .. N - 1 /\ Exponent(x) \in Nat /\ e \in Nat /\ 2 ^ (Exponent(x) + 1) = 2 * e
    BY PlaceFacts, PowersOfTwo
  <2> HIDE DEF c, p, e, R
  <2>8. y \in {0, e}
    BY <2>4, <2>7
  <2> HIDE DEF y
  <2>9. /\ g \in [0 .. N - 1 -> Nat] /\ h[p] = g[p] + y
        /\ \A i \in 0 .. N - 1 : i # p => h[i] = g[i]
    <3>1. g \in [0 .. N - 1 -> Nat] /\ g[p] \in Nat
      BY <2>2, <2>7
    <3>3. h = [g EXCEPT ![p] = g[p] + y]
      OBVIOUS
    <3> HIDE DEF g, h
    <3> QED
      BY <2>7, <3>1, <3>3
  <2>10. ASSUME NEW i \in 0 .. N - 1
         PROVE  Room(x + 1, i)
    <3>1. /\ Left(x, i) \in 0 .. Bits /\ Left(x + 1, i) \in 0 .. Bits
          /\ i # p => Left(x + 1, i) = Left(x, i)
          /\ i = p => Left(x, i) = Exponent(x) + 1 /\ Left(x + 1, i) = Exponent(x)
      BY LeftFacts DEF p
    <3>2. g[i] + 2 ^ Left(x, i) <= B
      BY <1>6
    <3> HIDE DEF g, h
    <3>3. CASE i # p
      BY <2>6, <2>9, <3>1, <3>2, <3>3
    <3>4. CASE i = p
      <4>1. g[i] + 2 * e <= B /\ g[i] \in Nat
        BY <2>7, <2>9, <3>1, <3>2, <3>4
      <4>2. h[i] = g[i] + y /\ 2 ^ Left(x + 1, i) = e
        BY <2>9, <3>1, <3>4 DEF e
      <4>3. h[i] + e <= B
        BY <1>1, <2>7, <2>8, <4>1, <4>2
      <4> QED
        BY <2>6, <4>2, <4>3
    <3> QED
      BY <3>3, <3>4
  <2> HIDE DEF Room
  <2> QED
    BY <2>1, <2>10
<1>7. 0 \in T
  <2>2. R[0].q = ZeroWords
    BY <1>2
  <2>4. ASSUME NEW i \in 0 .. N - 1 PROVE Room(0, i)
    <3>1. R[0].q[i] = 0
      BY <2>2 DEF ZeroWords
    <3>2. Left(0, i) = Bits
      BY <1>3, LeftFacts
    <3>3. 2 ^ Left(0, i) = B
      BY <3>2 DEF B
    <3> HIDE DEF R, B
    <3>4. 0 + B <= B
      BY <1>1
    <3> QED
      BY <3>1, <3>3, <3>4
  <2> HIDE DEF R, Room, t
  <2> QED
    BY <1>1, <2>4
<1>8. t \in T
  <2> HIDE DEF T, t
  <2>1. \A x \in 0 .. t : x # t /\ x \in T => (x + 1) \in T
    BY <1>1, <1>6
  <2>2. \A x \in 0 .. t : x \in T
    BY <1>1, <1>7, <2>1, IntervalInduction
  <2> QED
    BY <1>1, <2>2
<1>9. t \in 0 .. t
  BY <1>1
<1>10. \A i \in 0 .. N - 1 : Room(t, i)
  BY <1>8
<1>11. R[t].q \in [0 .. N - 1 -> Nat]
  BY <1>2, <1>9
<1>12. ASSUME NEW i \in 0 .. N - 1 PROVE R[t].q[i] \in 0 .. B - 1
  <2>1. Left(t, i) = 0
    BY <1>3, LeftFacts
  <2>2. 2 ^ 0 = 1
    OBVIOUS
  <2>3. R[t].q[i] + 1 <= B
    BY <1>10, <2>1, <2>2
  <2> DEFINE w == R[t].q[i]
  <2>4. w \in Nat /\ w + 1 <= B
    BY <1>11, <2>3
  <2> HIDE DEF w, B
  <2>5. w \in 0 .. B - 1
    BY <1>1, <2>4
  <2> QED
    BY <2>5 DEF w
<1> HIDE DEF R, t, B
<1>13. R[t].q \in [0 .. N - 1 -> 0 .. B - 1]
  BY <1>11, <1>12
<1> QED
  BY <1>2, <1>13 DEF Words

\* A number that is not a negative zero.
Proper(v) == v \in FPNs /\ ~NegativeZero(v)

\* A magnitude and a sign that a zero does not take.
LEMMA ProperNumber ==
  ASSUME NEW w \in Words, NEW p \in BOOLEAN
  PROVE  Proper([w |-> w, neg |-> p /\ ~MagIsZero(w)])
BY DEF Proper, NegativeZero, FPNs

\* A number whose sign says that it is below zero is not a negative zero.
LEMMA ProperValue ==
  ASSUME WordsOK, NEW v \in FPNs, v.neg => Value(v) < 0
  PROVE  Proper(v)
<1>1. v.neg \in BOOLEAN /\ (MagIsZero(v.w) <=> Digits(v.w) = 0)
      /\ (v.neg => Value(v) = 0 - Digits(v.w)) /\ Digits(v.w) \in Nat
  BY ValueFacts
<1> HIDE DEF Value, Digits, MagIsZero
<1>2. v.neg => ~MagIsZero(v.w)
  BY <1>1
<1> QED
  BY <1>2 DEF Proper, NegativeZero

\* One and the largest magnitude are not zero.
LEMMA OneFacts ==
  ASSUME FormatOK
  PROVE  /\ One \in FPNs /\ ~One.neg /\ One.w = UnitWords /\ Value(One) = Unit
         /\ ~MagIsZero(One.w) /\ ~MagIsZero(MaxWords) /\ Limit >= Unit
<1>1. WordsOK /\ EvenWords
  BY FormatFacts
<1>2. FW \in 0 .. N - 1 /\ N \in Nat /\ Unit \in Nat /\ Unit > 0 /\ FW \in Nat /\ B > 1 /\ B \in Nat
  BY <1>1, PointFacts
<1>3. UnitWords \in Words /\ Digits(UnitWords) = Unit
  BY <1>1, WholeFacts, ZeroFacts
<1>4. One.w = UnitWords /\ ~One.neg /\ One = [w |-> UnitWords, neg |-> FALSE]
  <2>1. [ZeroWords EXCEPT ![FW] = 1] = UnitWords
    <3> HIDE DEF FW
    <3> QED
      BY <1>2 DEF ZeroWords, UnitWords
  <2> QED
    BY <2>1 DEF One
<1>5. One \in FPNs /\ ~MagIsZero(One.w)
  BY <1>2, <1>3, <1>4, <1>1, MagIsZeroFacts DEF FPNs
<1>6. Value(One) = Unit
  BY <1>3, <1>4 DEF Value
<1>7. Unit <= Limit
  BY <1>1, <1>3, TailsRange
<1>8. ~MagIsZero(MaxWords)
  BY <1>1, MaxWordsFacts, <1>2, <1>7, MagIsZeroFacts DEF Limit
<1> QED
  BY <1>2, <1>4, <1>5, <1>6, <1>7, <1>8, MaxWordsFacts

\* FPN_DivNoAssert always gives a number, and no negative zero.
LEMMA QuotientsClosed ==
  ASSUME FormatOK, NEW a \in FPNs, NEW b \in FPNs
  PROVE  Proper(DivNoAssert(a, b))
<1>1. WordsOK
  BY FormatFacts
<1>2. a.w \in Words /\ b.w \in Words /\ a.neg \in BOOLEAN /\ b.neg \in BOOLEAN
  BY DEF FPNs
<1>3. CASE MagIsZero(b.w)
  BY <1>1, MaxWordsFacts, OneFacts, <1>3, <1>2 DEF DivNoAssert, Proper, NegativeZero, FPNs
<1>4. CASE ~MagIsZero(b.w)
  <2> DEFINE q == Quotient(a.w, b.w)
             p == (a.neg # b.neg)
  <2>1. q \in Words /\ p \in BOOLEAN
    BY <1>2, QuotientWords
  <2>2. DivNoAssert(a, b) = [w |-> q, neg |-> p /\ ~MagIsZero(q)]
    BY <1>4 DEF DivNoAssert
  <2> HIDE DEF q, p
  <2> QED
    BY <2>1, <2>2, ProperNumber
<1> QED
  BY <1>3, <1>4

\* The other operations do the same.
LEMMA SumsClosed ==
  ASSUME FormatOK, NEW a \in FPNs, NEW b \in FPNs
  PROVE  Proper(AddSat(a, b)) /\ Proper(SubSat(a, b)) /\ Proper(Mul(a, b))
<1>1. WordsOK
  BY FormatFacts
<1>2. Proper(AddSat(a, b))
  BY <1>1, SumsExactOrWrapped, ProperValue
<1>3. Proper(SubSat(a, b))
  BY <1>1, DifferencesExactOrWrapped, ProperValue
<1>4. Proper(Mul(a, b))
  BY <1>1, WordProductsSaturate, ProperValue
<1> QED
  BY <1>2, <1>3, <1>4

\* Whole parts are numbers; only Floor and Truncate may leave a negative zero.
LEMMA WholeClosed ==
  ASSUME FormatOK, NEW v \in FPNs
  PROVE  Floor(v) \in FPNs /\ Proper(Ceil(v)) /\ Proper(Round(v)) /\ Truncate(v) \in FPNs
<1>1. WordsOK /\ EvenWords
  BY FormatFacts
<1>2. v.w \in Words /\ v.neg \in BOOLEAN
  BY DEF FPNs
<1>3. \A p \in BOOLEAN : Bumped(v, p) \in Words
  BY <1>1, BumpedFacts
<1>4. /\ (v.neg /\ HasFrac(v)) \in BOOLEAN /\ (~v.neg /\ HasFrac(v)) \in BOOLEAN
      /\ (v.w[FW - 1] >= B \div 2) \in BOOLEAN
  BY DEF HasFrac
<1>5. Floor(v) \in FPNs
  BY <1>2, <1>3, <1>4 DEF Floor, FPNs
<1>6. Proper(Ceil(v))
  <2> DEFINE w == Bumped(v, ~v.neg /\ HasFrac(v))
  <2>1. w \in Words
    BY <1>3, <1>4
  <2>2. Ceil(v) = [w |-> w, neg |-> v.neg /\ ~MagIsZero(w)]
    BY DEF Ceil
  <2> HIDE DEF w
  <2> QED
    BY <1>2, <2>1, <2>2, ProperNumber
<1>7. Proper(Round(v))
  <2> DEFINE w == Bumped(v, v.w[FW - 1] >= B \div 2)
  <2>1. w \in Words
    BY <1>3, <1>4
  <2>2. Round(v) = [w |-> w, neg |-> v.neg /\ ~MagIsZero(w)]
    BY DEF Round
  <2> HIDE DEF w
  <2> QED
    BY <1>2, <2>1, <2>2, ProperNumber
<1>8. Truncate(v) \in FPNs
  BY <1>1, <1>2, WholeFacts DEF Truncate, WholeWords, FPNs
<1> QED
  BY <1>5, <1>6, <1>7, <1>8

\* Remainders and blends are numbers, and no negative zeros.
LEMMA ComposedClosed ==
  ASSUME FormatOK, NEW a \in FPNs, NEW b \in FPNs, NEW t \in FPNs
  PROVE  Proper(Mod(a, b)) /\ Proper(Lerp(a, b, t))
<1>1. DivNoAssert(a, b) \in FPNs
  BY QuotientsClosed DEF Proper
<1>2. Truncate(DivNoAssert(a, b)) \in FPNs
  BY <1>1, WholeClosed
<1>3. Mul(Truncate(DivNoAssert(a, b)), b) \in FPNs
  BY <1>2, SumsClosed DEF Proper
<1>4. Proper(Mod(a, b))
  BY <1>3, SumsClosed DEF Mod
<1>5. Mul(SubSat(b, a), t) \in FPNs
  BY SumsClosed DEF Proper
<1>6. Proper(Lerp(a, b, t))
  BY <1>5, SumsClosed DEF Lerp
<1> QED
  BY <1>4, <1>6

\* Changing the sign makes numbers; a negative zero only from a negative zero.
LEMMA GuardsClosed ==
  ASSUME FormatOK, NEW v \in FPNs
  PROVE  /\ Negate(v) \in FPNs /\ Proper(Abs(v)) /\ Proper(Sign(v))
         /\ NegativeZero(Negate(v)) => NegativeZero(v)
<1>1. WordsOK
  BY FormatFacts
<1>2. v.w \in Words /\ v.neg \in BOOLEAN /\ v = [w |-> v.w, neg |-> v.neg]
  BY DEF FPNs
<1>3. Negate(v) \in FPNs
  BY <1>1, NegateFacts
<1>4. NegativeZero(Negate(v)) => NegativeZero(v)
  BY <1>2 DEF Negate, NegativeZero
<1>5. Proper(Abs(v))
  BY <1>2 DEF Abs, FPNs, Proper, NegativeZero
<1>6. Proper(Sign(v))
  <2>1. Sign(v) \in FPNs
    BY GuardsPick
  <2>2. CASE MagIsZero(v.w)
    BY <2>1, <2>2 DEF Sign, Zero, Proper, NegativeZero
  <2>3. CASE ~MagIsZero(v.w)
    <3>1. Sign(v).w = One.w
      BY <2>3 DEF Sign, One
    <3> QED
      BY <2>1, <3>1, OneFacts DEF Proper, NegativeZero
  <2> QED
    BY <2>2, <2>3
<1> QED
  BY <1>3, <1>4, <1>5, <1>6

\* A quotient and a remainder are the ones.
DividesTo(m, d, q, r) == m = d * q + r => m \div d = q /\ m % d = r

\* Division with remainder is unique.
LEMMA Euclid ==
  ASSUME NEW d \in Nat, d > 0, NEW q \in Int, NEW r \in 0 .. d - 1, NEW m \in Int
  PROVE  DividesTo(m, d, q, r)
<1> SUFFICES ASSUME m = d * q + r PROVE m \div d = q /\ m % d = r
  BY DEF DividesTo
<1> DEFINE x == m \div d  y == m % d
<1>1. x \in Int /\ y \in 0 .. d - 1 /\ m = d * x + y
  OBVIOUS
<1> HIDE DEF x, y
<1>2. d * (x - q) = r - y
  BY <1>1
<1> DEFINE z == x - q
<1>3. z \in Int /\ d * z = r - y
  BY <1>1, <1>2
<1> HIDE DEF z
<1>4. z = 0
  <2>1. ~(z >= 1)
    BY <1>3, <1>1
  <2>2. ~(z <= 0 - 1)
    BY <1>3, <1>1
  <2> QED
    BY <1>3, <2>1, <2>2
<1>5. x = q /\ y = r
  <2>1. d * z = 0
    BY <1>4
  <2> QED
    BY <1>1, <1>3, <1>4, <2>1 DEF z
<1> QED
  BY <1>5 DEF x, y

-----------------------------------------------------------------------------
(* Doubles and the other build's numbers: out and back.                     *)

\* Powers of two are ordered as their exponents.
LEMMA PowersPositive ==
  ASSUME NEW e \in Nat
  PROVE  2 ^ e \in Nat /\ 2 ^ e > 0
<1> DEFINE P(i) == 2 ^ i
           T == {i \in 0 .. e : P(i) > 0}
<1>1. \A i \in Nat : P(i) \in Nat /\ P(i + 1) = 2 * P(i)
  BY PowersOfTwo
<1>2. P(0) = 1
  OBVIOUS
<1> HIDE DEF P
<1>3. 0 \in T /\ \A i \in 0 .. e : i # e /\ i \in T => (i + 1) \in T
  BY <1>1, <1>2
<1> HIDE DEF T
<1>4. \A i \in 0 .. e : i \in T
  BY <1>3, IntervalInduction
<1>5. P(e) > 0
  BY <1>4 DEF T
<1> QED
  BY <1>1, <1>5 DEF P

\* The spacing of doubles is a power of two, no larger than the bits ask for.
IsSpacing(u, p, d, bits) ==
  \E k \in Nat : u = 2 ^ k /\ (k = 0 \/ p >= d * 2 ^ (k - 1 + bits))

LEMMA SpacingFacts ==
  ASSUME DoublesOK, NEW p \in Nat, NEW d \in Nat, NEW bits \in Nat
  PROVE  IsSpacing(Spacing(p, d, bits), p, d, bits)
<1> DEFINE Is(f) == f = [e \in 0 .. Exponents |->
                      IF e = 0 THEN 1
                      ELSE IF p >= d * 2 ^ (e - 1 + bits) THEN 2 ^ e ELSE f[e - 1]]
           up == CHOOSE f : Is(f)
           OKs == {u \in Nat : IsSpacing(u, p, d, bits)}
           step == [e \in 1 .. Exponents |-> [v \in OKs |->
                      IF p >= d * 2 ^ (e - 1 + bits) THEN 2 ^ e ELSE v]]
<1>1. Exponents \in Nat
  BY DEF DoublesOK
<1>2. 1 \in OKs
  <2>1. 1 = 2 ^ 0
    OBVIOUS
  <2> QED
    BY <2>1 DEF IsSpacing
<1>3. step \in [1 .. Exponents -> [OKs -> OKs]]
  BY PowersOfTwo DEF IsSpacing
<1> HIDE DEF OKs
<1>4. PICK f : Iterates(f, Exponents, OKs, 1, step)
  <2> HIDE DEF step
  <2> QED
    BY <1>1, <1>2, <1>3, Iteration
<1>5. \A e \in 1 .. Exponents :
         f[e] = IF p >= d * 2 ^ (e - 1 + bits) THEN 2 ^ e ELSE f[e - 1]
  <2> SUFFICES ASSUME NEW e \in 1 .. Exponents
               PROVE  f[e] = IF p >= d * 2 ^ (e - 1 + bits) THEN 2 ^ e ELSE f[e - 1]
    OBVIOUS
  <2>1. e - 1 \in 0 .. Exponents
    BY <1>1
  <2>2. f[e - 1] \in OKs /\ f[e] = step[e][f[e - 1]]
    <3> HIDE DEF step
    <3> QED
      BY <1>4, <2>1 DEF Iterates
  <2> QED
    BY <2>2
<1>6. Is(f)
  BY <1>1, <1>4, <1>5 DEF Iterates
<1>7. Is(up)
  <2> HIDE DEF Is
  <2> QED
    BY <1>6
<1> DEFINE T == {e \in 0 .. Exponents : up[e] \in OKs}
<1>8. \A e \in 0 .. Exponents :
         up[e] = IF e = 0 THEN 1
                 ELSE IF p >= d * 2 ^ (e - 1 + bits) THEN 2 ^ e ELSE up[e - 1]
  <2> HIDE DEF up
  <2> QED
    BY <1>7
<1> HIDE DEF up
<1>9. 0 \in T
  BY <1>1, <1>2, <1>8
<1>10. \A e \in 0 .. Exponents : e # Exponents /\ e \in T => (e + 1) \in T
  <2> SUFFICES ASSUME NEW e \in 0 .. Exponents, e # Exponents, e \in T
               PROVE  up[e + 1] \in OKs
    BY <1>1
  <2>1. e + 1 \in 1 .. Exponents /\ (e + 1) - 1 = e /\ up[e] \in OKs
    BY <1>1
  <2>2. up[e + 1] = step[e + 1][up[e]]
    BY <1>8, <2>1
  <2> HIDE DEF step
  <2> QED
    BY <1>3, <2>1, <2>2
<1> HIDE DEF T
<1>11. Exponents \in T
  BY <1>1, <1>9, <1>10, IntervalInduction
<1>12. Spacing(p, d, bits) = up[Exponents]
  BY DEF Spacing, up
<1> QED
  BY <1>11, <1>12 DEF T, OKs

\* Powers of two are ordered as their exponents.
LEMMA PowersOrdered ==
  ASSUME NEW a \in Nat, NEW b \in Nat, a <= b
  PROVE  2 ^ b = 2 ^ a * 2 ^ (b - a) /\ 2 ^ a <= 2 ^ b
<1>1. b - a \in Nat /\ a + (b - a) = b
  OBVIOUS
<1>2. 2 ^ (a + (b - a)) = 2 ^ a * 2 ^ (b - a)
  BY <1>1, ExponentsAdd
<1> DEFINE x == 2 ^ a  y == 2 ^ (b - a)
<1>3. x \in Nat /\ y \in Nat /\ y > 0
  BY <1>1, PowersPositive
<1>4. x <= x * y
  <2> HIDE DEF x, y
  <2>1. y - 1 \in Nat /\ x * (y - 1) \in Nat /\ x * y = x * (y - 1) + x
    BY <1>3
  <2> QED
    BY <1>3, <2>1
<1> QED
  BY <1>1, <1>2, <1>4

\* What is rounded is off by no more than half the spacing.
LEMMA RoundedFacts ==
  ASSUME DoublesOK, NEW p \in Nat, NEW bits \in Nat
  PROVE  LET r == Rounded(p, 1, bits)
         IN  r \in Nat /\ Size(r - p) * 2 ^ bits <= p
<1> DEFINE u == Spacing(p, 1, bits)
           y == 1 * u
           q == p \div y
           x == NearestEven(p, y)
           r == Rounded(p, 1, bits)
           h == Size(r - p)
           P(e) == 2 ^ e
<1>1. PICK k \in Nat : u = P(k) /\ (k = 0 \/ p >= 1 * P(k - 1 + bits))
  BY SpacingFacts DEF IsSpacing
<1>2. u \in Nat /\ u > 0 /\ y = u
  BY <1>1, PowersPositive
<1> HIDE DEF u, P
<1>3. q \in Nat /\ p % y \in 0 .. u - 1 /\ p = u * q + (p % y)
  BY <1>2
<1>4. \/ x = q /\ 2 * (p % y) <= u
      \/ x = q + 1 /\ 2 * (p % y) >= u
  BY <1>2, <1>3 DEF NearestEven
<1>5. r = u * x
  BY <1>2 DEF Rounded, u
<1> HIDE DEF r, x, q, y
<1>6. r \in Nat /\ 2 * h <= u
  <2> DEFINE m == p % y
  <2>1. m \in Nat /\ m < u /\ p = u * q + m
    BY <1>2, <1>3
  <2> HIDE DEF m
  <2>2. CASE x = q /\ 2 * m <= u
    BY <1>2, <1>3, <1>5, <2>1, <2>2 DEF Size
  <2>3. CASE x = q + 1 /\ 2 * m >= u
    BY <1>2, <1>3, <1>5, <2>1, <2>3 DEF Size
  <2> QED
    BY <1>4, <2>2, <2>3 DEF m
<1>7. h \in Nat
  BY <1>6 DEF Size
<1> HIDE DEF h
<1>8. h * P(bits) <= p
  <2>1. P(bits) \in Nat
    BY PowersPositive DEF P
  <2>2. CASE k = 0
    BY <1>1, <2>2, <1>6, <1>7, <2>1 DEF P
  <2>3. CASE k # 0
    <3> DEFINE c == P(k - 1)
    <3>1. k - 1 \in Nat /\ (k - 1) + 1 = k /\ k - 1 + bits = (k - 1) + bits
      BY <2>3
    <3>2. c \in Nat /\ P(k) = 2 * c /\ P(k - 1 + bits) = c * P(bits)
      BY <3>1, PowersOfTwo, ExponentsAdd DEF P
    <3> HIDE DEF c
    <3>3. h <= c
      BY <1>1, <1>6, <1>7, <3>2
    <3>4. h * P(bits) <= c * P(bits)
      BY <1>7, <2>1, <3>2, <3>3
    <3>5. p >= c * P(bits)
      BY <1>1, <2>1, <2>3, <3>2
    <3> QED
      BY <1>7, <2>1, <3>2, <3>4, <3>5
  <2> QED
    BY <2>2, <2>3
<1> QED
  BY <1>6, <1>8 DEF r, h, P

\* A number of at most some bits, times a power of two.
FitsIn(n, bits) == \E e \in Nat : n % 2 ^ e = 0 /\ n < 2 ^ (e + bits)

\* A quotient that fits is not rounded.
LEMMA RoundExact ==
  ASSUME DoublesOK, NEW n \in Nat, NEW d \in Nat, d > 0, NEW bits \in Nat,
         FitsIn(n, bits)
  PROVE  Rounded(d * n, d, bits) = n
<1> DEFINE p == d * n
           u == Spacing(p, d, bits)
           y == d * u
           P(i) == 2 ^ i
<1>1. p \in Nat
  OBVIOUS
<1>2. PICK k \in Nat : u = P(k) /\ (k = 0 \/ p >= d * P(k - 1 + bits))
  <2> HIDE DEF p
  <2> QED
    BY <1>1, SpacingFacts DEF IsSpacing
<1>3. PICK e \in Nat : n % P(e) = 0 /\ n < P(e + bits)
  BY DEF FitsIn
<1>4. k <= e
  <2> SUFFICES ASSUME k > e PROVE FALSE
    BY <1>2, <1>3
  <2>1. e + bits \in Nat /\ k - 1 + bits \in Nat /\ e + bits <= k - 1 + bits /\ k # 0
    BY <1>2, <1>3
  <2>2. P(e + bits) <= P(k - 1 + bits) /\ P(e + bits) \in Nat /\ P(k - 1 + bits) \in Nat
    BY <2>1, PowersOrdered, PowersPositive
  <2>3. d * n >= d * P(k - 1 + bits)
    BY <1>2, <2>1
  <2> DEFINE z == P(k - 1 + bits)
  <2>4. z \in Nat /\ n < z /\ d * n >= d * z
    BY <1>3, <2>2, <2>3
  <2> HIDE DEF z
  <2>5. d * (z - n) >= d
    BY <2>4
  <2>6. d * (z - n) = d * z - d * n /\ d * z \in Nat /\ d * n \in Nat
    BY <2>4
  <2> QED
    BY <2>4, <2>5, <2>6
<1>5. P(e) = P(k) * P(e - k) /\ P(k) \in Nat /\ P(k) > 0 /\ P(e - k) \in Nat
      /\ P(e) \in Nat /\ P(e) > 0
  <2>1. e - k \in Nat
    BY <1>4
  <2> QED
    BY <1>4, <2>1, PowersOrdered, PowersPositive
<1> HIDE DEF P, u
<1> DEFINE c == n \div P(e)
           z == P(e - k) * c
<1>6. n = u * z /\ z \in Nat
  <2>1. c \in Nat /\ n = P(e) * c
    BY <1>3, <1>5
  <2> HIDE DEF c
  <2> QED
    BY <1>2, <1>5, <2>1
<1> HIDE DEF z
<1>7. y \in Nat /\ y > 0 /\ p = y * z + 0
  BY <1>2, <1>5, <1>6
<1> HIDE DEF y, p
<1>8. p \div y = z /\ p % y = 0
  BY <1>1, <1>6, <1>7, Euclid DEF DividesTo
<1>9. NearestEven(p, y) = z
  BY <1>7, <1>8 DEF NearestEven
<1>10. Rounded(p, d, bits) = u * z
  BY <1>9 DEF Rounded, y, u
<1> QED
  BY <1>6, <1>10 DEF p

\* More bits take it, too.
LEMMA MoreBits ==
  ASSUME NEW n \in Nat, NEW bits \in Nat, NEW more \in Nat, bits <= more, FitsIn(n, bits)
  PROVE  FitsIn(n, more)
<1>1. PICK e \in Nat : n % 2 ^ e = 0 /\ n < 2 ^ (e + bits)
  BY DEF FitsIn
<1>2. 2 ^ (e + bits) <= 2 ^ (e + more) /\ 2 ^ (e + bits) \in Nat /\ 2 ^ (e + more) \in Nat
  BY PowersOrdered, PowersPositive
<1>3. n < 2 ^ (e + more)
  BY <1>1, <1>2
<1> QED
  BY <1>1, <1>3 DEF FitsIn

\* The words of a number that fits.
LEMMA HalvesFit ==
  ASSUME FormatOK, NEW n \in Nat, NEW bits \in Nat, FitsIn(n, bits)
  PROVE  FitsIn(n \div B, bits) /\ FitsIn(n % B, bits)
<1> DEFINE P(i) == 2 ^ i
           h == n \div B
           l == n % B
<1>1. B = P(Bits) /\ Bits \in Nat /\ B \in Nat /\ B > 1
  BY FormatFacts DEF B, WordsOK
<1>2. PICK e \in Nat : n % P(e) = 0 /\ n < P(e + bits)
  BY DEF FitsIn
<1>3. h \in Nat /\ l \in Nat /\ l < B /\ n = B * h + l
  <2>1. B \in Nat /\ B > 0
    BY <1>1
  <2> HIDE DEF B
  <2> QED
    BY <2>1
<1> HIDE DEF h, l, B
<1> DEFINE c == n \div P(e)
<1>4. P(e) \in Nat /\ P(e) > 0 /\ P(bits) \in Nat /\ P(bits) > 0 /\ P(e + bits) = P(e) * P(bits)
  BY PowersPositive, ExponentsAdd
<1>5. c \in Nat /\ n = P(e) * c
  <2> HIDE DEF P
  <2> QED
    BY <1>2, <1>4
<1>6. P(0) = 1
  OBVIOUS
<1> HIDE DEF c, P
<1>7. CASE e >= Bits
  <2> DEFINE f == e - Bits
  <2>1. f \in Nat /\ P(e) = B * P(f) /\ P(f) \in Nat /\ P(f) > 0 /\ P(f + bits) = P(f) * P(bits)
    BY <1>1, <1>7, PowersOrdered, PowersPositive, ExponentsAdd DEF P
  <2> HIDE DEF f
  <2>2. n = B * (P(f) * c) + 0 /\ P(f) * c \in Nat
    BY <1>1, <1>5, <2>1
  <2>3. h = P(f) * c /\ l = 0
    BY <1>1, <2>2, Euclid DEF DividesTo, h, l
  <2>4. h % P(f) = 0
    <3>1. 0 \in 0 .. P(f) - 1 /\ h = P(f) * c + 0 /\ P(f) \in Nat /\ P(f) > 0
          /\ c \in Int /\ h \in Int
      BY <1>3, <1>5, <2>1, <2>3
    <3>2. DividesTo(h, P(f), c, 0)
      BY <3>1, Euclid
    <3> QED
      BY <3>1, <3>2 DEF DividesTo
  <2>5. h < P(f + bits)
    <3> DEFINE z == P(f) * P(bits)
    <3>1. z \in Nat /\ P(e + bits) = B * z
      BY <1>1, <1>4, <2>1
    <3> HIDE DEF z
    <3>2. n = B * h /\ B * h < B * z
      BY <1>1, <1>3, <2>3, <1>2, <3>1
    <3> SUFFICES ASSUME h >= z PROVE FALSE
      BY <1>3, <2>1, <3>1 DEF z
    <3>3. h - z \in Nat /\ B * (h - z) \in Nat /\ B * h = B * z + B * (h - z)
      BY <1>1, <1>3, <3>1
    <3> QED
      BY <1>1, <1>3, <3>1, <3>2, <3>3
  <2>6. l % P(0) = 0 /\ l < P(0 + bits)
    BY <1>4, <1>6, <2>3
  <2> QED
    BY <2>1, <2>4, <2>5, <2>6 DEF FitsIn, P, h, l
<1>8. CASE e < Bits
  <2>1. Bits - e \in Nat /\ B = P(e) * P(Bits - e) /\ P(Bits - e) \in Nat
    BY <1>1, <1>8, PowersOrdered, PowersPositive DEF P
  <2> DEFINE g == P(Bits - e)
             z == c - g * h
  <2>2. l = P(e) * z + 0 /\ z \in Int
    BY <1>3, <1>4, <1>5, <2>1, <1>1
  <2> HIDE DEF z
  <2>3. l % P(e) = 0
    BY <1>3, <1>4, <2>2, Euclid DEF DividesTo
  <2>4. B * h \in Nat /\ l < P(e + bits)
    BY <1>1, <1>2, <1>3, <1>4
  <2>5. h % P(0) = 0 /\ h < P(0 + bits)
    <3>1. B * h < P(e) * P(bits)
      BY <1>1, <1>2, <1>3, <1>4
    <3>2. P(e) * P(bits) <= B * P(bits)
      BY <1>1, <1>8, PowersOrdered, <1>4 DEF P
    <3> SUFFICES ASSUME h >= P(bits) PROVE FALSE
      BY <1>3, <1>4, <1>6
    <3>3. B * h = B * P(bits) + B * (h - P(bits)) /\ B * (h - P(bits)) \in Nat
      BY <1>1, <1>3, <1>4
    <3> QED
      BY <1>1, <1>3, <1>4, <3>1, <3>2, <3>3
  <2> QED
    BY <2>3, <2>4, <2>5 DEF FitsIn, P, h, l
<1> QED
  BY <1>1, <1>2, <1>7, <1>8

\* What a conversion to a double does to a whole number.
LEMMA AsDoubleFacts ==
  ASSUME DoublesOK, NEW n \in Nat
  PROVE  /\ AsDouble(n) \in Nat /\ Size(AsDouble(n) - n) * 2 ^ Mantissa <= n
         /\ FitsIn(n, Mantissa) => AsDouble(n) = n
<1>1. Mantissa \in Nat
  BY DEF DoublesOK
<1>2. AsDouble(n) \in Nat /\ Size(AsDouble(n) - n) * 2 ^ Mantissa <= n
  BY <1>1, RoundedFacts DEF AsDouble
<1>3. ASSUME FitsIn(n, Mantissa) PROVE AsDouble(n) = n
  BY <1>1, <1>3, RoundExact DEF AsDouble
<1> QED
  BY <1>2, <1>3

\* The words of a number of two, converted and added.
TwoRounds(n) == AsDouble(AsDouble(n \div B) * B + AsDouble(n % B))

LEMMA RoundsNear ==
  ASSUME FormatOK, DoublesOK, NEW n \in Nat
  PROVE  /\ TwoRounds(n) \in Nat /\ Size(TwoRounds(n) - n) * 2 ^ Mantissa <= 3 * n
         /\ FitsIn(n, Mantissa) => TwoRounds(n) = n
<1> DEFINE h == n \div B  l == n % B  x == AsDouble(h)  y == AsDouble(l)
           s == x * B + y  r == AsDouble(s)  P == 2 ^ Mantissa
<1>1. B \in Nat /\ B > 1 /\ Mantissa \in Nat
  BY FormatFacts DEF WordsOK, DoublesOK
<1> HIDE DEF B
<1>2. h \in Nat /\ l \in Nat /\ n = B * h + l
  BY <1>1
<1>3. FitsIn(n, Mantissa) => FitsIn(h, Mantissa) /\ FitsIn(l, Mantissa)
  BY <1>1, HalvesFit
<1> HIDE DEF h, l
<1>4. /\ x \in Nat /\ Size(x - h) * P <= h /\ (FitsIn(h, Mantissa) => x = h)
      /\ y \in Nat /\ Size(y - l) * P <= l /\ (FitsIn(l, Mantissa) => y = l)
  BY <1>2, AsDoubleFacts
<1> HIDE DEF x, y
<1>5. s \in Nat
  BY <1>1, <1>4
<1> HIDE DEF s
<1>6. r \in Nat /\ Size(r - s) * P <= s /\ (FitsIn(s, Mantissa) => r = s)
  BY <1>5, AsDoubleFacts
<1> HIDE DEF r
<1>7. P \in Nat /\ P > 0
  BY <1>1, PowersPositive
<1> HIDE DEF P
<1> DEFINE a == Size(x - h)  b == Size(y - l)  c == Size(r - s)  d == Size(s - n)
<1>8. /\ a \in Nat /\ (x - h = a \/ x - h = 0 - a) /\ b \in Nat /\ (y - l = b \/ y - l = 0 - b)
      /\ c \in Nat /\ (r - s = c \/ r - s = 0 - c) /\ a * P <= h /\ b * P <= l /\ c * P <= s
  BY <1>2, <1>4, <1>5, <1>6 DEF Size
<1>9. d \in Nat /\ (s - n = d \/ s - n = 0 - d)
  BY <1>2, <1>5 DEF Size
<1> HIDE DEF a, b, c
<1>10. d <= a * B + b
  <2>1. x * B - h * B = (x - h) * B /\ x * B \in Nat /\ h * B \in Nat /\ h * B = B * h
    BY <1>1, <1>2, <1>4
  <2>2. (x - h) * B = a * B \/ (x - h) * B = 0 - a * B
    BY <1>1, <1>8
  <2>3. a * B \in Nat /\ s - n = (x * B - h * B) + (y - l)
    BY <1>1, <1>2, <1>4, <1>8, <2>1 DEF s
  <2> HIDE DEF d
  <2> QED
    BY <1>2, <1>4, <1>8, <1>9, <2>1, <2>2, <2>3
<1> HIDE DEF d
<1>11. d * P <= n
  BY <1>1, <1>2, <1>7, <1>8, <1>9, <1>10
<1>12. d <= n
  BY <1>7, <1>9, <1>11
<1>13. Size(r - n) \in Nat /\ Size(r - n) <= c + d
  BY <1>5, <1>6, <1>8, <1>9 DEF Size
<1>14. Size(r - n) * P <= 3 * n
  <2> DEFINE e == Size(r - n)
  <2> HIDE DEF e
  <2>1. e * P <= (c + d) * P /\ (c + d) * P = c * P + d * P
    BY <1>7, <1>8, <1>9, <1>13 DEF e
  <2>2. e * P \in Nat /\ c * P \in Nat /\ d * P \in Nat /\ s <= n + d
    BY <1>5, <1>7, <1>8, <1>9, <1>13 DEF e
  <2> QED
    BY <1>5, <1>8, <1>9, <1>11, <1>12, <2>1, <2>2 DEF e
<1>15. FitsIn(n, Mantissa) => r = n
  BY <1>1, <1>2, <1>3, <1>4, <1>6 DEF s
<1> QED
  BY <1>6, <1>14, <1>15 DEF r, s, x, y, h, l, P, TwoRounds

\* What FPN_ToDouble makes of the words.
LEMMA DoubleWritten ==
  ASSUME FormatOK, DoublesOK, NEW v \in FPNs
  PROVE  /\ ToDouble(v).neg = v.neg /\ ToDouble(v).m \in Nat
         /\ N = 2 => ToDouble(v).m = TwoRounds(Digits(v.w)) * (B * B)
<1> DEFINE d(i) == AsDouble(v.w[i])
           n == N - 1 - FW
           Is(f) == f = [i \in FW .. N - 1 |->
                           IF i = FW THEN d(i) ELSE AsDouble(f[i - 1] + d(i) * Powers[i - FW])]
           int == CHOOSE f : Is(f)
           step == [k \in 1 .. n |-> [x \in Nat |-> AsDouble(x + d(FW + k) * Powers[k])]]
<1>1. WordsOK /\ N \in Nat /\ FW \in Nat /\ FW > 0 /\ FW < N /\ v.w \in Words /\ B \in Nat
      /\ B > 1 /\ n \in Nat /\ FW + FW = N
  BY FormatFacts, PointFacts DEF FPNs, WordsOK
<1> HIDE DEF FW, B
<1>2. \A i \in 0 .. N - 1 : v.w[i] \in 0 .. B - 1 /\ v.w[i] \in Nat /\ d(i) \in Nat
  <2> SUFFICES ASSUME NEW i \in 0 .. N - 1
               PROVE  v.w[i] \in 0 .. B - 1 /\ v.w[i] \in Nat /\ d(i) \in Nat
    OBVIOUS
  <2>1. v.w[i] \in 0 .. B - 1 /\ v.w[i] \in Nat
    BY <1>1 DEF Words
  <2> QED
    BY <2>1, AsDoubleFacts
<1> HIDE DEF d
<1>3. step \in [1 .. n -> [Nat -> Nat]]
  <2> SUFFICES ASSUME NEW k \in 1 .. n, NEW x \in Nat
               PROVE  AsDouble(x + d(FW + k) * Powers[k]) \in Nat
    OBVIOUS
  <2>1. FW + k \in 0 .. N - 1 /\ k \in 0 .. 2 * N
    BY <1>1
  <2>2. d(FW + k) \in Nat /\ Powers[k] \in Nat
    BY <1>1, <1>2, <2>1, PowersFacts
  <2>3. x + d(FW + k) * Powers[k] \in Nat
    BY <2>2
  <2> QED
    BY <2>3, AsDoubleFacts
<1> HIDE DEF n
<1>4. PICK g : Iterates(g, n, Nat, d(FW), step)
  <2>1. d(FW) \in Nat
    BY <1>1, <1>2
  <2> HIDE DEF step
  <2> QED
    BY <1>1, <1>3, <2>1, Iteration
<1>5. /\ g \in [0 .. n -> Nat] /\ g[0] = d(FW)
      /\ \A k \in 1 .. n : g[k] = AsDouble(g[k - 1] + d(FW + k) * Powers[k])
  <2> SUFFICES ASSUME NEW k \in 1 .. n
               PROVE  g[k] = AsDouble(g[k - 1] + d(FW + k) * Powers[k])
    BY <1>4 DEF Iterates
  <2>1. k - 1 \in 0 .. n
    BY <1>1
  <2>2. g[k] = step[k][g[k - 1]] /\ g[k - 1] \in Nat
    <3> HIDE DEF step
    <3> QED
      BY <1>4, <2>1 DEF Iterates
  <2> QED
    BY <2>2
<1> DEFINE h == [i \in FW .. N - 1 |-> g[i - FW]]
<1>6. \A i \in FW .. N - 1 :
         h[i] = IF i = FW THEN d(i) ELSE AsDouble(h[i - 1] + d(i) * Powers[i - FW])
  <2> SUFFICES ASSUME NEW i \in FW .. N - 1
               PROVE  h[i] = IF i = FW THEN d(i)
                             ELSE AsDouble(h[i - 1] + d(i) * Powers[i - FW])
    OBVIOUS
  <2>1. CASE i = FW
    <3>1. i - FW = 0
      BY <1>1, <2>1
    <3> QED
      BY <1>5, <2>1, <3>1
  <2>2. CASE i # FW
    BY <1>1, <2>2, <1>5 DEF n
  <2> QED
    BY <2>1, <2>2
<1>7. Is(h)
  BY <1>6
<1>8. Is(int)
  <2> HIDE DEF Is, h
  <2> QED
    BY <1>7
<1> HIDE DEF int
<1> DEFINE T == {k \in 0 .. n : int[FW + k] \in Nat}
<1>9. int[FW] = d(FW)
  BY <1>1, <1>8
<1>10. 0 \in T
  <2>1. FW + 0 = FW
    BY <1>1
  <2> QED
    BY <1>1, <1>2, <1>9, <2>1
<1>11. \A k \in 0 .. n : k # n /\ k \in T => (k + 1) \in T
  <2> SUFFICES ASSUME NEW k \in 0 .. n, k # n, k \in T PROVE int[FW + (k + 1)] \in Nat
    BY <1>1
  <2>1. k + 1 \in 1 .. n /\ FW + (k + 1) \in FW .. N - 1 /\ FW + (k + 1) # FW
        /\ (FW + (k + 1)) - 1 = FW + k /\ (FW + (k + 1)) - FW = k + 1
    BY <1>1 DEF n
  <2>2. int[FW + (k + 1)] = step[k + 1][int[FW + k]] /\ int[FW + k] \in Nat
    BY <1>8, <2>1
  <2> HIDE DEF step
  <2> QED
    BY <1>3, <2>1, <2>2
<1> HIDE DEF T
<1>12. int[N - 1] \in Nat
  <2>1. n \in T
    BY <1>1, <1>10, <1>11, IntervalInduction
  <2>2. FW + n = N - 1
    BY <1>1 DEF n
  <2> QED
    BY <2>1, <2>2 DEF T
<1> DEFINE s == int[N - 1] * B * B + AsDouble(d(FW - 1) * B + d(FW - 2))
           t == int[N - 1] * B + d(FW - 1)
<1>13. ToDouble(v) = [neg |-> v.neg, m |-> IF FW >= 2 THEN AsDouble(s) * B
                                          ELSE AsDouble(t) * B * B]
  BY DEF ToDouble, int, d
<1>14. t \in Nat /\ AsDouble(t) \in Nat /\ (FW >= 2 => AsDouble(s) \in Nat)
  <2>1. d(FW - 1) \in Nat /\ (FW >= 2 => d(FW - 2) \in Nat)
    BY <1>1, <1>2
  <2>2. t \in Nat
    BY <1>1, <1>12, <2>1
  <2>3. ASSUME FW >= 2 PROVE s \in Nat
    BY <1>1, <2>1, <2>3, AsDoubleFacts, <1>12
  <2> HIDE DEF s, t
  <2> QED
    BY <2>2, <2>3, AsDoubleFacts
<1> HIDE DEF s
<1>15. ToDouble(v).neg = v.neg /\ ToDouble(v).m \in Nat
  <2> HIDE DEF t
  <2> QED
    BY <1>1, <1>13, <1>14
<1>16. ASSUME N = 2 PROVE ToDouble(v).m = TwoRounds(Digits(v.w)) * (B * B)
  <2>1. FW = 1 /\ N - 1 = FW /\ t = d(1) * B + d(0)
    BY <1>1, <1>9, <1>16
  <2>2. Digits(v.w) = B * v.w[1] + v.w[0] /\ Digits(v.w) \in Nat /\ v.w[1] \in Nat
        /\ v.w[0] \in 0 .. B - 1
    <3> DEFINE u == Tails(v.w, N)
    <3>1. u[0] = v.w[0] + B * u[0 + 1] /\ u[1] = v.w[1] + B * u[1 + 1] /\ u[2] = 0
          /\ Digits(v.w) = u[0] /\ Digits(v.w) \in Nat
      BY <1>1, <1>16, MagnitudeFacts
    <3>2. v.w[1] \in Nat /\ v.w[0] \in 0 .. B - 1
      BY <1>1, <1>2, <1>16
    <3> HIDE DEF u
    <3> QED
      BY <1>1, <3>1, <3>2
  <2>3. Digits(v.w) \div B = v.w[1] /\ Digits(v.w) % B = v.w[0]
    <3> HIDE DEF Digits
    <3> QED
      BY <1>1, <2>2, Euclid DEF DividesTo
  <2>4. AsDouble(t) = TwoRounds(Digits(v.w))
    BY <2>1, <2>3 DEF TwoRounds, d
  <2>5. ToDouble(v).m = AsDouble(t) * B * B /\ AsDouble(t) \in Nat
    BY <1>13, <1>14, <2>1
  <2> HIDE DEF t
  <2> QED
    BY <1>1, <2>4, <2>5
<1> QED
  BY <1>15, <1>16

\* What FPN_FromDouble makes of a double whose integer part fits one word.
LEMMA DoubleTaken ==
  ASSUME FormatOK, NEW m \in Nat, m < B * B * B * B, NEW p \in BOOLEAN
  PROVE  LET r == FromDouble(p, m)
         IN  /\ Proper(r) /\ r.neg = (p /\ ~MagIsZero(r.w))
             /\ r.w = [i \in 0 .. N - 1 |-> IF i = FW THEN m \div (B * B * B)
                                            ELSE IF i = FW - 1 THEN (m \div (B * B)) % B
                                            ELSE IF i = FW - 2 THEN (m \div B) % B ELSE 0]
<1> DEFINE x == m \div (B * B * B)  y == (m \div (B * B)) % B  z == (m \div B) % B
           r == FromDouble(p, m)
           g == [i \in 0 .. N - 1 |->
              CASE i = FW     -> x
                [] i = FW - 1 -> y
                [] i = FW - 2 -> z
                [] OTHER      -> 0]
           w == [i \in 0 .. N - 1 |-> IF i = FW THEN x ELSE IF i = FW - 1 THEN y
                                      ELSE IF i = FW - 2 THEN z ELSE 0]
<1>1. B \in Nat /\ B > 1 /\ FW \in Nat /\ N \in Nat
  BY FormatFacts, PointFacts DEF WordsOK
<1>2. x \in 0 .. B - 1 /\ y \in 0 .. B - 1 /\ z \in 0 .. B - 1
  <2> DEFINE D == B * B  C == B * B * B
  <2> HIDE DEF B
  <2>1. D \in Nat /\ D > 0 /\ C \in Nat /\ C > 0 /\ C * B = B * B * B * B
    <3>1. D \in Nat /\ D > 0
      BY <1>1
    <3>2. C = D * B
      OBVIOUS
    <3> HIDE DEF D, C
    <3>3. C \in Nat /\ C > 0
      BY <1>1, <3>1, <3>2
    <3> QED
      BY <3>1, <3>3 DEF C
  <2> HIDE DEF D, C
  <2>2. m \div C \in Nat /\ m \div D \in Nat /\ m \div B \in Nat /\ m >= C * (m \div C)
    BY <1>1, <2>1
  <2>3. m \div C < B
    <3> DEFINE q == m \div C
    <3> HIDE DEF q
    <3> SUFFICES ASSUME q >= B PROVE FALSE
      BY <1>1, <2>2 DEF q
    <3>1. q \in Nat /\ m >= C * q /\ m < C * B
      BY <2>1, <2>2 DEF q
    <3>2. C * q = C * B + C * (q - B) /\ C * (q - B) \in Nat /\ C * B \in Nat
      BY <1>1, <2>1, <3>1
    <3> QED
      BY <3>1, <3>2
  <2>4. (m \div D) % B \in 0 .. B - 1 /\ (m \div B) % B \in 0 .. B - 1
    BY <1>1, <2>2
  <2> QED
    BY <1>1, <2>2, <2>3, <2>4 DEF C, D
<1>3. r = [w |-> g, neg |-> p /\ ~MagIsZero(g)]
  BY DEF FromDouble
<1> HIDE DEF FW, B, x, y, z
<1>4. g = w
  BY <1>1
<1>5. w \in Words
  <2>1. 0 \in 0 .. B - 1
    BY <1>1
  <2> QED
    BY <1>2, <2>1 DEF Words
<1> HIDE DEF w, g, r
<1>6. Proper(r)
  BY <1>3, <1>4, <1>5, ProperNumber
<1> QED
  BY <1>3, <1>4, <1>6 DEF r, w, x, y, z

\* Two words take a double without a rest.
LEMMA DoubleInTwo ==
  ASSUME FormatOK, N = 2, NEW m \in Nat, NEW g \in Nat, m = g * (B * B),
         m < B * B * B * B, NEW p \in BOOLEAN
  PROVE  LET r == FromDouble(p, m)
         IN  /\ Proper(r) /\ Digits(r.w) = g /\ r.neg = (p /\ g # 0)
             /\ Native(r) = FP64!FromDouble(p, m)
<1> DEFINE r == FromDouble(p, m)  t == Tails(r.w, N)
<1>1. WordsOK /\ B \in Nat /\ B > 1 /\ FW = 1 /\ FormatOK
  BY FormatFacts, PointFacts DEF WordsOK, FW
<1>2. /\ Proper(r) /\ r.neg = (p /\ ~MagIsZero(r.w))
      /\ r.w = [i \in 0 .. N - 1 |-> IF i = FW THEN m \div (B * B * B)
                                     ELSE IF i = FW - 1 THEN (m \div (B * B)) % B
                                     ELSE IF i = FW - 2 THEN (m \div B) % B ELSE 0]
  BY <1>1, DoubleTaken
<1> HIDE DEF r
<1>3. m \div (B * B) = g /\ m \div (B * B * B) = g \div B
  <2> DEFINE D == B * B  C == B * B * B  q == g \div B  l == g % B
  <2> HIDE DEF B
  <2>1. D \in Nat /\ D > 0 /\ C = D * B
    BY <1>1
  <2>2. C \in Nat /\ C > 0 /\ q \in Nat /\ l \in 0 .. B - 1 /\ g = B * q + l
    <3> HIDE DEF D, C
    <3> QED
      BY <1>1, <2>1
  <2> HIDE DEF q, l
  <2>3. m = D * g + 0 /\ m = C * q + D * l
    <3> HIDE DEF C
    <3>1. g * D = D * g /\ D * g = D * (B * q) + D * l /\ D * (B * q) = (D * B) * q
      BY <1>1, <2>1, <2>2
    <3> QED
      BY <2>1, <2>2, <3>1
  <2>4. D * l \in 0 .. C - 1
    <3> HIDE DEF D, C
    <3>1. D * l \in Nat /\ D * l <= D * (B - 1) /\ D * (B - 1) = D * B - D
      BY <1>1, <2>1, <2>2
    <3> QED
      BY <1>1, <2>1, <2>2, <3>1
  <2> DEFINE s == D * l
  <2>7. m = C * q + s /\ s \in 0 .. C - 1
    BY <2>3, <2>4
  <2> HIDE DEF D, C, s
  <2>5. m \div D = g
    BY <2>1, <2>3, Euclid DEF DividesTo
  <2>6. m \div C = q
    BY <2>2, <2>7, Euclid DEF DividesTo
  <2> QED
    BY <2>5, <2>6 DEF C, D, q
<1>4. r.w \in Words /\ r.w[1] = g \div B /\ r.w[0] = g % B
  <2>1. r.w \in Words
    BY <1>2 DEF Proper, FPNs
  <2> HIDE DEF B
  <2> QED
    BY <1>1, <1>2, <1>3, <2>1
<1>5. t[0] = r.w[0] + B * t[0 + 1] /\ t[1] = r.w[1] + B * t[1 + 1] /\ t[2] = 0
      /\ Digits(r.w) = t[0]
  BY <1>1, <1>4, MagnitudeFacts
<1> HIDE DEF t
<1>6. Digits(r.w) = g
  <2> HIDE DEF B, Digits
  <2>1. g = B * (g \div B) + (g % B) /\ g \div B \in Nat /\ g % B \in Nat
    BY <1>1
  <2>2. t[1] = g \div B
    BY <1>1, <1>4, <1>5, <2>1
  <2>3. Digits(r.w) = (g % B) + B * (g \div B)
    BY <1>4, <1>5, <2>2
  <2>4. B * (g \div B) \in Nat
    BY <1>1, <2>1
  <2> QED
    BY <2>1, <2>3, <2>4
<1>7. r.neg = (p /\ g # 0)
  BY <1>1, <1>2, <1>4, <1>6, MagIsZeroFacts
<1>8. Native(r) = FP64!FromDouble(p, m)
  <2> HIDE DEF Digits, B
  <2> QED
    BY <1>3, <1>6, <1>7 DEF Native, FP64!FromDouble
<1> QED
  BY <1>2, <1>6, <1>7, <1>8 DEF r

\* The two builds round alike.
LEMMA SameRounding ==
  ASSUME NEW p, NEW d, NEW bits
  PROVE  FP64!Rounded(p, d, bits) = Rounded(p, d, bits)
<1>1. FP64!Spacing(p, d, bits) = Spacing(p, d, bits)
  BY DEF FP64!Spacing, Spacing
<1> QED
  BY <1>1 DEF FP64!Rounded, Rounded, FP64!NearestEven, NearestEven

LEMMA SameMagnitude ==
  ASSUME NEW v
  PROVE  FP64!Magnitude(v) = TwoRounds(v.mag)
BY SameRounding DEF FP64!Magnitude, TwoRounds, FP64!AsDouble, AsDouble, FP64!Hi, FP64!Lo

\* A number that fits a double comes back from it as it was, and one that
\* does not is off by three roundings at most.
LEMMA DoublesReturn ==
  ASSUME FormatOK, DoublesOK, NEW v \in FPNs, ToDouble(v).m < B * B * B * B
  PROVE  LET r == FromDouble(ToDouble(v).neg, ToDouble(v).m)
             d == FP64!ToDouble(Native(v))
         IN  /\ Proper(r)
             /\ N = 2 =>
                  /\ Size(Value(r) - Value(v)) * 2 ^ Mantissa <= 3 * Size(Value(v))
                  /\ FitsDouble(Size(Value(v))) => Value(r) = Value(v)
                  /\ Native(r) = FP64!FromDouble(d.neg, d.m)
<1> DEFINE m == ToDouble(v).m
           r == FromDouble(v.neg, m)
           n == Digits(v.w)
           g == TwoRounds(n)
           d == FP64!ToDouble(Native(v))
<1>1. WordsOK /\ v.w \in Words /\ v.neg \in BOOLEAN /\ n \in Nat /\ Size(Value(v)) = n
      /\ (v.neg => Value(v) = 0 - n) /\ (~v.neg => Value(v) = n) /\ B \in Nat
  BY FormatFacts, ValueFacts DEF WordsOK
<1>2. ToDouble(v).neg = v.neg /\ m \in Nat /\ (N = 2 => m = g * (B * B)) /\ m < B * B * B * B
  BY DoubleWritten
<1>3. g \in Nat /\ Size(g - n) * 2 ^ Mantissa <= 3 * n /\ (FitsIn(n, Mantissa) => g = n)
  BY <1>1, RoundsNear
<1> HIDE DEF m, n, g
<1>4. Proper(r)
  BY <1>1, <1>2, DoubleTaken
<1>5. ASSUME N = 2
      PROVE  /\ Size(Value(r) - Value(v)) * 2 ^ Mantissa <= 3 * Size(Value(v))
             /\ FitsDouble(Size(Value(v))) => Value(r) = Value(v)
             /\ Native(r) = FP64!FromDouble(d.neg, d.m)
  <2>1. Digits(r.w) = g /\ r.neg = (v.neg /\ g # 0) /\ Native(r) = FP64!FromDouble(v.neg, m)
    BY <1>1, <1>2, <1>3, <1>5, DoubleInTwo
  <2> HIDE DEF r
  <2>2. Size(Value(r) - Value(v)) = Size(g - n)
    <3> HIDE DEF Digits
    <3>1. (r.neg => Value(r) = 0 - g) /\ (~r.neg => Value(r) = g)
      BY <2>1 DEF Value
    <3> QED
      BY <1>1, <1>3, <2>1, <3>1 DEF Size
  <2>3. FitsDouble(n) => FitsIn(n, Mantissa)
    BY DEF FitsDouble, FitsIn
  <2>4. FitsDouble(Size(Value(v))) => Value(r) = Value(v)
    <3> SUFFICES ASSUME FitsDouble(n) PROVE Value(r) = Value(v)
      BY <1>1
    <3> HIDE DEF Digits
    <3> QED
      BY <1>1, <1>3, <2>1, <2>3 DEF Value
  <2>5. d.neg = v.neg /\ d.m = m
    <3>1. FP64!Magnitude(Native(v)) = g
      BY SameMagnitude DEF Native, g, n
    <3>2. d.m = g * B * B /\ d.neg = v.neg
      BY <3>1 DEF FP64!ToDouble, Native
    <3> HIDE DEF d, B
    <3> QED
      BY <1>1, <1>2, <1>3, <1>5, <3>2
  <2> QED
    BY <1>1, <1>3, <2>1, <2>2, <2>4, <2>5
<1> QED
  BY <1>2, <1>4, <1>5 DEF r, m

\* A number that fits does so one word further up.
LEMMA ShiftedFits ==
  ASSUME FormatOK, NEW n \in Nat, NEW bits \in Nat, FitsIn(n, bits)
  PROVE  FitsIn(n * B, bits)
<1> DEFINE P(i) == 2 ^ i
<1>1. B = P(Bits) /\ Bits \in Nat /\ B \in Nat /\ B > 1
  BY FormatFacts DEF B, WordsOK
<1>2. PICK e \in Nat : n % P(e) = 0 /\ n < P(e + bits)
  BY DEF FitsIn
<1> DEFINE f == e + Bits  c == n \div P(e)
<1>3. /\ f \in Nat /\ P(f) = P(e) * B /\ P(e) \in Nat /\ P(e) > 0 /\ P(f) > 0 /\ P(f) \in Nat
      /\ P(f + bits) = P(f) * P(bits) /\ P(e + bits) = P(e) * P(bits) /\ P(bits) \in Nat
  BY <1>1, PowersPositive, ExponentsAdd
<1> HIDE DEF B, f, P
<1>4. c \in Nat /\ n = P(e) * c
  BY <1>2, <1>3
<1> HIDE DEF c
<1>5. n * B = P(f) * c + 0 /\ n * B \in Int /\ 0 \in 0 .. P(f) - 1
  BY <1>1, <1>3, <1>4
<1>6. (n * B) % P(f) = 0
  <2> DEFINE z == n * B
  <2>1. z \in Int /\ z = P(f) * c + 0 /\ c \in Int
    BY <1>4, <1>5
  <2> HIDE DEF z
  <2>2. DividesTo(z, P(f), c, 0)
    BY <1>3, <1>5, <2>1, Euclid
  <2> QED
    BY <2>1, <2>2 DEF DividesTo, z
<1>7. n * B < P(f + bits)
  <2> DEFINE z == P(e + bits)
  <2>1. z \in Nat /\ n < z /\ P(f + bits) = z * B
    BY <1>1, <1>2, <1>3
  <2> HIDE DEF z
  <2>2. z * B = n * B + (z - n) * B /\ (z - n) * B >= B /\ n * B \in Nat
    BY <1>1, <2>1
  <2> QED
    BY <1>1, <2>1, <2>2
<1> QED
  BY <1>3, <1>6, <1>7 DEF FitsIn, P

\* The two builds divide alike by zero, and where operands and quotient are doubles.
THEOREM QuotientsAgree ==
  ASSUME FormatOK, DoublesOK, N = 2, NEW a \in FPNs, NEW b \in FPNs,
         Value(b) = 0 \/ ExactQuotient(Value(a), Value(b))
  PROVE  Native(DivNoAssert(a, b)) = FP64!DivNoAssert(Native(a), Native(b))
<1> DEFINE x == Native(a)  y == Native(b)  r == DivNoAssert(a, b)
           n == Digits(a.w)  d == Digits(b.w)  q == (n * Unit) \div d
           fq == FP64!Rounded(FP64!Magnitude(x) * B * B, FP64!Magnitude(y), LongMantissa)
           mag == FP64!FromDouble(FALSE, FP64!AsDouble(fq) * B).mag
<1>1. /\ FP64!MaxMag = Limit /\ Unit = B /\ x.mag = n /\ x.neg = a.neg
      /\ y.mag = d /\ y.neg = b.neg
  BY NativeFacts
<1>2. /\ n \in Nat /\ d \in Nat /\ n = Size(Value(a)) /\ d = Size(Value(b))
      /\ (MagIsZero(b.w) <=> d = 0) /\ (Value(b) = 0 <=> d = 0) /\ WordsOK
  <2>1. WordsOK
    BY FormatFacts
  <2>2. \A v \in FPNs : Size(Value(v)) = Digits(v.w) /\ Value(v) \in Int /\ Digits(v.w) \in Nat
                        /\ (MagIsZero(v.w) <=> Digits(v.w) = 0)
    BY <2>1, ValueFacts
  <2> HIDE DEF Value, Digits
  <2>3. Value(b) = 0 <=> Size(Value(b)) = 0
    BY <2>2 DEF Size
  <2> QED
    BY <2>1, <2>2, <2>3
<1>3. B \in Nat /\ B > 1 /\ Mantissa \in Nat /\ LongMantissa \in Nat /\ Mantissa <= LongMantissa
  BY <1>2 DEF WordsOK, DoublesOK
<1> HIDE DEF x, y, n, d
<1>4. CASE d = 0
  BY <1>2, <1>4, <1>1 DEF DivNoAssert, FP64!DivNoAssert, Native, Limit, x, y
<1>5. CASE d # 0
  <2>1. ExactQuotient(Value(a), Value(b))
    BY <1>2, <1>5
  <2>2. /\ DivisionFits(Value(a), Value(b)) /\ (n * B) % d = 0
        /\ FitsDouble(n) /\ FitsDouble(d) /\ FitsDouble(q)
    BY <1>1, <1>2, <2>1 DEF ExactQuotient
  <2>3. \A k : FitsDouble(k) => FitsIn(k, Mantissa)
    BY DEF FitsDouble, FitsIn
  <2>4. r \in FPNs /\ Size(Value(r)) = q
    BY <1>2, <2>2, QuotientsTruncate
  <2>5. r.neg = (a.neg # b.neg /\ ~MagIsZero(r.w))
    BY <1>2, <1>5 DEF DivNoAssert
  <2>6. Digits(r.w) = q /\ (MagIsZero(r.w) <=> q = 0)
    BY <1>2, <2>4, ValueFacts
  <2>7. q \in Nat /\ n * B = d * q
    <3>1. q = (n * B) \div d
      BY <1>1
    <3> HIDE DEF q, B
    <3> QED
      BY <1>2, <1>3, <1>5, <2>2, <3>1
  <2>8. FP64!Magnitude(x) = n /\ FP64!Magnitude(y) = d
    BY <1>1, <1>2, <2>2, <2>3, SameMagnitude, RoundsNear
  <2> HIDE DEF q, r
  <2>9. FitsIn(q * B, Mantissa) /\ q * B \in Nat
    BY <1>3, <2>2, <2>3, <2>7, ShiftedFits
  <2>10. fq = q * B
    <3> DEFINE k == q * B
    <3>1. n * B * B = d * k
      BY <1>2, <1>3, <2>7
    <3>2. k \in Nat /\ FitsIn(k, LongMantissa)
      BY <1>3, <2>9, MoreBits
    <3> HIDE DEF k
    <3>3. Rounded(d * k, d, LongMantissa) = k
      BY <1>2, <1>3, <1>5, <3>2, RoundExact
    <3> QED
      BY <2>8, <3>1, <3>3, SameRounding DEF k
  <2>11. mag = q
    <3>1. FP64!AsDouble(q * B) = q * B
      BY <2>9, AsDoubleFacts, SameRounding DEF FP64!AsDouble, AsDouble
    <3>2. mag = (q * B * B) \div (B * B)
      BY <2>10, <3>1 DEF FP64!FromDouble
    <3> DEFINE D == B * B
    <3>3. q * B * B = D * q + 0 /\ D \in Nat /\ D > 0 /\ q * B * B \in Int
      BY <1>3, <2>7
    <3> HIDE DEF D
    <3>4. (q * B * B) \div D = q
      BY <2>7, <3>3, Euclid DEF DividesTo
    <3> QED
      BY <3>2, <3>4 DEF D
  <2>12. FP64!DivNoAssert(x, y) = [mag |-> mag, neg |-> x.neg # y.neg /\ mag # 0]
    BY <1>1, <1>5 DEF FP64!DivNoAssert
  <2> HIDE DEF mag
  <2>13. (a.neg # b.neg /\ ~MagIsZero(r.w)) = (x.neg # y.neg /\ mag # 0)
    BY <1>1, <2>6, <2>11
  <2> QED
    BY <2>5, <2>6, <2>11, <2>12, <2>13 DEF Native, r, x, y
<1> QED
  BY <1>4, <1>5 DEF x, y, r

\* An FP64 takes the two words around the point, and of two words all.
LEMMA NarrowReturns ==
  ASSUME FormatOK, NEW v \in FPNs
  PROVE  LET r == FromFP64(ToFP64(v))
         IN  Proper(r) /\ (N = 2 => Value(r) = Value(v))
<1> DEFINE x == v.w[FW]
           y == v.w[FW - 1]
           m == x * B + y
           n == v.neg /\ m # 0
           w == [i \in 0 .. N - 1 |-> IF i = FW THEN x ELSE IF i = FW - 1 THEN y ELSE 0]
           r == FromFP64(ToFP64(v))
<1>1. WordsOK /\ EvenWords /\ N \in Nat /\ FW \in Nat /\ FW > 0 /\ FW < N /\ FW + FW = N
      /\ v.w \in Words /\ v.neg \in BOOLEAN /\ B \in Nat /\ B > 1
  BY FormatFacts, PointFacts DEF FPNs
<1>2. /\ Tails(v.w, N) \in [0 .. N -> Nat] /\ Tails(v.w, N)[N] = 0
      /\ \A i \in 0 .. N - 1 : v.w[i] \in 0 .. B - 1
  BY <1>1, MagnitudeFacts
<1>3. x \in 0 .. B - 1 /\ y \in 0 .. B - 1
  <2> HIDE DEF FW, B
  <2>1. FW \in 0 .. N - 1 /\ FW - 1 \in 0 .. N - 1
    BY <1>1
  <2> QED
    BY <1>2, <2>1
<1>4. m % B = y /\ m \div B = x /\ m \in Nat /\ (m = 0 <=> x = 0 /\ y = 0)
  <2> HIDE DEF x, y, B
  <2>1. x \in Nat /\ y \in Nat /\ B \in Nat /\ B > 0 /\ x * B \in Nat /\ B * x = x * B
    BY <1>1, <1>3
  <2>2. m = B * x + y /\ m \in Nat
    BY <2>1
  <2>3. B \in Nat /\ B > 0 /\ x \in Int /\ y \in 0 .. B - 1 /\ m \in Int /\ m = B * x + y
    BY <1>3, <2>1, <2>2
  <2>4. m % B = y /\ m \div B = x
    <3> HIDE DEF m
    <3> QED
      BY <2>3, Euclid DEF DividesTo
  <2>5. x # 0 => B * x > 0
    BY <2>1
  <2>6. x = 0 => B * x = 0
    BY <2>1
  <2> QED
    BY <2>1, <2>2, <2>4, <2>5, <2>6
<1>5. ToFP64(v) = [mag |-> m, neg |-> n]
  BY DEF ToFP64
<1>6. r = [w |-> [ZeroWords EXCEPT ![FW - 1] = m % B, ![FW] = m \div B], neg |-> n]
  BY <1>5 DEF FromFP64
<1> HIDE DEF m
<1>7. [ZeroWords EXCEPT ![FW - 1] = m % B, ![FW] = m \div B] = w
  <2> HIDE DEF x, y, FW, B
  <2> QED
    BY <1>1, <1>4 DEF ZeroWords
<1>8. w \in Words
  <2>1. 0 \in 0 .. B - 1
    BY <1>1
  <2> HIDE DEF FW, B, x, y
  <2> QED
    BY <1>3, <2>1 DEF Words
<1>9. m # 0 <=> ~MagIsZero(w)
  <2> HIDE DEF FW, B, x, y
  <2>1. FW \in DOMAIN w /\ FW - 1 \in DOMAIN w /\ w[FW] = x /\ w[FW - 1] = y
    BY <1>1
  <2>2. x = 0 /\ y = 0 => \A i \in DOMAIN w : w[i] = 0
    OBVIOUS
  <2> QED
    BY <1>4, <2>1, <2>2 DEF MagIsZero
<1> HIDE DEF w, r, x, y
<1>10. r = [w |-> w, neg |-> v.neg /\ ~MagIsZero(w)]
  BY <1>6, <1>7, <1>9
<1>11. Proper(r)
  BY <1>1, <1>8, <1>10, ProperNumber
<1>12. ASSUME N = 2
       PROVE  Value(r) = Value(v)
  <2>1. FW = 1
    BY <1>1, <1>12
  <2>2. v.w = [i \in 0 .. N - 1 |-> v.w[i]]
    BY <1>1 DEF Words
  <2>3. \A i \in 0 .. N - 1 : w[i] = v.w[i]
    <3> SUFFICES ASSUME NEW i \in 0 .. N - 1 PROVE w[i] = v.w[i]
      OBVIOUS
    <3> HIDE DEF FW
    <3>1. i = 1 \/ i = 0
      BY <1>12
    <3> QED
      BY <2>1, <3>1 DEF w, x, y
  <2>4. w = v.w
    BY <2>2, <2>3 DEF w
  <2>5. MagIsZero(v.w) => Digits(v.w) = 0
    BY <1>1, MagIsZeroFacts
  <2>6. r.w = v.w /\ r.neg = (v.neg /\ ~MagIsZero(v.w))
    BY <1>10, <2>4
  <2> HIDE DEF MagIsZero, Digits
  <2>7. CASE MagIsZero(v.w)
    BY <2>5, <2>6, <2>7 DEF Value
  <2>8. CASE ~MagIsZero(v.w)
    BY <1>1, <2>6, <2>8 DEF Value
  <2> QED
    BY <2>7, <2>8
<1> QED
  BY <1>11, <1>12 DEF r

-----------------------------------------------------------------------------
(* The smooth step.                                                        *)

\* Two and three, as FPN_SmoothStep takes them from doubles.
LEMMA SmallWhole ==
  ASSUME FormatOK, NEW k \in 0 .. B - 1
  PROVE  LET r == FromDouble(FALSE, k * (B * B * B))
         IN  r \in FPNs /\ ~r.neg /\ Value(r) = k * Unit
<1> DEFINE m == k * (B * B * B)
           r == FromDouble(FALSE, m)
           h == [i \in 0 .. N - 1 |-> IF i = FW THEN k ELSE 0]
<1>1. WordsOK /\ EvenWords /\ N \in Nat /\ FW \in Nat /\ FW > 0 /\ FW < N /\ FW + FW = N
      /\ B \in Nat /\ B > 1 /\ 0 \in 0 .. B - 1 /\ FW \in 0 .. N - 1 /\ Unit \in Nat
  BY FormatFacts, PointFacts DEF FPNs
<1>2. /\ m \in Nat /\ m < B * B * B * B
      /\ m \div (B * B * B) = k /\ (m \div (B * B)) % B = 0 /\ (m \div B) % B = 0
  <2> DEFINE D == B * B  C == B * B * B  y == k * B  z == k * D
  <2> HIDE DEF B
  <2>1. k \in Nat /\ k <= B - 1 /\ D \in Nat /\ D > 0 /\ C = D * B
    BY <1>1
  <2> HIDE DEF D, C
  <2>2. C \in Nat /\ C > 0 /\ y \in Nat /\ z \in Nat
    BY <1>1, <2>1
  <2>3. /\ k * C = C * k + 0 /\ k * C = D * y + 0 /\ k * C = B * z + 0
        /\ y = B * k + 0 /\ z = B * y + 0 /\ k * C \in Nat
    BY <1>1, <2>1, <2>2 DEF D
  <2>4. k * C < C * B
    BY <1>1, <2>1, <2>2, <2>3
  <2> DEFINE p == k * C
  <2> HIDE DEF y, z, p
  <2>5. p \in Int /\ 0 \in 0 .. C - 1 /\ 0 \in 0 .. D - 1 /\ p = C * k + 0 /\ p = D * y + 0
        /\ p = B * z + 0
    BY <2>1, <2>2, <2>3 DEF p
  <2>6. p \div C = k /\ p \div D = y /\ p \div B = z
    BY <1>1, <2>1, <2>2, <2>5, Euclid DEF DividesTo
  <2>7. y % B = 0 /\ z % B = 0
    <3>1. 0 \in 0 .. B - 1 /\ B > 0 /\ k \in Int /\ y \in Int /\ z \in Int
      BY <1>1, <2>1, <2>2
    <3>2. DividesTo(y, B, k, 0) /\ DividesTo(z, B, y, 0)
      BY <1>1, <3>1, Euclid
    <3> QED
      BY <2>3, <3>2 DEF DividesTo
  <2> QED
    BY <2>3, <2>4, <2>6, <2>7 DEF C, D, p
<1>3. /\ Proper(r) /\ r.neg = (FALSE /\ ~MagIsZero(r.w))
      /\ r.w = [i \in 0 .. N - 1 |-> IF i = FW THEN m \div (B * B * B)
                                     ELSE IF i = FW - 1 THEN (m \div (B * B)) % B
                                     ELSE IF i = FW - 2 THEN (m \div B) % B ELSE 0]
  BY <1>2, DoubleTaken
<1> HIDE DEF r
<1>4. r.w = h
  <2> HIDE DEF FW, m
  <2> QED
    BY <1>2, <1>3
<1>5. Digits(h) = Digits(ZeroWords) + Powers[FW] * k
  <2>1. /\ ZeroWords \in [0 .. N - 1 -> Nat] /\ h \in [0 .. N - 1 -> Nat]
        /\ h[FW] = ZeroWords[FW] + k
        /\ \A j \in 0 .. N - 1 : j # FW => h[j] = ZeroWords[j]
    <3> HIDE DEF FW, B
    <3>1. k \in Nat /\ ZeroWords[FW] = 0
      BY <1>1 DEF ZeroWords
    <3> QED
      BY <1>1, <3>1 DEF ZeroWords
  <2>2. /\ WordsOK /\ FW \in 0 .. N - 1 /\ k \in Nat
        /\ ZeroWords \in [0 .. N - 1 -> Nat] /\ h \in [0 .. N - 1 -> Nat]
        /\ h[FW] = ZeroWords[FW] + k
        /\ \A j \in 0 .. N - 1 : j # FW => h[j] = ZeroWords[j]
    BY <1>1, <2>1
  <2> HIDE DEF h, FW
  <2> QED
    BY <2>2, WordRaised
<1>6. Digits(h) = k * Unit
  <2>1. Digits(ZeroWords) = 0 /\ k \in Nat
    BY <1>1, ZeroFacts
  <2> HIDE DEF h
  <2>2. Digits(h) = 0 + Unit * k
    BY <1>5, <2>1 DEF Unit
  <2> HIDE DEF Unit
  <2>3. Unit * k = k * Unit /\ Unit * k \in Nat
    BY <1>1, <2>1
  <2> QED
    BY <2>2, <2>3
<1> HIDE DEF h
<1>7. ~r.neg
  BY <1>3
<1>8. Value(r) = k * Unit
  BY <1>4, <1>6, <1>7 DEF Value
<1> QED
  BY <1>3, <1>7, <1>8 DEF r, Proper

\* Whatever the edges, it is a number and no negative zero.
LEMMA SmoothClosed ==
  ASSUME FormatOK, B > 3, NEW a \in FPNs, NEW b \in FPNs, NEW x \in FPNs
  PROVE  Proper(SmoothStep(a, b, x))
<1> DEFINE t == DivNoAssert(SubSat(x, a), SubSat(b, a))
           three == FromDouble(FALSE, 3 * (B * B * B))
           two == FromDouble(FALSE, 2 * (B * B * B))
           tt == Mul(t, t)
           poly == Mul(tt, SubSat(three, Mul(two, t)))
<1>1. WordsOK /\ B \in Nat
  BY FormatFacts DEF WordsOK
<1>2. three \in FPNs /\ two \in FPNs
  <2>1. 3 \in 0 .. B - 1 /\ 2 \in 0 .. B - 1
    <3> HIDE DEF B
    <3> QED
      BY <1>1
  <2> QED
    BY <2>1, SmallWhole
<1>3. t \in FPNs
  BY SumsClosed, QuotientsClosed DEF Proper
<1> HIDE DEF t, two, three
<1>4. tt \in FPNs /\ Mul(two, t) \in FPNs
  BY <1>2, <1>3, SumsClosed DEF Proper
<1>5. Proper(poly)
  BY <1>2, <1>4, SumsClosed DEF Proper
<1>6. Proper(One) /\ Proper(Zero)
  BY <1>1, OneFacts, ZeroFacts DEF Zero, Proper, NegativeZero
<1>7. SmoothStep(a, b, x) \in {One, Zero, poly}
  <2> DEFINE above == GreaterThanOrEqual(x, b)
             below == LessThanOrEqual(x, a)
  <2>1. SmoothStep(a, b, x) = CASE above -> One [] below /\ ~above -> Zero [] OTHER -> poly
    BY DEF SmoothStep, t, two, three
  <2> HIDE DEF above, below, poly
  <2> QED
    BY <2>1
<1> HIDE DEF poly
<1> QED
  BY <1>5, <1>6, <1>7

\* The polynomial stays below one.
LEMMA SmoothBound ==
  ASSUME NEW u \in Nat, u > 0, NEW t \in 0 .. u, NEW p \in Nat, p * u <= t * t
  PROVE  p * (3 * u - 2 * t) <= u * u
<1> DEFINE s == u - t  k == 3 * u - 2 * t
<1>1. s \in Nat /\ k \in Nat /\ t \in Nat /\ u = t + s
  OBVIOUS
<1>2. (t * t) * k <= u * (u * u)
  <2>1. u * (u * u) - (t * t) * k = (s * s) * (u + 2 * t)
    <3>1. /\ k = t + 3 * s /\ u + 2 * t = 3 * t + s
      BY <1>1
    <3> HIDE DEF k, s
    <3>2. (t + s) * ((t + s) * (t + s)) - (t * t) * (t + 3 * s) = (s * s) * (3 * t + s)
      BY <1>1
    <3> QED
      BY <1>1, <3>1, <3>2
  <2>2. (s * s) * (u + 2 * t) >= 0
    <3> HIDE DEF s
    <3> DEFINE q == s * s  m == u + 2 * t
    <3>1. q \in Nat /\ m \in Nat
      BY <1>1
    <3> HIDE DEF q, m
    <3>2. q * m >= 0
      BY <3>1
    <3> QED
      BY <3>2 DEF q, m
  <2> HIDE DEF s, k
  <2> DEFINE x == u * (u * u)  y == (t * t) * k
  <2>3. x \in Nat /\ y \in Nat
    BY <1>1
  <2>4. x - y >= 0
    BY <2>1, <2>2
  <2> HIDE DEF x, y
  <2>5. y <= x
    BY <2>3, <2>4
  <2> QED
    BY <2>5 DEF x, y
<1> HIDE DEF s, k
<1>3. (p * u) * k <= (t * t) * k
  <2> DEFINE x == p * u  y == t * t
  <2>1. x \in Nat /\ y \in Nat /\ x <= y
    BY <1>1
  <2> HIDE DEF x, y
  <2>2. x * k <= y * k
    BY <1>1, <2>1
  <2> QED
    BY <2>2 DEF x, y
<1>4. u * (p * k) <= u * (u * u)
  <2>1. (p * u) * k = u * (p * k) /\ (t * t) * k \in Nat /\ u * (p * k) \in Nat /\ u * (u * u) \in Nat
    BY <1>1
  <2> DEFINE a == (p * u) * k  b == (t * t) * k  c == u * (p * k)  d == u * (u * u)
  <2>2. a = c /\ a <= b /\ b <= d /\ b \in Nat /\ c \in Nat /\ d \in Nat
    BY <1>2, <1>3, <2>1
  <2> HIDE DEF a, b, c, d
  <2>3. c <= d
    BY <2>2
  <2> QED
    BY <2>3 DEF c, d
<1>5. p * k <= u * u
  <2> DEFINE a == p * k  b == u * u
  <2>1. a \in Nat /\ b \in Nat /\ u * a <= u * b
    BY <1>1, <1>4
  <2> HIDE DEF a, b
  <2> SUFFICES a <= b
    BY DEF a, b
  <2> SUFFICES ASSUME a >= b + 1 PROVE FALSE
    BY <2>1
  <2>2. u * a >= u * (b + 1) /\ u * (b + 1) = u * b + u /\ u * b \in Nat /\ u * a \in Nat
    BY <2>1
  <2> QED
    BY <2>1, <2>2
<1> QED
  BY <1>5 DEF k

\* A quotient of naturals, and what it leaves.
LEMMA CutOff ==
  ASSUME NEW n \in Nat, NEW d \in Nat, d > 0
  PROVE  /\ n \div d \in Nat /\ (n \div d) * d <= n /\ n < (n \div d) * d + d
<1> DEFINE x == n \div d  y == n % d
<1>1. x \in Int /\ y \in 0 .. d - 1 /\ n = d * x + y
  OBVIOUS
<1> HIDE DEF x, y
<1>2. x >= 0
  BY <1>1
<1>3. d * x = x * d /\ d * x \in Int
  BY <1>1
<1>4. x * d <= n /\ n < x * d + d
  BY <1>1, <1>3
<1> QED
  BY <1>1, <1>2, <1>4 DEF x

\* A quotient of something smaller than so many divisors.
LEMMA CutBelow ==
  ASSUME NEW n \in Nat, NEW d \in Nat, d > 0, NEW m \in Nat
  PROVE  /\ n < m * d => n \div d < m
         /\ n <= m * d => n \div d <= m
<1> DEFINE q == n \div d
<1>1. q \in Nat /\ q * d <= n
  BY CutOff
<1> HIDE DEF q
<1>2. q >= m + 1 => q * d >= m * d + d
  BY <1>1
<1>3. q >= m => q * d >= m * d
  BY <1>1
<1>4. q * d \in Nat /\ m * d \in Nat
  BY <1>1
<1>5. n < m * d => q < m
  BY <1>1, <1>3, <1>4
<1>6. n <= m * d => q <= m
  BY <1>1, <1>2, <1>4
<1> QED
  BY <1>5, <1>6 DEF q

\* A product of numbers that are not negative, and not too large.
LEMMA ProductNatural ==
  ASSUME FormatOK, NEW a \in FPNs, NEW b \in FPNs, Value(a) \in Nat, Value(b) \in Nat,
         (Value(a) * Value(b)) \div Unit <= Limit
  PROVE  Value(Mul(a, b)) = (Value(a) * Value(b)) \div Unit
<1> DEFINE r == Value(Mul(a, b))  x == Value(a)  y == Value(b)  P == (x * y) \div Unit
<1>1. WordsOK /\ EvenWords /\ Unit \in Nat /\ Unit > 0
  BY FormatFacts, PointFacts
<1>2. /\ Mul(a, b) \in FPNs
      /\ Size(r) = IF P > Limit THEN Limit ELSE P
      /\ r # 0 => (r < 0 <=> (x < 0 <=> ~(y < 0)))
  BY WordProductsSaturate DEF Size, Unit
<1>3. r \in Int
  BY <1>1, <1>2, ValueFacts
<1>4. Limit \in Nat
  BY <1>1, MaxWordsFacts
<1>5. x \in Nat /\ y \in Nat /\ x * y \in Nat
  BY DEF x, y
<1> HIDE DEF r, x, y
<1>6. P \in Nat /\ P <= Limit
  <2>1. P <= Limit
    BY DEF x, y
  <2> QED
    BY <1>1, <1>5, <2>1, CutOff
<1>7. Size(r) = P
  <2> HIDE DEF P
  <2> QED
    BY <1>2, <1>4, <1>6
<1>8. ~(r < 0)
  BY <1>2, <1>3, <1>5
<1>9. r = P
  BY <1>3, <1>7, <1>8 DEF Size
<1> QED
  BY <1>9 DEF r, P, x, y

\* FPN_SmoothStep (884-894): from zero to one between the edges, clamped outside
\* them, and with equal edges the upper one wins: the polynomial never leaves
\* the range, whatever its three products cut off.
THEOREM SmoothStaysClamped ==
  ASSUME FormatOK, B > 3, NEW x \in FPNs, NEW a \in FPNs, NEW b \in FPNs,
         Value(a) <= Value(b), 2 * (Value(b) - Value(a)) <= Limit + 1
  PROVE  LET r == Value(SmoothStep(a, b, x))
         IN  /\ 0 <= r /\ r <= Unit
             /\ Value(x) >= Value(b) => r = Unit
             /\ Value(x) <= Value(a) /\ Value(a) < Value(b) => r = 0
<1> DEFINE s == SubSat(x, a)
           d == SubSat(b, a)
           t == DivNoAssert(s, d)
           three == FromDouble(FALSE, 3 * (B * B * B))
           two == FromDouble(FALSE, 2 * (B * B * B))
           tt == Mul(t, t)
           tw == Mul(two, t)
           k == SubSat(three, tw)
           poly == Mul(tt, k)
           r == SmoothStep(a, b, x)
           X == Value(x)  A == Value(a)  D == Value(b)
           U == Unit
<1>1. WordsOK /\ EvenWords /\ U \in Nat /\ U > 0 /\ B \in Nat /\ Limit \in Nat
  BY FormatFacts, PointFacts, MaxWordsFacts DEF WordsOK
<1>2. X \in Int /\ A \in Int /\ D \in Int
  BY <1>1, ValueFacts
<1>3. /\ GreaterThanOrEqual(x, b) <=> X >= D
      /\ LessThanOrEqual(x, a) <=> X <= A
  BY WordComparisonsOrderValues
<1>4. r = CASE X >= D -> One [] X <= A /\ ~(X >= D) -> Zero [] OTHER -> poly
  <2> HIDE DEF X, A, D
  <2> QED
    BY <1>3 DEF SmoothStep, poly, k, tt, tw, t, s, d, two, three
<1>5. Value(One) = U /\ Value(Zero) = 0
  BY <1>1, OneFacts, ZeroFacts
<1>6. 3 * U <= Limit
  <2>1. Limit + 1 = Powers[N] /\ Powers[FW] * Powers[FW] = Powers[N]
    <3>1. FW \in 0 .. 2 * N /\ FW \in 0 .. 2 * N - FW /\ FW + FW = N
      <4>1. FW \in Nat /\ FW + FW = N /\ N \in Nat
        BY <1>1, PointFacts
      <4> HIDE DEF FW
      <4> QED
        BY <4>1
    <3>2. \A i \in 0 .. 2 * N - FW : Powers[FW] * Powers[i] = Powers[FW + i]
      BY <1>1, <3>1, PowersMultiply
    <3> QED
      BY <1>1, <3>1, <3>2, LimitFacts
  <2>2. U >= B
    <3>1. Powers[1] = B
      <4>1. 0 \in 0 .. 2 * N - 1 /\ 0 + 1 = 1
        BY <1>1, PointFacts
      <4>2. Powers[0] = 1 /\ Powers[0 + 1] = B * Powers[0]
        BY <1>1, <4>1, PowersFacts
      <4> QED
        BY <1>1, <4>1, <4>2
    <3>2. /\ FW \in Nat /\ FW > 0 /\ N \in Nat /\ FW + FW = N
      BY <1>1, PointFacts
    <3> DEFINE f == FW - 1
    <3>3. 1 \in 0 .. 2 * N /\ f \in 0 .. 2 * N - 1 /\ f \in 0 .. 2 * N /\ 1 + f = FW
      <4> HIDE DEF FW
      <4> QED
        BY <3>2
    <3>4. Powers[1] * Powers[f] = Powers[1 + f]
      BY <1>1, <3>3, PowersMultiply
    <3>5. Powers[f] \in Nat /\ Powers[f] > 0
      BY <1>1, <3>3, PowersFacts
    <3> DEFINE g == Powers[f]
    <3>6. g \in Nat /\ g >= 1 /\ U = B * g
      BY <3>1, <3>3, <3>4, <3>5 DEF Unit
    <3> HIDE DEF g, U, B
    <3>7. B * g >= B
      BY <1>1, <3>6
    <3> QED
      BY <3>6, <3>7
  <2>3. U * U = Limit + 1
    BY <2>1 DEF Unit
  <2> HIDE DEF U, B
  <2>4. U * U >= 4 * U
    BY <1>1, <2>2
  <2>5. U * U \in Nat
    BY <1>1
  <2> QED
    BY <1>1, <2>3, <2>4, <2>5
<1>7. CASE A < X /\ X < D
  <2> DEFINE Y == X - A  E == D - A
  <2>1. Y \in Nat /\ E \in Nat /\ 0 < Y /\ Y < E /\ E <= Limit /\ 2 * E <= Limit + 1
    <3>1. 2 * (D - A) <= Limit + 1
      BY DEF D, A
    <3> HIDE DEF X, A, D
    <3> QED
      BY <1>1, <1>2, <1>7, <3>1
  <2>2. s \in FPNs /\ d \in FPNs /\ Value(s) = Y /\ Value(d) = E
    <3>1. s \in FPNs /\ ExactOrWrapped(Value(s), Y)
      BY DifferencesExactOrWrapped
    <3>2. d \in FPNs /\ ExactOrWrapped(Value(d), E)
      BY DifferencesExactOrWrapped
    <3> HIDE DEF s, d, Y, E
    <3>3. Size(Y) <= Limit /\ Size(E) <= Limit
      BY <1>1, <2>1 DEF Size
    <3> QED
      BY <3>1, <3>2, <3>3 DEF ExactOrWrapped
  <2> HIDE DEF s, d, Y, E, X, A, D, U
  <2> DEFINE T == (Y * U) \div E
  <2>3. T \in Nat /\ T < U
    <3> DEFINE n == Y * U
    <3>1. n \in Nat /\ n < U * E /\ E \in Nat /\ E > 0
      <4>1. (E - Y) * U > 0 /\ (E - Y) * U = E * U - Y * U /\ E * U = U * E
        <5> DEFINE z == E - Y
        <5>1. z \in Nat /\ z >= 1
          BY <2>1
        <5> HIDE DEF z
        <5>2. z * U >= U
          BY <1>1, <5>1
        <5>3. z * U > 0
          BY <1>1, <5>1, <5>2
        <5>4. (E - Y) * U = E * U - Y * U /\ E * U = U * E
          BY <1>1, <2>1
        <5> QED
          BY <5>3, <5>4 DEF z
      <4>2. E * U \in Nat /\ Y * U \in Nat
        BY <1>1, <2>1
      <4> QED
        BY <2>1, <4>1, <4>2
    <3> HIDE DEF n
    <3>2. n \div E \in Nat
      BY <3>1, CutOff
    <3>3. n \div E < U
      BY <1>1, <3>1, CutBelow
    <3> QED
      BY <3>2, <3>3 DEF n
  <2>4. Size(Y) = Y /\ Size(E) = E
    BY <2>1 DEF Size
  <2>5. T <= Limit
    BY <1>1, <1>6, <2>3
  <2>6. t \in FPNs /\ Value(t) = T
    <3>1. DivisionFits(Value(s), Value(d))
      BY <2>1, <2>2, <2>4, <2>5 DEF DivisionFits, U
    <3>2. /\ t \in FPNs
          /\ Size(Value(t)) = (Size(Value(s)) * Unit) \div Size(Value(d))
          /\ Value(t) # 0 => (Value(t) < 0 <=> (Value(s) < 0 <=> ~(Value(d) < 0)))
      BY <2>2, <3>1, QuotientsTruncate
    <3>3. Size(Value(t)) = T
      BY <2>2, <2>4, <3>2 DEF U
    <3>4. Value(t) \in Int
      BY <1>1, <3>2, ValueFacts
    <3> HIDE DEF t, T
    <3>5. ~(Value(t) < 0)
      BY <2>1, <2>2, <3>2, <3>4
    <3> QED
      BY <3>2, <3>3, <3>4, <3>5 DEF Size
  <2>7. /\ three \in FPNs /\ Value(three) = 3 * U
        /\ two \in FPNs /\ Value(two) = 2 * U
    <3>1. 3 \in 0 .. B - 1 /\ 2 \in 0 .. B - 1
      <4> HIDE DEF B
      <4> QED
        BY <1>1
    <3> QED
      BY <3>1, SmallWhole DEF U
  <2> HIDE DEF t, T, three, two
  <2> DEFINE P == (T * T) \div U
  <2>8. P \in Nat /\ P * U <= T * T /\ P <= Limit
    <3> DEFINE n == T * T
    <3>1. n \in Nat /\ n <= U * U
      BY <1>1, <2>3
    <3> HIDE DEF n
    <3>2. n \div U \in Nat /\ (n \div U) * U <= n
      BY <1>1, <3>1, CutOff
    <3>3. n \div U <= U
      BY <1>1, <3>1, CutBelow
    <3> DEFINE q == n \div U
    <3>4. q \in Nat /\ q <= U
      BY <3>2, <3>3
    <3> HIDE DEF q
    <3>5. q <= Limit
      BY <1>1, <1>6, <3>4
    <3> QED
      BY <3>2, <3>5 DEF n, q
  <2>9. tt \in FPNs /\ Value(tt) = P
    BY <2>6, SumsClosed, <2>3, <2>8, ProductNatural DEF Proper, U
  <2>10. tw \in FPNs /\ Value(tw) = 2 * T
    <3>1. tw \in FPNs
      BY <2>6, <2>7, SumsClosed DEF Proper
    <3> DEFINE m == (2 * U) * T
    <3>2. m = U * (2 * T) + 0 /\ m \in Nat
      BY <1>1, <2>3
    <3>3. m \div U = 2 * T
      <4>1. U \in Nat /\ U > 0 /\ 2 * T \in Int /\ 0 \in 0 .. U - 1 /\ m \in Int
        BY <1>1, <2>3, <3>2
      <4> HIDE DEF m
      <4> DEFINE z == 2 * T
      <4>2. U \in Nat /\ U > 0 /\ z \in Int /\ 0 \in 0 .. U - 1 /\ m \in Int /\ m = U * z + 0
        BY <3>2, <4>1
      <4> HIDE DEF z
      <4>3. m \div U = z
        BY <4>2, Euclid DEF DividesTo
      <4> QED
        BY <4>3 DEF z
    <3>4. 2 * T <= Limit /\ 2 * U \in Nat
      BY <1>1, <1>6, <2>3
    <3>5. Value(two) * Value(t) = m
      BY <2>6, <2>7
    <3> HIDE DEF m
    <3>6. /\ FormatOK /\ two \in FPNs /\ t \in FPNs /\ Value(two) \in Nat /\ Value(t) \in Nat
          /\ (Value(two) * Value(t)) \div Unit <= Limit
      BY <2>3, <2>6, <2>7, <3>3, <3>4, <3>5 DEF U
    <3>7. Value(tw) = (Value(two) * Value(t)) \div Unit
      BY <3>6, ProductNatural
    <3> QED
      BY <3>1, <3>3, <3>5, <3>7 DEF U
  <2> HIDE DEF tt, tw
  <2> DEFINE K == 3 * U - 2 * T
  <2>11. K \in Nat /\ K <= Limit
    BY <1>1, <1>6, <2>3
  <2>12. k \in FPNs /\ Value(k) = K
    <3>1. k \in FPNs /\ ExactOrWrapped(Value(k), Value(three) - Value(tw))
      BY <2>7, <2>10, DifferencesExactOrWrapped
    <3>2. Value(three) - Value(tw) = K
      BY <2>7, <2>10
    <3>3. Size(K) <= Limit
      BY <2>11 DEF Size
    <3> HIDE DEF K, k
    <3> QED
      BY <3>1, <3>2, <3>3 DEF ExactOrWrapped
  <2>13. P * K <= U * U
    <3> HIDE DEF P
    <3>1. U \in Nat /\ U > 0 /\ T \in 0 .. U /\ P \in Nat /\ P * U <= T * T
      BY <1>1, <2>3, <2>8
    <3> QED
      BY <3>1, SmoothBound
  <2> HIDE DEF K, P, k
  <2> DEFINE m == P * K
  <2>14. m \in Nat /\ m <= U * U
    BY <2>8, <2>11, <2>13
  <2> HIDE DEF m
  <2>15. m \div U \in Nat /\ m \div U <= U
    BY <1>1, <2>14, CutOff, CutBelow
  <2> DEFINE q == m \div U
  <2>16. q \in Nat /\ q <= U /\ q <= Limit
    <3>1. q \in Nat /\ q <= U
      BY <2>15
    <3> HIDE DEF q
    <3> QED
      BY <1>1, <1>6, <3>1
  <2>17. Value(poly) = q
    BY <2>8, <2>9, <2>11, <2>12, <2>16, ProductNatural DEF U, m
  <2>18. r = poly
    <3>1. ~(X >= D) /\ ~(X <= A)
      BY <1>2, <1>7
    <3> HIDE DEF r, poly
    <3> QED
      BY <1>4, <3>1
  <2> HIDE DEF q, r, poly
  <2>19. 0 <= Value(r) /\ Value(r) <= U /\ ~(X >= D) /\ ~(X <= A)
    BY <1>1, <1>2, <1>7, <2>16, <2>17, <2>18
  <2> QED
    BY <2>19 DEF r, X, A, D, U
<1>8. CASE X >= D
  <2>1. r = One
    <3> HIDE DEF r, poly, X, A, D
    <3> QED
      BY <1>4, <1>8
  <2>2. A <= D
    BY DEF A, D
  <2> HIDE DEF r, X, A, D, U
  <2>3. 0 <= Value(r) /\ Value(r) <= U /\ (X >= D => Value(r) = U)
        /\ (X <= A /\ A < D => Value(r) = 0)
    BY <1>1, <1>2, <1>5, <1>8, <2>1, <2>2
  <2> QED
    BY <2>3 DEF r, X, A, D, U
<1>9. CASE X <= A /\ ~(X >= D)
  <2>1. r = Zero
    <3> HIDE DEF r, poly, X, A, D
    <3> QED
      BY <1>4, <1>9
  <2> HIDE DEF r, X, A, D, U
  <2>3. 0 <= Value(r) /\ Value(r) <= U /\ (X >= D => Value(r) = U)
        /\ (X <= A /\ A < D => Value(r) = 0)
    BY <1>1, <1>2, <1>5, <1>9, <2>1
  <2> QED
    BY <2>3 DEF r, X, A, D, U
<1>10. (A < X /\ X < D) \/ X >= D \/ (X <= A /\ ~(X >= D))
  <2> HIDE DEF X, A, D
  <2> QED
    BY <1>2
<1> HIDE DEF X, A, D, r
<1>11. LET v == Value(r)
       IN  /\ 0 <= v /\ v <= Unit
           /\ X >= D => v = Unit
           /\ X <= A /\ A < D => v = 0
  BY <1>7, <1>8, <1>9, <1>10 DEF r, X, A, D
<1> QED
  BY <1>11 DEF r, X, A, D

-----------------------------------------------------------------------------
(* Strings: the arrays they are computed in are sequences of words.         *)

\* Sequences of n words, the same words counted from zero, and their worth.
WordSeqs(n) == [1 .. n -> 0 .. B - 1]
Based(a, n) == [i \in 0 .. n - 1 |-> a[i + 1]]
Amount(a, n) == Tails(Based(a, n), n)[0]

\* A sequence given as a function has the length of its domain.
LEMMA Lengths ==
  ASSUME NEW n \in Nat, NEW S, NEW a \in [1 .. n -> S]
  PROVE  Len(a) = n
<1>1. a \in Seq(S)
  OBVIOUS
<1>2. DOMAIN a = 1 .. n /\ DOMAIN a = 1 .. Len(a) /\ Len(a) \in Nat
  BY <1>1
<1> QED
  BY <1>2

\* Carries that run up an array: x[i] is what is added up in word i, from c on.
RunsUp(f, x, n, c) == f = [i \in 0 .. n |-> IF i = 0 THEN c ELSE (x[i] + f[i - 1]) \div B]

\* Carries running up a sequence of words exist and are what each step leaves.
LEMMA RunUp ==
  ASSUME WordsOK, NEW n \in Nat, NEW x \in [1 .. n -> Nat], NEW c \in Nat
  PROVE  /\ \E f : RunsUp(f, x, n, c)
         /\ \A f : RunsUp(f, x, n, c)
              => /\ f \in [0 .. n -> Nat] /\ f[0] = c
                 /\ \A i \in 1 .. n : f[i] = (x[i] + f[i - 1]) \div B
<1>1. B \in Nat /\ B > 0
  BY DEF WordsOK
<1> HIDE DEF B
<1>2. \A k \in Nat : k \div B \in Nat
  BY <1>1, CutOff
<1>3. \E f : RunsUp(f, x, n, c)
  <2> DEFINE step == [i \in 1 .. n |-> [v \in Nat |-> (x[i] + v) \div B]]
  <2>1. step \in [1 .. n -> [Nat -> Nat]]
    BY <1>2
  <2>2. PICK g : Iterates(g, n, Nat, c, step)
    <3> HIDE DEF step
    <3> QED
      BY <2>1, Iteration
  <2>3. g \in [0 .. n -> Nat] /\ g[0] = c /\ \A i \in 1 .. n : g[i] = step[i][g[i - 1]]
    BY <2>2 DEF Iterates
  <2>4. \A i \in 1 .. n : i - 1 \in 0 .. n /\ g[i - 1] \in Nat
    BY <2>3
  <2>5. \A i \in 1 .. n : g[i] = (x[i] + g[i - 1]) \div B
    BY <2>3, <2>4
  <2> HIDE DEF step
  <2>6. \A i \in 0 .. n : g[i] = IF i = 0 THEN c ELSE (x[i] + g[i - 1]) \div B
    BY <2>3, <2>5
  <2>7. g = [i \in 0 .. n |-> g[i]]
    BY <2>3
  <2>8. g = [i \in 0 .. n |-> IF i = 0 THEN c ELSE (x[i] + g[i - 1]) \div B]
    BY <2>6, <2>7
  <2> QED
    BY <2>8 DEF RunsUp
<1>4. ASSUME NEW f, RunsUp(f, x, n, c)
      PROVE  /\ f \in [0 .. n -> Nat] /\ f[0] = c
             /\ \A i \in 1 .. n : f[i] = (x[i] + f[i - 1]) \div B
  <2>1. f = [i \in 0 .. n |-> IF i = 0 THEN c ELSE (x[i] + f[i - 1]) \div B]
    BY <1>4 DEF RunsUp
  <2>2. DOMAIN f = 0 .. n /\ f[0] = c /\ \A i \in 1 .. n : f[i] = (x[i] + f[i - 1]) \div B
    BY <2>1
  <2> DEFINE T == {i \in 0 .. n : f[i] \in Nat}
  <2>3. 0 \in T
    BY <2>2
  <2>4. ASSUME NEW i \in 0 .. n, i # n, i \in T
        PROVE  (i + 1) \in T
    <3>1. i + 1 \in 1 .. n /\ (i + 1) - 1 = i /\ i + 1 \in 0 .. n
      BY <2>4
    <3>2. f[i + 1] = (x[i + 1] + f[i]) \div B /\ f[i] \in Nat /\ x[i + 1] \in Nat
      BY <2>2, <2>4, <3>1
    <3>3. x[i + 1] + f[i] \in Nat
      BY <3>2
    <3>4. (x[i + 1] + f[i]) \div B \in Nat
      BY <1>2, <3>3
    <3> QED
      BY <3>1, <3>2, <3>4
  <2> HIDE DEF T
  <2>5. \A i \in 0 .. n : i \in T
    BY <2>3, <2>4, IntervalInduction
  <2>6. \A i \in 0 .. n : f[i] \in Nat
    BY <2>5 DEF T
  <2>7. f = [i \in 0 .. n |-> f[i]]
    BY <2>1
  <2> QED
    BY <2>2, <2>6, <2>7
<1> QED
  BY <1>3, <1>4

\* w and what is carried out of it are k times a, and c more.
RunsTo(w, n, out, k, a, c) ==
  /\ w \in WordSeqs(n) /\ out \in Nat
  /\ Amount(w, n) + Powers[n] * out = k * Amount(a, n) + c

\* What the carries do to the value: every word is multiplied by k.
LEMMA RunUpValue ==
  ASSUME WordsOK, NEW n \in 0 .. 2 * N, NEW a \in WordSeqs(n), NEW k \in Nat, NEW c \in Nat,
         NEW x \in [1 .. n -> Nat], \A i \in 1 .. n : x[i] = a[i] * k,
         NEW f, RunsUp(f, x, n, c), NEW w,
         w = [i \in 1 .. n |-> (x[i] + f[i - 1]) % B]
  PROVE  RunsTo(w, n, f[n], k, a, c)
<1> DEFINE A == Based(a, n)  W == Based(w, n)
           LA(i) == Low(A, n, i)  LW(i) == Low(W, n, i)
           T == {i \in 0 .. n : LW(i) + Powers[i] * f[i] = k * LA(i) + c}
<1>1. B \in Nat /\ B > 0 /\ n \in Nat /\ N \in Nat
  BY DEF WordsOK
<1>2. /\ f \in [0 .. n -> Nat] /\ f[0] = c
      /\ \A i \in 1 .. n : f[i] = (x[i] + f[i - 1]) \div B
  <2>1. WordsOK /\ n \in Nat /\ x \in [1 .. n -> Nat] /\ c \in Nat
    BY <1>1
  <2>2. \A h : RunsUp(h, x, n, c)
          => /\ h \in [0 .. n -> Nat] /\ h[0] = c
             /\ \A i \in 1 .. n : h[i] = (x[i] + h[i - 1]) \div B
    BY <2>1, RunUp
  <2> QED
    BY <2>2
<1>3. ASSUME NEW i \in 1 .. n
      PROVE  w[i] \in 0 .. B - 1 /\ w[i] + B * f[i] = x[i] + f[i - 1]
  <2>1. i - 1 \in 0 .. n /\ x[i] \in Nat /\ f[i - 1] \in Nat
    BY <1>2, <1>3
  <2>2. x[i] + f[i - 1] \in Nat
    BY <2>1
  <2>3. w[i] = (x[i] + f[i - 1]) % B /\ f[i] = (x[i] + f[i - 1]) \div B
    BY <1>2
  <2> DEFINE v == x[i] + f[i - 1]
  <2>4. v \in Nat
    BY <2>2
  <2> HIDE DEF v
  <2>5. v % B \in 0 .. B - 1 /\ (v % B) + B * (v \div B) = v
    BY <2>4, WordSplits
  <2> QED
    BY <2>3, <2>5 DEF v
<1>4. w \in WordSeqs(n)
  <2> HIDE DEF B
  <2>1. w = [i \in 1 .. n |-> w[i]]
    OBVIOUS
  <2> QED
    BY <1>3, <2>1 DEF WordSeqs
<1>5. A \in Arrays(n) /\ W \in Arrays(n)
  <2> HIDE DEF B
  <2>1. \A i \in 0 .. n - 1 : i + 1 \in 1 .. n
    BY <1>1
  <2>2. \A i \in 0 .. n - 1 : a[i + 1] \in 0 .. B - 1 /\ w[i + 1] \in 0 .. B - 1
    BY <1>4, <2>1 DEF WordSeqs
  <2> QED
    BY <2>2 DEF Arrays, Based
<1> HIDE DEF A, W, B
<1>6. /\ LA(0) = 0 /\ LA(n) = Tails(A, n)[0]
      /\ \A i \in 0 .. n - 1 : LA(i + 1) = LA(i) + Powers[i] * A[i]
      /\ \A i \in 0 .. n : LA(i) \in 0 .. Powers[i] - 1
  BY <1>5, LowFacts
<1>7. /\ LW(0) = 0 /\ LW(n) = Tails(W, n)[0]
      /\ \A i \in 0 .. n - 1 : LW(i + 1) = LW(i) + Powers[i] * W[i]
      /\ \A i \in 0 .. n : LW(i) \in 0 .. Powers[i] - 1
  BY <1>5, LowFacts
<1>8. /\ Powers[0] = 1 /\ \A i \in 0 .. n : Powers[i] \in Nat
      /\ \A i \in 0 .. n - 1 : Powers[i + 1] = B * Powers[i]
  BY <1>1, PowersFacts
<1> HIDE DEF LA, LW
<1>9. 0 \in T
  <2>1. 1 * f[0] = c /\ k * 0 = 0
    BY <1>2
  <2>2. LW(0) + Powers[0] * f[0] = k * LA(0) + c
    BY <1>6, <1>7, <1>8, <2>1
  <2> QED
    BY <1>1, <2>2
<1>10. ASSUME NEW i \in 0 .. n, i # n, i \in T
       PROVE  (i + 1) \in T
  <2>1. i \in 0 .. n - 1 /\ i + 1 \in 1 .. n /\ (i + 1) - 1 = i /\ i + 1 \in 0 .. n
    BY <1>1, <1>10
  <2> DEFINE p == Powers[i]  q == Powers[i + 1]  la == LA(i)  lw == LW(i)
             u == a[i + 1]  z == w[i + 1]  g == f[i]  h == f[i + 1]
  <2>2. /\ LA(i + 1) = la + p * u /\ LW(i + 1) = lw + p * z /\ q = B * p
        /\ p \in Nat /\ la \in Nat /\ lw \in Nat /\ g \in Nat /\ h \in Nat
    <3>1. A[i] = a[i + 1] /\ W[i] = w[i + 1]
      BY <2>1 DEF A, W, Based
    <3>2. p \in Nat /\ la \in 0 .. p - 1 /\ lw \in 0 .. p - 1
      BY <1>6, <1>7, <1>8, <1>10
    <3> QED
      BY <1>2, <1>6, <1>7, <1>8, <2>1, <3>1, <3>2
  <2>3. u \in Nat /\ z \in Nat /\ z + B * h = u * k + g
    <3>1. u \in Nat /\ z \in Nat
      BY <1>4, <2>1 DEF WordSeqs
    <3>2. w[i + 1] + B * f[i + 1] = x[i + 1] + f[(i + 1) - 1] /\ x[i + 1] = a[i + 1] * k
      BY <1>3, <2>1
    <3> QED
      BY <2>1, <3>1, <3>2
  <2>4. lw + p * g = k * la + c
    BY <1>10
  <2> HIDE DEF p, q, la, lw, u, z, g, h
  <2>5. (lw + p * z) + q * h = k * (la + p * u) + c
    <3>1. q * h = p * (B * h)
      BY <1>1, <2>2
    <3>2. p * (z + B * h) = p * z + p * (B * h)
      BY <1>1, <2>2, <2>3
    <3>3. p * (u * k + g) = k * (p * u) + p * g
      BY <2>2, <2>3
    <3>4. k * (la + p * u) = k * la + k * (p * u)
      BY <2>2, <2>3
    <3>5. /\ p * z \in Nat /\ p * (B * h) \in Nat /\ p * g \in Nat /\ k * (p * u) \in Nat
          /\ k * la \in Nat
      BY <1>1, <2>2, <2>3
    <3> DEFINE a1 == p * z  a2 == p * (B * h)  a3 == p * g  a4 == k * (p * u)  a5 == k * la
               a6 == q * h  a7 == k * (la + p * u)  a8 == p * (z + B * h)
    <3>6. /\ a6 = a2 /\ a8 = a1 + a2 /\ a8 = a4 + a3 /\ a7 = a5 + a4 /\ lw + a3 = a5 + c
          /\ a1 \in Nat /\ a2 \in Nat /\ a3 \in Nat /\ a4 \in Nat /\ a5 \in Nat
      BY <2>3, <2>4, <3>1, <3>2, <3>3, <3>4, <3>5
    <3> HIDE DEF a1, a2, a3, a4, a5, a6, a7, a8
    <3>7. (lw + a1) + a6 = a7 + c
      BY <2>2, <3>6
    <3> QED
      BY <3>7 DEF a1, a6, a7
  <2>6. LW(i + 1) + Powers[i + 1] * f[i + 1] = k * LA(i + 1) + c
    BY <2>2, <2>5 DEF q, h
  <2> QED
    BY <2>1, <2>6
<1>11. n \in T
  <2> HIDE DEF T
  <2>1. \A i \in 0 .. n : i \in T
    BY <1>1, <1>9, <1>10, IntervalInduction
  <2> QED
    BY <1>1, <2>1
<1>12. LW(n) + Powers[n] * f[n] = k * LA(n) + c
  BY <1>11
<1>13. f[n] \in Nat
  BY <1>1, <1>2
<1> QED
  BY <1>4, <1>6, <1>7, <1>12, <1>13 DEF Amount, A, W, RunsTo

\* FPN_MulSingle: an array times a word, and the digit that leaves it.
LEMMA MulSingleFacts ==
  ASSUME WordsOK, NEW n \in 0 .. 2 * N, NEW a \in WordSeqs(n), NEW k \in Nat
  PROVE  LET r == MulSingle(a, k)
         IN  /\ r.w \in WordSeqs(n) /\ r.out \in Nat
             /\ Amount(r.w, n) + Powers[n] * r.out = k * Amount(a, n)
<1> DEFINE Is(f) == f = [i \in 0 .. n |-> IF i = 0 THEN 0 ELSE (a[i] * k + f[i - 1]) \div B]
           carry == CHOOSE f : Is(f)
           x == [i \in 1 .. n |-> a[i] * k]
           w == [i \in 1 .. n |-> (a[i] * k + carry[i - 1]) % B]
           r == MulSingle(a, k)
<1>1. n \in Nat /\ B \in Nat /\ N \in Nat
  BY DEF WordsOK
<1>2. Len(a) = n
  BY <1>1, Lengths DEF WordSeqs
<1>3. r = [w |-> w, out |-> carry[n]]
  BY <1>2 DEF MulSingle
<1>4. x \in [1 .. n -> Nat] /\ \A i \in 1 .. n : x[i] = a[i] * k
  <2>1. \A i \in 1 .. n : a[i] \in Nat
    <3> HIDE DEF B
    <3>1. \A i \in 1 .. n : a[i] \in 0 .. B - 1
      BY DEF WordSeqs
    <3> QED
      BY <1>1, <3>1
  <2> QED
    BY <2>1
<1> HIDE DEF B
<1>5. \A f : Is(f) <=> RunsUp(f, x, n, 0)
  <2> SUFFICES ASSUME NEW f PROVE Is(f) <=> RunsUp(f, x, n, 0)
    OBVIOUS
  <2>1. \A i \in 0 .. n : i # 0 => x[i] = a[i] * k
    BY <1>1
  <2>2. [i \in 0 .. n |-> IF i = 0 THEN 0 ELSE (a[i] * k + f[i - 1]) \div B]
          = [i \in 0 .. n |-> IF i = 0 THEN 0 ELSE (x[i] + f[i - 1]) \div B]
    <3> HIDE DEF x
    <3> QED
      BY <2>1
  <2> QED
    BY <2>2 DEF RunsUp
<1>6. RunsUp(carry, x, n, 0)
  <2>1. \E f : RunsUp(f, x, n, 0)
    <3>1. WordsOK /\ n \in Nat /\ x \in [1 .. n -> Nat] /\ 0 \in Nat
      BY <1>1, <1>4
    <3> HIDE DEF x
    <3> QED
      BY <3>1, RunUp
  <2> HIDE DEF Is, x
  <2>2. \E f : Is(f)
    BY <1>5, <2>1
  <2>3. Is(carry)
    BY <2>2
  <2> QED
    BY <1>5, <2>3
<1> HIDE DEF carry
<1>7. w = [i \in 1 .. n |-> (x[i] + carry[i - 1]) % B]
  OBVIOUS
<1> HIDE DEF x, w
<1>8. /\ w \in WordSeqs(n) /\ carry[n] \in Nat
      /\ Amount(w, n) + Powers[n] * carry[n] = k * Amount(a, n) + 0
  <2>1. /\ WordsOK /\ n \in 0 .. 2 * N /\ a \in WordSeqs(n) /\ k \in Nat /\ 0 \in Nat
        /\ x \in [1 .. n -> Nat] /\ \A i \in 1 .. n : x[i] = a[i] * k
        /\ RunsUp(carry, x, n, 0) /\ w = [i \in 1 .. n |-> (x[i] + carry[i - 1]) % B]
    BY <1>4, <1>6, <1>7
  <2>2. RunsTo(w, n, carry[n], k, a, 0)
    BY <2>1, RunUpValue
  <2> QED
    BY <2>2 DEF RunsTo
<1>9. k * Amount(a, n) + 0 = k * Amount(a, n)
  <2>1. Based(a, n) \in Arrays(n)
    BY <1>1 DEF WordSeqs, Arrays, Based
  <2>2. Tails(Based(a, n), n) \in [0 .. n -> Nat]
    BY <2>1, ArrayFacts
  <2>3. Amount(a, n) \in Nat
    BY <1>1, <2>2 DEF Amount
  <2> QED
    BY <2>3
<1> QED
  BY <1>3, <1>8, <1>9 DEF r

\* FPN_AddDigit's loop: a digit added, and what leaves the array.
LEMMA AddDigitFacts ==
  ASSUME WordsOK, NEW n \in 0 .. 2 * N, NEW a \in WordSeqs(n), NEW d \in Nat
  PROVE  /\ AddDigit(a, d) \in WordSeqs(n)
         /\ \E c \in Nat : Amount(AddDigit(a, d), n) + Powers[n] * c = 1 * Amount(a, n) + d
<1> DEFINE Is(f) == f = [i \in 0 .. n |-> IF i = 0 THEN d ELSE (a[i] + f[i - 1]) \div B]
           carry == CHOOSE f : Is(f)
           w == [i \in 1 .. n |-> (a[i] + carry[i - 1]) % B]
<1>1. n \in Nat /\ B \in Nat /\ N \in Nat
  BY DEF WordsOK
<1>2. Len(a) = n
  BY <1>1, Lengths DEF WordSeqs
<1>3. AddDigit(a, d) = w
  BY <1>2 DEF AddDigit
<1>4. a \in [1 .. n -> Nat] /\ \A i \in 1 .. n : a[i] = a[i] * 1
  <2>1. \A i \in 1 .. n : a[i] \in Nat
    <3> HIDE DEF B
    <3>1. \A i \in 1 .. n : a[i] \in 0 .. B - 1
      BY DEF WordSeqs
    <3> QED
      BY <1>1, <3>1
  <2>2. a = [i \in 1 .. n |-> a[i]]
    BY DEF WordSeqs
  <2>3. \A y \in Nat : y = y * 1
    OBVIOUS
  <2> QED
    BY <2>1, <2>2, <2>3
<1> HIDE DEF B
<1>5. \A f : Is(f) <=> RunsUp(f, a, n, d)
  BY DEF RunsUp
<1>6. RunsUp(carry, a, n, d)
  <2>1. \E f : RunsUp(f, a, n, d)
    BY <1>1, <1>4, RunUp
  <2> HIDE DEF Is
  <2>2. \E f : Is(f)
    BY <1>5, <2>1
  <2>3. Is(carry)
    BY <2>2
  <2> QED
    BY <1>5, <2>3
<1> HIDE DEF carry
<1>7. w = [i \in 1 .. n |-> (a[i] + carry[i - 1]) % B]
  OBVIOUS
<1> HIDE DEF w
<1>8. /\ w \in WordSeqs(n) /\ carry[n] \in Nat
      /\ Amount(w, n) + Powers[n] * carry[n] = 1 * Amount(a, n) + d
  <2>1. /\ WordsOK /\ n \in 0 .. 2 * N /\ a \in WordSeqs(n) /\ 1 \in Nat /\ d \in Nat
        /\ a \in [1 .. n -> Nat] /\ \A i \in 1 .. n : a[i] = a[i] * 1
        /\ RunsUp(carry, a, n, d) /\ w = [i \in 1 .. n |-> (a[i] + carry[i - 1]) % B]
    BY <1>4, <1>6, <1>7
  <2>2. RunsTo(w, n, carry[n], 1, a, d)
    BY <2>1, RunUpValue
  <2> QED
    BY <2>2 DEF RunsTo
<1> QED
  BY <1>3, <1>8

\* Remainders that run down an array.
RunsDown(f, a, n, k) ==
  f = [i \in 1 .. n + 1 |-> IF i = n + 1 THEN 0 ELSE (f[i + 1] * B + a[i]) % k]

\* Remainders running down a sequence of words exist and are what each step leaves.
LEMMA RunDown ==
  ASSUME WordsOK, NEW n \in Nat, NEW a \in WordSeqs(n), NEW k \in Nat, k > 0
  PROVE  /\ \E f : RunsDown(f, a, n, k)
         /\ \A f : RunsDown(f, a, n, k)
              => /\ f \in [1 .. n + 1 -> 0 .. k - 1] /\ f[n + 1] = 0
                 /\ \A i \in 1 .. n : f[i] = (f[i + 1] * B + a[i]) % k
<1>1. B \in Nat /\ B > 0
  BY DEF WordsOK
<1>2. \A i \in 1 .. n : a[i] \in Nat
  <2> HIDE DEF B
  <2>1. \A i \in 1 .. n : a[i] \in 0 .. B - 1
    BY DEF WordSeqs
  <2> QED
    BY <1>1, <2>1
<1> HIDE DEF B
<1> DEFINE S == 0 .. k - 1
<1>3. \A v \in Nat : v % k \in S
  OBVIOUS
<1>4. ASSUME NEW v \in S, NEW i \in 1 .. n
      PROVE  (v * B + a[i]) % k \in S
  <2>1. v * B + a[i] \in Nat
    BY <1>1, <1>2
  <2> QED
    BY <1>3, <2>1
<1>5. 0 \in S
  OBVIOUS
<1> HIDE DEF S
<1>6. \E f : RunsDown(f, a, n, k)
  <2> DEFINE step == [j \in 1 .. n |-> [v \in S |-> (v * B + a[n + 1 - j]) % k]]
  <2>1. step \in [1 .. n -> [S -> S]]
    BY <1>4
  <2>2. PICK g : Iterates(g, n, S, 0, step)
    <3> HIDE DEF step
    <3> QED
      BY <1>5, <2>1, Iteration
  <2>3. g \in [0 .. n -> S] /\ g[0] = 0 /\ \A j \in 1 .. n : g[j] = step[j][g[j - 1]]
    BY <2>2 DEF Iterates
  <2>4. ASSUME NEW j \in 1 .. n
        PROVE  g[j] = (g[j - 1] * B + a[n + 1 - j]) % k
    <3>1. j - 1 \in 0 .. n /\ g[j - 1] \in S
      BY <2>3
    <3> QED
      BY <2>3, <3>1
  <2> HIDE DEF step
  <2> DEFINE h == [i \in 1 .. n + 1 |-> g[n + 1 - i]]
  <2>5. ASSUME NEW i \in 1 .. n + 1
        PROVE  h[i] = IF i = n + 1 THEN 0 ELSE (h[i + 1] * B + a[i]) % k
    <3>1. CASE i = n + 1
      BY <3>1, <2>3
    <3>2. CASE i # n + 1
      BY <3>2, <2>4
    <3> QED
      BY <3>1, <3>2
  <2>6. h = [i \in 1 .. n + 1 |-> h[i]]
    OBVIOUS
  <2> HIDE DEF h
  <2>7. h = [i \in 1 .. n + 1 |-> IF i = n + 1 THEN 0 ELSE (h[i + 1] * B + a[i]) % k]
    BY <2>5, <2>6
  <2> QED
    BY <2>7 DEF RunsDown
<1>7. ASSUME NEW f, RunsDown(f, a, n, k)
      PROVE  /\ f \in [1 .. n + 1 -> S] /\ f[n + 1] = 0
             /\ \A i \in 1 .. n : f[i] = (f[i + 1] * B + a[i]) % k
  <2>1. f = [i \in 1 .. n + 1 |-> IF i = n + 1 THEN 0 ELSE (f[i + 1] * B + a[i]) % k]
    BY <1>7 DEF RunsDown
  <2>2. \A i \in 1 .. n + 1 : f[i] = IF i = n + 1 THEN 0 ELSE (f[i + 1] * B + a[i]) % k
    BY <2>1
  <2>3. f[n + 1] = 0
    BY <2>2
  <2>4. \A i \in 1 .. n : f[i] = (f[i + 1] * B + a[i]) % k
    BY <2>2
  <2> DEFINE T == {j \in 0 .. n : f[j + 1] \in S}
  <2>5. n \in T
    BY <1>5, <2>3
  <2>6. ASSUME NEW j \in 0 .. n, j # n, (j + 1) \in T
        PROVE  j \in T
    BY <2>6, <2>4, <1>4
  <2> HIDE DEF T
  <2>7. \A j \in 0 .. n : j \in T
    BY <2>5, <2>6, DownInduction
  <2>8. \A i \in 1 .. n + 1 : f[i] \in S
    <3> TAKE i \in 1 .. n + 1
    <3>1. i - 1 \in 0 .. n /\ (i - 1) + 1 = i
      OBVIOUS
    <3>2. f[(i - 1) + 1] \in S
      BY <2>7, <3>1 DEF T
    <3> QED
      BY <3>1, <3>2
  <2>9. f = [i \in 1 .. n + 1 |-> f[i]]
    BY <2>1
  <2>10. f \in [1 .. n + 1 -> S]
    BY <2>8, <2>9
  <2> QED
    BY <2>3, <2>4, <2>10
<1> QED
  BY <1>6, <1>7 DEF S

\* Sequences counted from zero are arrays, with an amount.
LEMMA AmountFacts ==
  ASSUME WordsOK, NEW n \in 0 .. 2 * N, NEW a \in WordSeqs(n)
  PROVE  /\ n \in Nat /\ Based(a, n) \in Arrays(n) /\ Amount(a, n) \in Nat
         /\ Amount(a, n) < Powers[n] /\ Powers[n] \in Nat
         /\ \A i \in 1 .. n : a[i] \in 0 .. B - 1
<1>1. n \in Nat /\ N \in Nat /\ B \in Nat
  BY DEF WordsOK
<1> HIDE DEF B
<1>2. \A i \in 1 .. n : a[i] \in 0 .. B - 1
  BY DEF WordSeqs
<1>3. \A i \in 0 .. n - 1 : i + 1 \in 1 .. n
  BY <1>1
<1>4. Based(a, n) \in Arrays(n)
  BY <1>2, <1>3 DEF Arrays, Based
<1>5. Low(Based(a, n), n, n) = Amount(a, n) /\ Low(Based(a, n), n, n) \in 0 .. Powers[n] - 1
  <2>1. n \in 0 .. n
    BY <1>1
  <2> QED
    BY <1>4, <2>1, LowFacts DEF Amount
<1>6. Powers[n] \in Nat
  BY PowersFacts
<1> QED
  BY <1>1, <1>2, <1>4, <1>5, <1>6

\* k times w and r are a.
Divided(w, r, n, a, k) ==
  w \in WordSeqs(n) /\ r \in 0 .. k - 1 /\ k * Amount(w, n) + r = Amount(a, n)

\* FPN_DivModSingle: an array by a word, from the top down, and the remainder.
LEMMA DivModFacts ==
  ASSUME WordsOK, NEW n \in 0 .. 2 * N, NEW a \in WordSeqs(n), NEW k \in Nat, k > 0
  PROVE  Divided(DivModSingle(a, k).w, DivModSingle(a, k).out, n, a, k)
<1> DEFINE rem == CHOOSE f : RunsDown(f, a, n, k)
           w == [i \in 1 .. n |-> (rem[i + 1] * B + a[i]) \div k]
           r == DivModSingle(a, k)
           A == Based(a, n)  W == Based(w, n)
           TA(i) == Tails(A, n)[i]  TW(i) == Tails(W, n)[i]
           T == {i \in 0 .. n : k * TW(i) + rem[i + 1] = TA(i)}
<1>1. n \in Nat /\ B \in Nat /\ N \in Nat /\ B > 0
  BY DEF WordsOK
<1>2. Len(a) = n
  BY <1>1, Lengths DEF WordSeqs
<1>3. r = [w |-> w, out |-> rem[1]]
  BY <1>2 DEF DivModSingle, RunsDown
<1>4. /\ rem \in [1 .. n + 1 -> 0 .. k - 1] /\ rem[n + 1] = 0
      /\ \A i \in 1 .. n : rem[i] = (rem[i + 1] * B + a[i]) % k
  <2>1. WordsOK /\ n \in Nat /\ a \in WordSeqs(n) /\ k \in Nat /\ k > 0
    BY <1>1
  <2>2. \E f : RunsDown(f, a, n, k)
    BY <2>1, RunDown
  <2>3. RunsDown(rem, a, n, k)
    BY <2>2
  <2>4. \A f : RunsDown(f, a, n, k)
              => /\ f \in [1 .. n + 1 -> 0 .. k - 1] /\ f[n + 1] = 0
                 /\ \A i \in 1 .. n : f[i] = (f[i + 1] * B + a[i]) % k
    BY <2>1, RunDown
  <2> HIDE DEF rem
  <2> QED
    BY <2>3, <2>4
<1> HIDE DEF rem, r, B
<1>5. ASSUME NEW i \in 1 .. n
      PROVE  /\ w[i] \in 0 .. B - 1 /\ a[i] \in Nat /\ rem[i] \in 0 .. k - 1
             /\ rem[i + 1] \in 0 .. k - 1
             /\ k * w[i] + rem[i] = rem[i + 1] * B + a[i]
  <2> DEFINE v == rem[i + 1] * B + a[i]
  <2>1. i \in 1 .. n + 1 /\ i + 1 \in 1 .. n + 1
    BY <1>1
  <2>2. rem[i + 1] \in 0 .. k - 1 /\ rem[i] \in 0 .. k - 1 /\ a[i] \in 0 .. B - 1
    BY <1>4, <2>1, AmountFacts
  <2>3. v \in Nat /\ v < B * k
    <3> DEFINE p == rem[i + 1]
    <3>1. p \in 0 .. k - 1
      BY <2>2
    <3> HIDE DEF p
    <3>2. p * B <= (k - 1) * B /\ (k - 1) * B = B * k - B /\ p * B \in Nat /\ B * k \in Nat
      BY <1>1, <3>1
    <3> QED
      BY <1>1, <2>2, <3>2 DEF p
  <2>4. w[i] = v \div k /\ rem[i] = v % k
    BY <1>4
  <2> HIDE DEF v
  <2>5. v \div k \in Nat /\ v \div k < B
    BY <1>1, <2>3, CutOff, CutBelow
  <2>6. v = k * (v \div k) + (v % k)
    BY <2>3
  <2> HIDE DEF w
  <2>7. w[i] \in 0 .. B - 1
    BY <1>1, <2>4, <2>5
  <2>8. k * w[i] + rem[i] = v
    BY <2>4, <2>6
  <2> QED
    BY <1>1, <2>2, <2>7, <2>8 DEF v
<1>6. w \in WordSeqs(n)
  BY <1>5 DEF WordSeqs
<1> HIDE DEF w
<1>7. A \in Arrays(n) /\ W \in Arrays(n)
  BY <1>6, AmountFacts
<1>8. /\ \A i \in 0 .. n : TA(i) \in Nat /\ TW(i) \in Nat
      /\ TA(n) = 0 /\ TW(n) = 0
      /\ \A i \in 0 .. n - 1 : TA(i) = A[i] + B * TA(i + 1) /\ TW(i) = W[i] + B * TW(i + 1)
  <2> HIDE DEF A, W
  <2> QED
    BY <1>7, ArrayFacts
<1>9. \A i \in 0 .. n - 1 : A[i] = a[i + 1] /\ W[i] = w[i + 1]
  BY DEF Based
<1> HIDE DEF A, W, TA, TW
<1>10. n \in T
  <2>1. k * 0 = 0
    OBVIOUS
  <2> QED
    BY <1>1, <1>4, <1>8, <2>1
<1>11. ASSUME NEW i \in 0 .. n, i # n, (i + 1) \in T
       PROVE  i \in T
  <2> DEFINE j == i + 1  ta == TA(j)  tw == TW(j)  p == rem[j + 1]  q == rem[j]
             z == w[j]  u == a[j]
  <2>1. i \in 0 .. n - 1 /\ j \in 1 .. n /\ j \in 0 .. n
    BY <1>1, <1>11
  <2>2. k * tw + p = ta
    BY <1>11
  <2>3. TA(i) = u + B * ta /\ TW(i) = z + B * tw /\ ta \in Nat /\ tw \in Nat
    BY <1>8, <1>9, <2>1
  <2>4. z \in Nat /\ u \in Nat /\ p \in Nat /\ q \in Nat /\ k * z + q = p * B + u
    BY <1>1, <1>5, <2>1
  <2> HIDE DEF ta, tw, p, z, u
  <2>5. k * TW(i) + q = TA(i)
    <3>1. k * (z + B * tw) = k * z + B * (k * tw)
      BY <1>1, <2>3, <2>4
    <3>2. B * (k * tw + p) = B * (k * tw) + p * B
      BY <1>1, <2>3, <2>4
    <3> DEFINE a1 == k * z  a2 == B * (k * tw)  a3 == p * B  a4 == B * ta  a5 == k * TW(i)
               a6 == B * (k * tw + p)
    <3>3. /\ a5 = a1 + a2 /\ a6 = a2 + a3 /\ a6 = a4 /\ a1 + q = a3 + u /\ TA(i) = u + a4
          /\ a1 \in Nat /\ a2 \in Nat /\ a3 \in Nat /\ a4 \in Nat
      BY <1>1, <2>2, <2>3, <2>4, <3>1, <3>2
    <3> HIDE DEF a1, a2, a3, a4, a5, a6, q
    <3>4. a5 + q = TA(i)
      BY <2>4, <3>3
    <3> QED
      BY <3>4 DEF a5
  <2> QED
    BY <2>1, <2>5
<1>12. 0 \in T
  <2> HIDE DEF T
  <2>1. \A i \in 0 .. n : i \in T
    BY <1>1, <1>10, <1>11, DownInduction
  <2> QED
    BY <1>1, <2>1
<1>13. k * TW(0) + rem[1] = TA(0)
  BY <1>12
<1>14. rem[1] \in 0 .. k - 1
  BY <1>1, <1>4
<1>15. k * Amount(w, n) + rem[1] = Amount(a, n)
  BY <1>13 DEF Amount, A, W, TA, TW
<1>16. Divided(w, rem[1], n, a, k)
  BY <1>6, <1>14, <1>15 DEF Divided
<1>17. r.w = w /\ r.out = rem[1]
  BY <1>3
<1> QED
  BY <1>16, <1>17 DEF r

\* Arrays of any lengths whose lower words are the same.
LEMMA LowAlike ==
  ASSUME WordsOK, NEW n \in 0 .. 2 * N, NEW m \in 0 .. 2 * N,
         NEW v \in Arrays(n), NEW w \in Arrays(m), NEW e \in Nat, e <= n, e <= m,
         \A k \in 0 .. e - 1 : v[k] = w[k]
  PROVE  Low(v, n, e) = Low(w, m, e)
<1> DEFINE T == {i \in 0 .. e : Low(v, n, i) = Low(w, m, i)}
           LV(i) == Low(v, n, i)  LW(i) == Low(w, m, i)
<1>1. n \in Nat /\ m \in Nat
  BY DEF WordsOK
<1>2. LV(0) = 0 /\ \A i \in 0 .. n - 1 : LV(i + 1) = LV(i) + Powers[i] * v[i]
  BY LowFacts
<1>3. LW(0) = 0 /\ \A i \in 0 .. m - 1 : LW(i + 1) = LW(i) + Powers[i] * w[i]
  BY LowFacts
<1> HIDE DEF LV, LW
<1>4. 0 \in T
  BY <1>2, <1>3 DEF LV, LW
<1>5. ASSUME NEW i \in 0 .. e, i # e, i \in T
      PROVE  (i + 1) \in T
  BY <1>1, <1>5, <1>2, <1>3 DEF LV, LW
<1> HIDE DEF T
<1>6. \A i \in 0 .. e : i \in T
  BY <1>4, <1>5, IntervalInduction
<1>7. e \in T
  BY <1>6
<1> QED
  BY <1>7 DEF T

\* An array whose words are the upper ones of another.
LEMMA UpperAlike ==
  ASSUME WordsOK, NEW n \in 0 .. 2 * N, NEW m \in 0 .. 2 * N, NEW j \in Nat, m = n + j,
         NEW v \in Arrays(n), NEW w \in Arrays(m), \A k \in 0 .. n - 1 : w[j + k] = v[k]
  PROVE  Tails(w, m)[j] = Tails(v, n)[0]
<1> DEFINE TV == Tails(v, n)  TW == Tails(w, m)
           T == {i \in 0 .. n : TW[j + i] = TV[i]}
<1>1. n \in Nat /\ m \in Nat
  BY DEF WordsOK
<1>2. TV[n] = 0 /\ \A i \in 0 .. n - 1 : TV[i] = v[i] + B * TV[i + 1]
  BY ArrayFacts
<1>3. TW[m] = 0 /\ \A i \in 0 .. m - 1 : TW[i] = w[i] + B * TW[i + 1]
  BY ArrayFacts
<1> HIDE DEF TV, TW, B
<1>4. n \in T
  <2>1. j + n = m
    BY <1>1
  <2> QED
    BY <1>1, <1>2, <1>3, <2>1
<1>5. ASSUME NEW i \in 0 .. n, i # n, (i + 1) \in T
      PROVE  i \in T
  BY <1>1, <1>5, <1>2, <1>3
<1> HIDE DEF T
<1>6. \A i \in 0 .. n : i \in T
  BY <1>1, <1>4, <1>5, DownInduction
<1>7. 0 \in T /\ j + 0 = j
  BY <1>1, <1>6
<1> QED
  BY <1>7 DEF T, TV, TW

\* The words above and below the point, as the string functions take them.
LEMMA HalvesTaken ==
  ASSUME FormatOK, NEW w \in Words
  PROVE  /\ IntWords(w) \in WordSeqs(FW) /\ FracWords(w) \in WordSeqs(FW)
         /\ Digits(w) = Amount(FracWords(w), FW) + Unit * Amount(IntWords(w), FW)
<1> DEFINE i == IntWords(w)  f == FracWords(w)  I == Based(i, FW)  F == Based(f, FW)
<1>1. /\ WordsOK /\ EvenWords /\ N \in Nat /\ N > 0 /\ FW \in Nat /\ FW > 0 /\ FW + FW = N
      /\ FW < N /\ N - FW = FW
      /\ FW \in 0 .. 2 * N /\ N \in 0 .. 2 * N /\ FW \in 0 .. N /\ B \in Nat
  <2>1. WordsOK /\ EvenWords /\ N \in Nat /\ N > 0 /\ FW \in Nat /\ FW > 0 /\ FW + FW = N
        /\ FW < N /\ B \in Nat
    BY FormatFacts, PointFacts DEF WordsOK
  <2> HIDE DEF FW, B
  <2> QED
    BY <2>1
<1>2. w \in Arrays(N) /\ \A k \in 0 .. N - 1 : w[k] \in 0 .. B - 1
  BY DEF Arrays, Words
<1>3. Unit = Powers[FW]
  BY DEF Unit
<1> HIDE DEF FW, B
<1>4. i \in WordSeqs(FW) /\ f \in WordSeqs(FW)
  BY <1>1, <1>2 DEF IntWords, FracWords, WordSeqs
<1>5. /\ \A k \in 0 .. FW - 1 : I[k] = w[FW + k]
      /\ \A k \in 0 .. FW - 1 : F[k] = w[k]
  BY <1>1 DEF Based, IntWords, FracWords
<1>6. I \in Arrays(FW) /\ F \in Arrays(FW)
  <2> HIDE DEF i, f
  <2> QED
    BY <1>1, <1>4, AmountFacts
<1> HIDE DEF I, F
<1>7. Tails(w, N)[FW] = Tails(I, FW)[0]
  BY <1>1, <1>2, <1>5, <1>6, UpperAlike
<1>8. Low(w, N, FW) = Low(F, FW, FW)
  BY <1>1, <1>2, <1>5, <1>6, LowAlike
<1>9. Low(F, FW, FW) = Tails(F, FW)[0]
  BY <1>1, <1>6, LowFacts
<1>10. Tails(w, N)[0] = Low(w, N, FW) + Powers[FW] * Tails(w, N)[FW]
  BY <1>1, <1>2, LowFacts
<1>11. Digits(w) = Tails(w, N)[0]
  BY DEF Digits
<1> QED
  BY <1>3, <1>4, <1>7, <1>8, <1>9, <1>10, <1>11 DEF Amount, I, F

\* One word on top of an array: what the array is worth without it.
LEMMA TopWord ==
  ASSUME FormatOK, NEW g \in WordSeqs(FW + 1)
  PROVE  LET low == Low(Based(g, FW + 1), FW + 1, FW)
         IN  /\ low \in 0 .. Unit - 1 /\ g[FW + 1] \in 0 .. B - 1
             /\ Amount(g, FW + 1) = low + Unit * g[FW + 1]
             /\ Amount(g, FW + 1) < Unit => low = Amount(g, FW + 1)
<1> DEFINE G == Based(g, FW + 1)  m == FW + 1  low == Low(G, m, FW)  d == g[FW + 1]
<1>1. /\ WordsOK /\ FW \in Nat /\ m \in 0 .. 2 * N /\ FW \in 0 .. m - 1 /\ FW \in 0 .. m
      /\ m \in 0 .. m /\ Unit \in Nat /\ Unit > 0 /\ B \in Nat
  <2>1. WordsOK /\ EvenWords /\ N \in Nat /\ N > 0 /\ FW \in Nat /\ FW + FW = N
        /\ Unit \in Nat /\ Unit > 0 /\ B \in Nat
    BY FormatFacts, PointFacts DEF WordsOK
  <2> HIDE DEF FW, B
  <2> QED
    BY <2>1
<1>2. Unit = Powers[FW]
  BY DEF Unit
<1> HIDE DEF FW, B, m, Unit
<1>3. g \in WordSeqs(m) /\ G = Based(g, m)
  BY DEF m
<1>4. G \in Arrays(m) /\ \A k \in 1 .. m : g[k] \in 0 .. B - 1
  BY <1>1, <1>3, AmountFacts
<1>5. G[FW] = d /\ d \in 0 .. B - 1
  BY <1>1, <1>4 DEF m, Based
<1> HIDE DEF G, d
<1>6. /\ Low(G, m, m) = Tails(G, m)[0]
      /\ \A k \in 0 .. m - 1 : Low(G, m, k + 1) = Low(G, m, k) + Powers[k] * G[k]
      /\ \A k \in 0 .. m : Low(G, m, k) \in 0 .. Powers[k] - 1
  BY <1>1, <1>4, LowFacts
<1>7. Low(G, m, m) = low + Unit * d /\ low \in 0 .. Unit - 1
  BY <1>1, <1>6, <1>2, <1>5 DEF m
<1>8. Tails(G, m)[0] = low + Unit * d
  BY <1>6, <1>7
<1>9. Amount(g, FW + 1) = Tails(G, m)[0]
  BY DEF Amount, G, m
<1> DEFINE v == Amount(g, FW + 1)
<1>10. v = low + Unit * d
  BY <1>8, <1>9
<1> HIDE DEF low, v
<1>11. v < Unit => low = v
  BY <1>1, <1>5, <1>7, <1>10
<1> QED
  BY <1>5, <1>7, <1>10, <1>11 DEF low, v, d, G, m

\* The digit that is put on top of a fraction.
LEMMA DigitOnTop ==
  ASSUME FormatOK, NEW g \in WordSeqs(FW + 1), NEW d \in 0 .. B - 1, Amount(g, FW + 1) < Unit
  PROVE  LET h == [g EXCEPT ![FW + 1] = d]
         IN  h \in WordSeqs(FW + 1) /\ Amount(h, FW + 1) = Amount(g, FW + 1) + Unit * d
<1> DEFINE m == FW + 1  h == [g EXCEPT ![m] = d]
<1>1. /\ WordsOK /\ FW \in Nat /\ m \in 0 .. 2 * N /\ FW \in 0 .. m /\ m \in 1 .. m
  <2>1. WordsOK /\ EvenWords /\ N \in Nat /\ N > 0 /\ FW \in Nat /\ FW + FW = N
    BY FormatFacts, PointFacts
  <2> HIDE DEF FW
  <2> QED
    BY <2>1
<1> HIDE DEF FW, B
<1>2. h \in WordSeqs(FW + 1) /\ h[m] = d /\ \A k \in 1 .. m : k # m => h[k] = g[k]
  <2>1. m = FW + 1
    OBVIOUS
  <2> HIDE DEF m
  <2> QED
    BY <1>1, <2>1 DEF WordSeqs
<1> HIDE DEF h
<1>3. Low(Based(h, m), m, FW) = Low(Based(g, m), m, FW)
  <2>1. Based(h, m) \in Arrays(m) /\ Based(g, m) \in Arrays(m)
    BY <1>1, <1>2, AmountFacts
  <2>2. \A k \in 0 .. FW - 1 : Based(h, m)[k] = Based(g, m)[k]
    BY <1>1, <1>2 DEF Based
  <2> HIDE DEF m
  <2> QED
    BY <1>1, <2>1, <2>2, LowSame
<1>4. LET low == Low(Based(g, FW + 1), FW + 1, FW)
      IN  Amount(g, FW + 1) < Unit => low = Amount(g, FW + 1)
  BY TopWord
<1>5. LET low == Low(Based(h, FW + 1), FW + 1, FW)
      IN  Amount(h, FW + 1) = low + Unit * h[FW + 1]
  BY <1>2, TopWord
<1>6. Amount(h, FW + 1) = Amount(g, FW + 1) + Unit * d
  BY <1>2, <1>3, <1>4, <1>5
<1> QED
  BY <1>2, <1>6 DEF h

\* The two halves put back together.
LEMMA HalvesJoined ==
  ASSUME FormatOK, NEW g \in WordSeqs(FW + 1), NEW h \in WordSeqs(FW), NEW w,
         w = [i \in 0 .. N - 1 |-> IF i < FW THEN g[i + 1] ELSE h[i - FW + 1]]
  PROVE  /\ w \in Words
         /\ Amount(g, FW + 1) < Unit
              => Digits(w) = Amount(g, FW + 1) + Unit * Amount(h, FW)
<1> DEFINE m == FW + 1  G == Based(g, m)  H == Based(h, FW)
<1>1. /\ WordsOK /\ N \in Nat /\ FW \in Nat /\ FW > 0 /\ N = FW + FW /\ FW < N
      /\ m \in 0 .. 2 * N /\ FW \in 0 .. 2 * N /\ N \in 0 .. 2 * N /\ FW \in 0 .. N
  <2>1. WordsOK /\ EvenWords /\ N \in Nat /\ N > 0 /\ FW \in Nat /\ FW + FW = N /\ FW > 0
    BY FormatFacts, PointFacts
  <2> HIDE DEF FW
  <2> QED
    BY <2>1
<1>2. Unit = Powers[FW]
  BY DEF Unit
<1> HIDE DEF FW, B
<1>3. /\ G \in Arrays(m) /\ H \in Arrays(FW)
      /\ (\A k \in 1 .. m : g[k] \in 0 .. B - 1) /\ (\A j \in 1 .. FW : h[j] \in 0 .. B - 1)
  <2>1. g \in WordSeqs(m)
    OBVIOUS
  <2> HIDE DEF m
  <2>2. G \in Arrays(m) /\ \A k \in 1 .. m : g[k] \in 0 .. B - 1
    BY <1>1, <2>1, AmountFacts
  <2>3. H \in Arrays(FW) /\ \A k \in 1 .. FW : h[k] \in 0 .. B - 1
    BY <1>1, AmountFacts
  <2> QED
    BY <2>2, <2>3
<1>4. \A k \in 0 .. N - 1 : w[k] \in 0 .. B - 1
  <2> SUFFICES ASSUME NEW k \in 0 .. N - 1 PROVE w[k] \in 0 .. B - 1
    OBVIOUS
  <2>1. CASE k < FW
    BY <1>1, <2>1, <1>3
  <2>2. CASE ~(k < FW)
    BY <1>1, <2>2 DEF WordSeqs
  <2> QED
    BY <2>1, <2>2
<1>5. w \in Words /\ w \in Arrays(N)
  BY <1>4 DEF Words, Arrays
<1>6. \A k \in 0 .. FW - 1 : w[k] = G[k]
  BY <1>1 DEF Based
<1>7. \A k \in 0 .. FW - 1 : w[FW + k] = H[k]
  BY <1>1 DEF Based
<1> HIDE DEF G, H
<1>8. Tails(w, N)[FW] = Tails(H, FW)[0]
  <2>1. /\ WordsOK /\ FW \in 0 .. 2 * N /\ N \in 0 .. 2 * N /\ FW \in Nat /\ N = FW + FW
        /\ H \in Arrays(FW) /\ w \in Arrays(N) /\ \A k \in 0 .. FW - 1 : w[FW + k] = H[k]
    BY <1>1, <1>3, <1>5, <1>7
  <2> QED
    BY <2>1, UpperAlike
<1>9. Low(w, N, FW) = Low(G, m, FW)
  <2>1. FW <= N /\ FW <= m
    BY <1>1
  <2> HIDE DEF m
  <2>2. /\ WordsOK /\ m \in 0 .. 2 * N /\ N \in 0 .. 2 * N /\ FW \in Nat /\ FW <= N /\ FW <= m
        /\ G \in Arrays(m) /\ w \in Arrays(N) /\ \A k \in 0 .. FW - 1 : w[k] = G[k]
    BY <1>1, <1>3, <1>5, <1>6, <2>1
  <2> QED
    BY <2>2, LowAlike
<1>10. Tails(w, N)[0] = Low(w, N, FW) + Powers[FW] * Tails(w, N)[FW]
  BY <1>1, <1>5, LowFacts
<1>11. Digits(w) = Tails(w, N)[0]
  BY DEF Digits
<1>12. LET low == Low(Based(g, FW + 1), FW + 1, FW)
       IN  Amount(g, FW + 1) < Unit => low = Amount(g, FW + 1)
  BY TopWord
<1>13. Low(G, m, FW) = Low(Based(g, FW + 1), FW + 1, FW) /\ Tails(H, FW)[0] = Amount(h, FW)
  BY DEF G, H, m, Amount
<1> QED
  BY <1>2, <1>5, <1>8, <1>9, <1>10, <1>11, <1>12, <1>13

\* The base of the digits.
RadixOK == Radix \in Nat /\ Radix > 1 /\ Radix <= B

\* What follows from the format alone, for the two halves of a number.
LEMMA HalfRange ==
  ASSUME FormatOK
  PROVE  /\ WordsOK /\ FW \in Nat /\ FW > 0 /\ FW \in 0 .. 2 * N /\ FW + 1 \in 0 .. 2 * N
         /\ FW + 1 \in Nat /\ FW + FW = N /\ N - FW = FW /\ Unit \in Nat /\ Unit > 0
         /\ Unit = Powers[FW] /\ B \in Nat /\ B > 1
<1>1. WordsOK /\ EvenWords /\ N \in Nat /\ N > 0 /\ FW \in Nat /\ FW + FW = N /\ FW > 0
      /\ Unit \in Nat /\ Unit > 0 /\ B \in Nat /\ B > 1
  BY FormatFacts, PointFacts DEF WordsOK
<1>2. Unit = Powers[FW]
  BY DEF Unit
<1> HIDE DEF FW, B, Unit
<1>3. FW \in 0 .. 2 * N /\ FW + 1 \in 0 .. 2 * N /\ FW + 1 \in Nat /\ N - FW = FW
  BY <1>1
<1> QED
  BY <1>1, <1>2, <1>3

\* What the two loops of FPN_ToString leave, digit by digit.
IntSteps(v) ==
  LET ints[k \in 0 .. N * Bits] ==
        IF k = 0 THEN [w |-> IntWords(v.w), out |-> 0]
        ELSE DivModSingle(ints[k - 1].w, Radix)
  IN  ints
FracSteps(v) ==
  LET fracs[k \in 0 .. Places] ==
        IF k = 0 THEN [w |-> FracWords(v.w), out |-> 0]
        ELSE MulSingle(fracs[k - 1].w, Radix)
  IN  fracs

\* Integers are divided down ...
LEMMA IntStepsFacts ==
  ASSUME FormatOK, RadixOK, NEW v \in FPNs
  PROVE  /\ IntSteps(v)[0].w = IntWords(v.w)
         /\ \A k \in 0 .. N * Bits : IntSteps(v)[k].w \in WordSeqs(FW)
         /\ \A k \in 0 .. N * Bits - 1 :
              Divided(IntSteps(v)[k + 1].w, IntSteps(v)[k + 1].out, FW, IntSteps(v)[k].w, Radix)
<1> DEFINE n == N * Bits
           x == [w |-> IntWords(v.w), out |-> 0]
           S == [w : WordSeqs(FW), out : Nat]
           Is(f) == f = [k \in 0 .. n |-> IF k = 0 THEN x ELSE DivModSingle(f[k - 1].w, Radix)]
           f == IntSteps(v)
           step == [k \in 1 .. n |-> [s \in S |-> DivModSingle(s.w, Radix)]]
<1>1. WordsOK /\ FW \in 0 .. 2 * N /\ n \in Nat /\ v.w \in Words
  BY FormatFacts, HalfRange DEF WordsOK, FPNs
<1>2. x \in S
  BY <1>1, HalvesTaken
<1>3. ASSUME NEW a \in WordSeqs(FW)
      PROVE  DivModSingle(a, Radix) \in S /\ Divided(DivModSingle(a, Radix).w,
                                                     DivModSingle(a, Radix).out, FW, a, Radix)
  <2> DEFINE r == DivModSingle(a, Radix)
  <2>1. r = [w |-> r.w, out |-> r.out]
    BY DEF DivModSingle
  <2>2. Divided(r.w, r.out, FW, a, Radix)
    <3>1. WordsOK /\ FW \in 0 .. 2 * N /\ a \in WordSeqs(FW) /\ Radix \in Nat /\ Radix > 0
      BY <1>1 DEF RadixOK
    <3> HIDE DEF FW
    <3> QED
      BY <3>1, DivModFacts
  <2> HIDE DEF r
  <2>3. r.w \in WordSeqs(FW) /\ r.out \in Nat
    BY <2>2 DEF Divided, RadixOK
  <2> QED
    BY <2>1, <2>2, <2>3 DEF r
<1>4. f = CHOOSE g : Is(g)
  BY DEF IntSteps
<1> HIDE DEF S, n, x, f
<1>5. Is(f)
  <2>1. step \in [1 .. n -> [S -> S]] /\ \A k \in 1 .. n, s \in S :
                                          step[k][s] = DivModSingle(s.w, Radix)
    BY <1>3 DEF S
  <2> HIDE DEF step
  <2>2. PICK g : Iterates(g, n, S, x, step)
    BY <1>1, <1>2, <2>1, Iteration
  <2>3. g \in [0 .. n -> S] /\ g[0] = x /\ \A k \in 1 .. n : g[k] = step[k][g[k - 1]]
    BY <2>2 DEF Iterates
  <2>4. \A k \in 1 .. n : k - 1 \in 0 .. n /\ g[k - 1] \in S
    BY <1>1, <2>3
  <2>5. \A k \in 1 .. n : g[k] = DivModSingle(g[k - 1].w, Radix)
    BY <2>1, <2>3, <2>4
  <2>6. \A k \in 0 .. n : g[k] = IF k = 0 THEN x ELSE DivModSingle(g[k - 1].w, Radix)
    BY <1>1, <2>3, <2>5
  <2>7. g = [k \in 0 .. n |-> g[k]]
    BY <2>3
  <2>8. Is(g)
    BY <2>6, <2>7
  <2> HIDE DEF Is
  <2> QED
    BY <1>4, <2>8
<1>6. \A k \in 0 .. n : f[k] = IF k = 0 THEN x ELSE DivModSingle(f[k - 1].w, Radix)
  BY <1>5
<1> DEFINE T == {k \in 0 .. n : f[k] \in S}
<1>7. 0 \in T
  BY <1>1, <1>2, <1>6
<1>8. ASSUME NEW k \in 0 .. n, k # n, k \in T
      PROVE  (k + 1) \in T
  BY <1>1, <1>8, <1>6, <1>3 DEF S
<1> HIDE DEF T
<1>9. \A k \in 0 .. n : k \in T
  BY <1>1, <1>7, <1>8, IntervalInduction
<1>10. \A k \in 0 .. n : f[k].w \in WordSeqs(FW)
  BY <1>9 DEF T, S
<1>11. ASSUME NEW k \in 0 .. n - 1
       PROVE  Divided(f[k + 1].w, f[k + 1].out, FW, f[k].w, Radix)
  BY <1>1, <1>6, <1>3, <1>10
<1>12. f[0].w = IntWords(v.w)
  <2>1. f[0] = x
    BY <1>1, <1>6
  <2> QED
    BY <2>1 DEF x
<1> QED
  BY <1>10, <1>11, <1>12 DEF f, n

\* ... and fractions are multiplied up.
LEMMA FracStepsFacts ==
  ASSUME FormatOK, RadixOK, Places \in Nat, NEW v \in FPNs
  PROVE  /\ FracSteps(v)[0].w = FracWords(v.w)
         /\ \A k \in 0 .. Places : FracSteps(v)[k].w \in WordSeqs(FW)
         /\ \A k \in 0 .. Places - 1 :
              /\ FracSteps(v)[k + 1].out \in Nat
              /\ Amount(FracSteps(v)[k + 1].w, FW) + Unit * FracSteps(v)[k + 1].out
                   = Radix * Amount(FracSteps(v)[k].w, FW)
<1> DEFINE n == Places
           x == [w |-> FracWords(v.w), out |-> 0]
           S == [w : WordSeqs(FW), out : Nat]
           Is(f) == f = [k \in 0 .. n |-> IF k = 0 THEN x ELSE MulSingle(f[k - 1].w, Radix)]
           f == FracSteps(v)
           step == [k \in 1 .. n |-> [s \in S |-> MulSingle(s.w, Radix)]]
           Carried(r, a) == r.out \in Nat
                            /\ Amount(r.w, FW) + Unit * r.out = Radix * Amount(a, FW)
<1>1. WordsOK /\ FW \in 0 .. 2 * N /\ n \in Nat /\ v.w \in Words /\ Unit = Powers[FW]
  BY HalfRange DEF FPNs
<1>2. x \in S
  BY <1>1, HalvesTaken
<1>3. ASSUME NEW a \in WordSeqs(FW)
      PROVE  MulSingle(a, Radix) \in S /\ Carried(MulSingle(a, Radix), a)
  <2> DEFINE r == MulSingle(a, Radix)
  <2>1. r = [w |-> r.w, out |-> r.out]
    BY DEF MulSingle
  <2>2. r.w \in WordSeqs(FW) /\ r.out \in Nat
        /\ Amount(r.w, FW) + Powers[FW] * r.out = Radix * Amount(a, FW)
    <3>1. WordsOK /\ FW \in 0 .. 2 * N /\ a \in WordSeqs(FW) /\ Radix \in Nat
      BY <1>1 DEF RadixOK
    <3> HIDE DEF FW
    <3> QED
      BY <3>1, MulSingleFacts
  <2> HIDE DEF r
  <2> QED
    BY <1>1, <2>1, <2>2 DEF r
<1>4. f = CHOOSE g : Is(g)
  BY DEF FracSteps
<1> HIDE DEF S, n, x, f, Carried
<1>5. Is(f)
  <2>1. step \in [1 .. n -> [S -> S]] /\ \A k \in 1 .. n, s \in S :
                                          step[k][s] = MulSingle(s.w, Radix)
    BY <1>3 DEF S
  <2> HIDE DEF step
  <2>2. PICK g : Iterates(g, n, S, x, step)
    BY <1>1, <1>2, <2>1, Iteration
  <2>3. g \in [0 .. n -> S] /\ g[0] = x /\ \A k \in 1 .. n : g[k] = step[k][g[k - 1]]
    BY <2>2 DEF Iterates
  <2>4. \A k \in 1 .. n : k - 1 \in 0 .. n /\ g[k - 1] \in S
    BY <1>1, <2>3
  <2>5. \A k \in 1 .. n : g[k] = MulSingle(g[k - 1].w, Radix)
    BY <2>1, <2>3, <2>4
  <2>6. \A k \in 0 .. n : g[k] = IF k = 0 THEN x ELSE MulSingle(g[k - 1].w, Radix)
    BY <1>1, <2>3, <2>5
  <2>7. g = [k \in 0 .. n |-> g[k]]
    BY <2>3
  <2>8. Is(g)
    BY <2>6, <2>7
  <2> HIDE DEF Is
  <2> QED
    BY <1>4, <2>8
<1>6. \A k \in 0 .. n : f[k] = IF k = 0 THEN x ELSE MulSingle(f[k - 1].w, Radix)
  BY <1>5
<1> DEFINE T == {k \in 0 .. n : f[k] \in S}
<1>7. 0 \in T
  BY <1>1, <1>2, <1>6
<1>8. ASSUME NEW k \in 0 .. n, k # n, k \in T
      PROVE  (k + 1) \in T
  BY <1>1, <1>8, <1>6, <1>3 DEF S
<1> HIDE DEF T
<1>9. \A k \in 0 .. n : k \in T
  BY <1>1, <1>7, <1>8, IntervalInduction
<1>10. \A k \in 0 .. n : f[k].w \in WordSeqs(FW)
  BY <1>9 DEF T, S
<1>11. ASSUME NEW k \in 0 .. n - 1
       PROVE  Carried(f[k + 1], f[k].w)
  BY <1>1, <1>6, <1>3, <1>10
<1>12. f[0].w = FracWords(v.w)
  <2>1. f[0] = x
    BY <1>1, <1>6
  <2> QED
    BY <2>1 DEF x
<1> QED
  BY <1>10, <1>11, <1>12 DEF f, n, Carried

\* Nothing but zeros is worth nothing.
LEMMA NoDigits ==
  ASSUME WordsOK, NEW n \in 0 .. 2 * N, NEW a \in WordSeqs(n)
  PROVE  MagIsZero(a) <=> Amount(a, n) = 0
<1> DEFINE A == Based(a, n)
<1>1. n \in Nat /\ A \in Arrays(n) /\ 0 \in 0 .. n
  BY AmountFacts
<1>2. (\A k \in 0 .. n - 1 : A[k] = 0) <=> Tails(A, n)[0] = 0
  <2> HIDE DEF A
  <2> QED
    BY <1>1, NoWords
<1>3. MagIsZero(a) <=> \A i \in 1 .. n : a[i] = 0
  <2>1. DOMAIN a = 1 .. n
    BY DEF WordSeqs
  <2> QED
    BY <2>1 DEF MagIsZero
<1>4. (\A i \in 1 .. n : a[i] = 0) <=> \A k \in 0 .. n - 1 : A[k] = 0
  <2>1. \A k \in 0 .. n - 1 : k + 1 \in 1 .. n /\ A[k] = a[k + 1]
    BY <1>1 DEF Based
  <2>2. \A i \in 1 .. n : i - 1 \in 0 .. n - 1 /\ (i - 1) + 1 = i
    BY <1>1
  <2> HIDE DEF A
  <2>3. ASSUME \A k \in 0 .. n - 1 : A[k] = 0, NEW i \in 1 .. n
        PROVE  a[i] = 0
    BY <2>1, <2>2, <2>3
  <2> QED
    BY <2>1, <2>3
<1> QED
  BY <1>2, <1>3, <1>4 DEF Amount

\* The number of digits of the integer part.
TextLength(v) ==
  CHOOSE k \in 1 .. N * Bits :
    /\ MagIsZero(IntSteps(v)[k].w)
    /\ k = 1 \/ ~MagIsZero(IntSteps(v)[k - 1].w)

\* What is left of the integer after k digits.
Rest(v, k) == Amount(IntSteps(v)[k].w, FW)

\* The division ends: as many bits as there are, halved each time, leave nothing.
LEMMA TextLengthFacts ==
  ASSUME FormatOK, RadixOK, NEW v \in FPNs
  PROVE  TextLength(v) \in 1 .. N * Bits /\ Rest(v, TextLength(v)) = 0
<1> DEFINE t == N * Bits
           a(k) == IntSteps(v)[k].w
           I(k) == Rest(v, k)
           P(k) == MagIsZero(a(k)) /\ (k = 1 \/ ~MagIsZero(a(k - 1)))
<1>1. WordsOK /\ t \in Nat /\ t >= 1 /\ FW \in 0 .. 2 * N /\ N \in Nat
  BY FormatFacts, HalfRange DEF WordsOK
<1>2. /\ \A k \in 0 .. t : a(k) \in WordSeqs(FW)
      /\ \A k \in 0 .. t - 1 : Divided(a(k + 1), IntSteps(v)[k + 1].out, FW, a(k), Radix)
  BY IntStepsFacts
<1> HIDE DEF a
<1>3. \A k \in 0 .. t : I(k) \in Nat /\ I(k) < Powers[FW] /\ (MagIsZero(a(k)) <=> I(k) = 0)
  <2> SUFFICES ASSUME NEW k \in 0 .. t
               PROVE  I(k) \in Nat /\ I(k) < Powers[FW] /\ (MagIsZero(a(k)) <=> I(k) = 0)
    OBVIOUS
  <2>1. a(k) \in WordSeqs(FW) /\ I(k) = Amount(a(k), FW)
    BY <1>2 DEF Rest, a
  <2> HIDE DEF I, FW, t
  <2> QED
    BY <1>1, <2>1, AmountFacts, NoDigits
<1>4. /\ Weight(0) = Powers[N] /\ Weight(t) = 1
      /\ \A k \in 0 .. t : Weight(k) \in Nat
      /\ \A k \in 0 .. t - 1 : Weight(k) = 2 * Weight(k + 1)
  BY WeightFacts
<1>5. ASSUME NEW k \in 0 .. t - 1
      PROVE  2 * I(k + 1) <= I(k)
  <2>1. Divided(a(k + 1), IntSteps(v)[k + 1].out, FW, a(k), Radix)
    BY <1>2
  <2>2. k + 1 \in 0 .. t /\ k \in 0 .. t
    BY <1>1
  <2> DEFINE i == I(k + 1)  o == IntSteps(v)[k + 1].out  j == I(k)
  <2>3. i \in Nat /\ j \in Nat
    BY <1>3, <2>2
  <2>4. o \in 0 .. Radix - 1 /\ Radix * i + o = j
    BY <2>1 DEF Divided, Rest, a
  <2>5. Radix \in Nat /\ Radix > 1
    BY DEF RadixOK
  <2> HIDE DEF i, o, j
  <2>6. Radix * i >= 2 * i /\ Radix * i \in Nat
    BY <2>3, <2>5
  <2>7. 2 * i <= j
    BY <2>3, <2>4, <2>5, <2>6
  <2> QED
    BY <2>7 DEF i, j
<1> DEFINE T == {k \in 0 .. t : I(k) < Weight(k)}
<1> HIDE DEF I, t
<1>6. 0 \in T
  <2>1. I(0) \in Nat /\ I(0) < Powers[FW] /\ 0 \in 0 .. t
    BY <1>1, <1>3
  <2>2. Powers[FW] <= Powers[N]
    <3>1. N \in 0 .. 2 * N /\ FW \in 0 .. 2 * N - FW /\ FW + FW = N
      <4>1. FW \in Nat /\ FW + FW = N
        BY HalfRange
      <4> HIDE DEF FW
      <4> QED
        BY <1>1, <4>1
    <3>2. Powers[FW] * Powers[FW] = Powers[FW + FW]
      BY <1>1, <3>1, PowersMultiply
    <3>3. Powers[FW] \in Nat /\ Powers[FW] > 0
      BY <1>1, PowersFacts
    <3> DEFINE p == Powers[FW]
    <3>4. p \in Nat /\ p >= 1 /\ p * p = Powers[N]
      BY <3>1, <3>2, <3>3
    <3> HIDE DEF p
    <3>5. p * p >= p
      BY <3>4
    <3> QED
      BY <3>4, <3>5 DEF p
  <2>3. Powers[FW] \in Nat /\ Powers[N] \in Nat
    BY <1>1, PowersFacts
  <2>4. I(0) < Weight(0)
    BY <1>4, <2>1, <2>2, <2>3
  <2> QED
    BY <2>1, <2>4
<1>7. ASSUME NEW k \in 0 .. t, k # t, k \in T
      PROVE  (k + 1) \in T
  BY <1>1, <1>7, <1>4, <1>5, <1>3
<1>8. I(t) = 0
  <2>1. \A k \in 0 .. t : k \in T
    <3> HIDE DEF T
    <3> QED
      BY <1>1, <1>6, <1>7, IntervalInduction
  <2>2. t \in 0 .. t
    BY <1>1
  <2>3. I(t) < Weight(t) /\ I(t) \in Nat
    BY <1>3, <2>1, <2>2
  <2> QED
    BY <1>4, <2>3
<1> DEFINE R == {k \in 0 .. t : k = 0 \/ ~MagIsZero(a(k)) \/ \E j \in 1 .. k : P(j)}
<1>9. 0 \in R
  BY <1>1
<1>10. ASSUME NEW k \in 0 .. t, k # t, k \in R
       PROVE  (k + 1) \in R
  <2>1. k + 1 \in 0 .. t /\ k + 1 \in 1 .. k + 1 /\ (k + 1) - 1 = k
    BY <1>1, <1>10
  <2>2. CASE ~MagIsZero(a(k + 1))
    BY <2>1, <2>2
  <2>3. CASE MagIsZero(a(k + 1)) /\ k = 0
    <3>1. P(k + 1)
      BY <2>3
    <3> HIDE DEF P
    <3> QED
      BY <2>1, <3>1
  <2>4. CASE MagIsZero(a(k + 1)) /\ ~MagIsZero(a(k))
    <3>1. P(k + 1)
      BY <2>1, <2>4
    <3> HIDE DEF P
    <3> QED
      BY <2>1, <3>1
  <2>5. CASE \E j \in 1 .. k : P(j)
    <3> HIDE DEF P
    <3>1. PICK j \in 1 .. k : P(j)
      BY <2>5
    <3>2. j \in 1 .. k + 1
      BY <1>10
    <3> QED
      BY <2>1, <3>1, <3>2
  <2> HIDE DEF P
  <2>6. k = 0 \/ ~MagIsZero(a(k)) \/ \E j \in 1 .. k : P(j)
    BY <1>10
  <2> QED
    BY <2>2, <2>3, <2>4, <2>5, <2>6
<1>11. \E j \in 1 .. t : P(j)
  <2>1. \A k \in 0 .. t : k \in R
    <3> HIDE DEF R
    <3> QED
      BY <1>1, <1>9, <1>10, IntervalInduction
  <2>2. t \in 0 .. t /\ t # 0
    BY <1>1
  <2>3. MagIsZero(a(t))
    BY <1>3, <1>8, <2>2
  <2> HIDE DEF P
  <2> QED
    BY <2>1, <2>2, <2>3
<1>12. TextLength(v) = CHOOSE k \in 1 .. t : P(k)
  BY DEF TextLength, a, t
<1>13. TextLength(v) \in 1 .. t /\ P(TextLength(v))
  <2> HIDE DEF P
  <2> QED
    BY <1>11, <1>12
<1>14. TextLength(v) \in 0 .. t
  BY <1>1, <1>13
<1>15. MagIsZero(a(TextLength(v)))
  BY <1>13
<1>16. I(TextLength(v)) = 0
  BY <1>3, <1>14, <1>15
<1> QED
  BY <1>13, <1>16 DEF I, t

\* What the two loops of FPN_FromString make of the digits.
IntBack(d) ==
  LET ints[k \in 0 .. Len(d)] ==
        IF k = 0 THEN [i \in 1 .. N - FW |-> 0]
        ELSE AddDigit(MulSingle(ints[k - 1], Radix).w, d[k])
  IN  ints
FracBack(d) ==
  LET n == Len(d)
      fracs[k \in 0 .. n] ==
        IF k = 0 THEN [i \in 1 .. FW + 1 |-> 0]
        ELSE DivModSingle([fracs[k - 1] EXCEPT ![FW + 1] = d[n + 1 - k]], Radix).w
  IN  fracs

\* Nothing but zeros, of any length.
LEMMA ZeroSeq ==
  ASSUME WordsOK, NEW n \in 0 .. 2 * N
  PROVE  [i \in 1 .. n |-> 0] \in WordSeqs(n) /\ Amount([i \in 1 .. n |-> 0], n) = 0
<1> DEFINE z == [i \in 1 .. n |-> 0]
<1>1. 0 \in 0 .. B - 1
  BY DEF WordsOK
<1>2. z \in WordSeqs(n)
  BY <1>1 DEF WordSeqs
<1>3. MagIsZero(z)
  BY DEF MagIsZero
<1> HIDE DEF z
<1>4. Amount(z, n) = 0
  BY <1>2, <1>3, NoDigits
<1> QED
  BY <1>2, <1>4 DEF z

\* One digit taken in, and what the array has no room for.
TookIn(b, a, d) ==
  \E c \in Nat : Amount(b, FW) + Unit * c = Radix * Amount(a, FW) + d

\* Multiplying by the radix and adding a digit takes the digit in from below.
LEMMA DigitTaken ==
  ASSUME FormatOK, RadixOK, NEW a \in WordSeqs(FW), NEW d \in Nat
  PROVE  LET b == AddDigit(MulSingle(a, Radix).w, d)
         IN  b \in WordSeqs(FW) /\ TookIn(b, a, d)
<1> DEFINE r == MulSingle(a, Radix)  b == AddDigit(r.w, d)
<1>1. WordsOK /\ FW \in 0 .. 2 * N /\ Unit = Powers[FW] /\ Unit \in Nat /\ Radix \in Nat
  BY HalfRange DEF RadixOK
<1> HIDE DEF FW
<1>2. r.w \in WordSeqs(FW) /\ r.out \in Nat
      /\ Amount(r.w, FW) + Powers[FW] * r.out = Radix * Amount(a, FW)
  BY <1>1, MulSingleFacts
<1> HIDE DEF r
<1>3. b \in WordSeqs(FW) /\ \E c \in Nat :
        Amount(b, FW) + Powers[FW] * c = 1 * Amount(r.w, FW) + d
  BY <1>1, <1>2, AddDigitFacts
<1>4. PICK c \in Nat : Amount(b, FW) + Powers[FW] * c = 1 * Amount(r.w, FW) + d
  BY <1>3
<1>5. Amount(b, FW) \in Nat /\ Amount(r.w, FW) \in Nat /\ Amount(a, FW) \in Nat
  BY <1>1, <1>2, <1>3, AmountFacts
<1> DEFINE x == Amount(b, FW)  y == Amount(r.w, FW)  z == Amount(a, FW)  o == r.out
<1>6. x \in Nat /\ y \in Nat /\ z \in Nat /\ o \in Nat /\ y + Unit * o = Radix * z
      /\ x + Unit * c = 1 * y + d
  BY <1>1, <1>2, <1>4, <1>5
<1> HIDE DEF x, y, z, o, b, Unit
<1>7. x + Unit * (c + o) = Radix * z + d
  <2>1. Unit * (c + o) = Unit * c + Unit * o /\ Unit * c \in Nat /\ Unit * o \in Nat
    BY <1>1, <1>6
  <2> QED
    BY <1>1, <1>6, <2>1
<1>8. c + o \in Nat
  BY <1>6
<1>9. TookIn(b, a, d)
  BY <1>7, <1>8 DEF TookIn, x, z
<1> QED
  BY <1>3, <1>9 DEF b, r

\* The loop over the integer digits: one digit taken in per round.
LEMMA IntBackFacts ==
  ASSUME FormatOK, RadixOK, NEW n \in Nat, NEW d \in [1 .. n -> Nat]
  PROVE  /\ \A k \in 0 .. n : IntBack(d)[k] \in WordSeqs(FW)
         /\ Amount(IntBack(d)[0], FW) = 0
         /\ \A k \in 0 .. n - 1 : TookIn(IntBack(d)[k + 1], IntBack(d)[k], d[k + 1])
<1> DEFINE x == [i \in 1 .. N - FW |-> 0]
           S == WordSeqs(FW)
           Is(f) == f = [k \in 0 .. n |-> IF k = 0 THEN x
                                         ELSE AddDigit(MulSingle(f[k - 1], Radix).w, d[k])]
           f == IntBack(d)
           step == [k \in 1 .. n |-> [s \in S |-> AddDigit(MulSingle(s, Radix).w, d[k])]]
<1>1. WordsOK /\ FW \in 0 .. 2 * N /\ N - FW = FW
  BY HalfRange
<1>2. x \in S /\ Amount(x, FW) = 0
  <2>1. x = [i \in 1 .. FW |-> 0]
    BY <1>1
  <2> HIDE DEF FW, x
  <2> QED
    BY <1>1, <2>1, ZeroSeq
<1>3. ASSUME NEW a \in S, NEW k \in 1 .. n
      PROVE  LET b == AddDigit(MulSingle(a, Radix).w, d[k])
             IN  b \in S /\ TookIn(b, a, d[k])
  <2>1. d[k] \in Nat
    OBVIOUS
  <2> DEFINE e == d[k]
  <2>2. e \in Nat
    BY <2>1
  <2> HIDE DEF e, FW
  <2>3. LET b == AddDigit(MulSingle(a, Radix).w, e)
        IN  b \in S /\ TookIn(b, a, e)
    BY <2>2, DigitTaken
  <2> QED
    BY <2>3 DEF e
<1>4. f = CHOOSE g : Is(g)
  <2>1. Len(d) = n
    BY Lengths
  <2> QED
    BY <2>1 DEF IntBack
<1> HIDE DEF S, x, f
<1>5. Is(f)
  <2>1. step \in [1 .. n -> [S -> S]] /\ \A k \in 1 .. n, s \in S :
                      step[k][s] = AddDigit(MulSingle(s, Radix).w, d[k])
    BY <1>3
  <2> HIDE DEF step
  <2>2. PICK g : Iterates(g, n, S, x, step)
    BY <1>1, <1>2, <2>1, Iteration
  <2>3. g \in [0 .. n -> S] /\ g[0] = x /\ \A k \in 1 .. n : g[k] = step[k][g[k - 1]]
    BY <2>2 DEF Iterates
  <2>4. \A k \in 1 .. n : k - 1 \in 0 .. n /\ g[k - 1] \in S
    BY <1>1, <2>3
  <2>5. \A k \in 1 .. n : g[k] = AddDigit(MulSingle(g[k - 1], Radix).w, d[k])
    BY <2>1, <2>3, <2>4
  <2>6. \A k \in 0 .. n : g[k] = IF k = 0 THEN x
                                 ELSE AddDigit(MulSingle(g[k - 1], Radix).w, d[k])
    BY <1>1, <2>3, <2>5
  <2>7. g = [k \in 0 .. n |-> g[k]]
    BY <2>3
  <2>8. Is(g)
    BY <2>6, <2>7
  <2> HIDE DEF Is
  <2> QED
    BY <1>4, <2>8
<1>6. \A k \in 0 .. n : f[k] = IF k = 0 THEN x
                               ELSE AddDigit(MulSingle(f[k - 1], Radix).w, d[k])
  BY <1>5
<1> DEFINE T == {k \in 0 .. n : f[k] \in S}
<1>7. 0 \in T
  BY <1>1, <1>2, <1>6
<1>11. ASSUME NEW k \in 0 .. n - 1
       PROVE  f[k + 1] = AddDigit(MulSingle(f[k], Radix).w, d[k + 1]) /\ k + 1 \in 1 .. n
  BY <1>6
<1>8. ASSUME NEW k \in 0 .. n, k # n, k \in T
      PROVE  (k + 1) \in T
  BY <1>8, <1>3, <1>11
<1> HIDE DEF T
<1>9. \A k \in 0 .. n : k \in T
  BY <1>1, <1>7, <1>8, IntervalInduction
<1>10. \A k \in 0 .. n : f[k] \in S
  BY <1>9 DEF T
<1>12. ASSUME NEW k \in 0 .. n - 1
       PROVE  TookIn(f[k + 1], f[k], d[k + 1])
  <2>1. k \in 0 .. n
    OBVIOUS
  <2> QED
    BY <1>3, <1>10, <1>11, <2>1
<1>13. Amount(f[0], FW) = 0
  BY <1>6, <1>2
<1> QED
  BY <1>10, <1>12, <1>13 DEF f, S

\* Fractions have a word more, which is zero again after each digit.
Fractions == {g \in WordSeqs(FW + 1) : Amount(g, FW + 1) < Unit}

\* One digit taken in from above, and what is cut off below.
TookDown(b, a, d) ==
  \E c \in 0 .. Radix - 1 : Radix * Amount(b, FW + 1) + c = Amount(a, FW + 1) + Unit * d

\* Putting a digit on top and dividing by the radix takes it in from above.
LEMMA DigitDown ==
  ASSUME FormatOK, RadixOK, NEW a \in Fractions, NEW d \in 0 .. Radix - 1
  PROVE  LET b == DivModSingle([a EXCEPT ![FW + 1] = d], Radix).w
         IN  b \in Fractions /\ TookDown(b, a, d)
<1> DEFINE h == [a EXCEPT ![FW + 1] = d]  r == DivModSingle(h, Radix)  m == FW + 1
<1>1. WordsOK /\ m \in 0 .. 2 * N /\ Unit \in Nat /\ Radix \in Nat /\ Radix > 1 /\ Unit > 0
      /\ B \in Nat /\ Radix <= B
  BY HalfRange DEF RadixOK
<1>2. a \in WordSeqs(FW + 1) /\ Amount(a, FW + 1) < Unit
  BY DEF Fractions
<1>3. d \in 0 .. B - 1
  <2> HIDE DEF B
  <2> QED
    BY <1>1
<1>4. h \in WordSeqs(m) /\ Amount(h, m) = Amount(a, m) + Unit * d
  BY <1>2, <1>3, DigitOnTop
<1>5. a \in WordSeqs(m) /\ Amount(a, m) < Unit
  BY <1>2
<1> HIDE DEF h, m, Unit, B
<1>6. Divided(r.w, r.out, m, h, Radix)
  BY <1>1, <1>4, DivModFacts
<1> HIDE DEF r
<1>7. r.w \in WordSeqs(m) /\ r.out \in 0 .. Radix - 1
      /\ Radix * Amount(r.w, m) + r.out = Amount(a, m) + Unit * d
  BY <1>4, <1>6 DEF Divided
<1>8. Amount(r.w, m) \in Nat /\ Amount(a, m) \in Nat
  BY <1>1, <1>5, <1>7, AmountFacts
<1>9. Amount(r.w, m) < Unit
  <2> DEFINE x == Amount(r.w, m)  y == Amount(a, m)  o == r.out
  <2>1. x \in Nat /\ y \in Nat /\ y < Unit /\ o \in Nat /\ Radix * x + o = y + Unit * d
    BY <1>1, <1>5, <1>7, <1>8
  <2> HIDE DEF x, y, o
  <2>2. Unit * d <= Unit * (Radix - 1) /\ Unit * (Radix - 1) = Radix * Unit - Unit
    BY <1>1
  <2>3. Radix * x \in Nat /\ Unit * d \in Nat /\ Radix * Unit \in Nat
    BY <1>1, <2>1
  <2>4. Radix * x < Radix * Unit
    BY <1>1, <2>1, <2>2, <2>3
  <2>5. x >= Unit => Radix * x >= Radix * Unit
    BY <1>1, <2>1
  <2>6. x < Unit
    BY <1>1, <2>1, <2>3, <2>4, <2>5
  <2> QED
    BY <2>6 DEF x
<1>10. r.w \in Fractions
  BY <1>7, <1>9 DEF Fractions, m
<1>11. TookDown(r.w, a, d)
  BY <1>7 DEF TookDown, m
<1> QED
  BY <1>10, <1>11 DEF r, h

\* The loop over the fraction digits, last digit first: one taken in per round.
LEMMA FracBackFacts ==
  ASSUME FormatOK, RadixOK, NEW n \in Nat, NEW d \in [1 .. n -> 0 .. Radix - 1]
  PROVE  /\ \A k \in 0 .. n : FracBack(d)[k] \in Fractions
         /\ Amount(FracBack(d)[0], FW + 1) = 0
         /\ \A k \in 0 .. n - 1 : TookDown(FracBack(d)[k + 1], FracBack(d)[k], d[n - k])
<1> DEFINE x == [i \in 1 .. FW + 1 |-> 0]
           S == Fractions
           Taken(a, k) == DivModSingle([a EXCEPT ![FW + 1] = d[n + 1 - k]], Radix).w
           Is(f) == f = [k \in 0 .. n |-> IF k = 0 THEN x ELSE Taken(f[k - 1], k)]
           f == FracBack(d)
           step == [k \in 1 .. n |-> [s \in S |-> Taken(s, k)]]
<1>1. WordsOK /\ FW + 1 \in 0 .. 2 * N /\ Unit \in Nat /\ Unit > 0
  BY HalfRange
<1>2. x \in S /\ Amount(x, FW + 1) = 0
  <2> HIDE DEF FW, Unit
  <2>1. x \in WordSeqs(FW + 1) /\ Amount(x, FW + 1) = 0
    BY <1>1, ZeroSeq
  <2> HIDE DEF x
  <2> QED
    BY <1>1, <2>1 DEF Fractions
<1>3. ASSUME NEW a \in S, NEW k \in 1 .. n
      PROVE  Taken(a, k) \in S /\ TookDown(Taken(a, k), a, d[n + 1 - k])
  <2>1. n + 1 - k \in 1 .. n
    OBVIOUS
  <2> DEFINE e == d[n + 1 - k]
  <2>2. e \in 0 .. Radix - 1
    BY <2>1
  <2> HIDE DEF e, FW
  <2>3. LET b == DivModSingle([a EXCEPT ![FW + 1] = e], Radix).w
        IN  b \in Fractions /\ TookDown(b, a, e)
    BY <2>2, DigitDown
  <2> QED
    BY <2>3 DEF e
<1>4. f = CHOOSE g : Is(g)
  <2>1. Len(d) = n
    BY Lengths
  <2> QED
    BY <2>1 DEF FracBack
<1> HIDE DEF S, x, f, Taken
<1>5. Is(f)
  <2>1. step \in [1 .. n -> [S -> S]] /\ \A k \in 1 .. n, s \in S : step[k][s] = Taken(s, k)
    BY <1>3
  <2> HIDE DEF step
  <2>2. PICK g : Iterates(g, n, S, x, step)
    BY <1>1, <1>2, <2>1, Iteration
  <2>3. g \in [0 .. n -> S] /\ g[0] = x /\ \A k \in 1 .. n : g[k] = step[k][g[k - 1]]
    BY <2>2 DEF Iterates
  <2>4. \A k \in 1 .. n : k - 1 \in 0 .. n /\ g[k - 1] \in S
    BY <1>1, <2>3
  <2>5. \A k \in 1 .. n : g[k] = Taken(g[k - 1], k)
    BY <2>1, <2>3, <2>4
  <2>6. \A k \in 0 .. n : g[k] = IF k = 0 THEN x ELSE Taken(g[k - 1], k)
    BY <1>1, <2>3, <2>5
  <2>7. g = [k \in 0 .. n |-> g[k]]
    BY <2>3
  <2>8. Is(g)
    BY <2>6, <2>7
  <2> HIDE DEF Is
  <2> QED
    BY <1>4, <2>8
<1>6. \A k \in 0 .. n : f[k] = IF k = 0 THEN x ELSE Taken(f[k - 1], k)
  BY <1>5
<1> DEFINE T == {k \in 0 .. n : f[k] \in S}
<1>7. 0 \in T
  BY <1>1, <1>2, <1>6
<1>11. ASSUME NEW k \in 0 .. n - 1
       PROVE  f[k + 1] = Taken(f[k], k + 1) /\ k + 1 \in 1 .. n
  BY <1>6
<1>8. ASSUME NEW k \in 0 .. n, k # n, k \in T
      PROVE  (k + 1) \in T
  BY <1>8, <1>3, <1>11
<1> HIDE DEF T
<1>9. \A k \in 0 .. n : k \in T
  BY <1>1, <1>7, <1>8, IntervalInduction
<1>10. \A k \in 0 .. n : f[k] \in S
  BY <1>9 DEF T
<1>12. ASSUME NEW k \in 0 .. n - 1
       PROVE  TookDown(f[k + 1], f[k], d[n - k])
  BY <1>3, <1>10, <1>11
<1>13. Amount(f[0], FW + 1) = 0
  BY <1>6, <1>2
<1> QED
  BY <1>10, <1>12, <1>13 DEF f, S

\* Weights of the digits.
LEMMA ScaleFacts ==
  ASSUME RadixOK, Places \in Nat
  PROVE  /\ Scale[0] = 1 /\ \A k \in 0 .. Places : Scale[k] \in Nat
         /\ \A k \in 0 .. Places - 1 : Scale[k + 1] = Radix * Scale[k]
<1> DEFINE n == Places
           Is(f) == f = [k \in 0 .. Places |-> IF k = 0 THEN 1 ELSE Radix * f[k - 1]]
           step == [k \in 1 .. n |-> [v \in Nat |-> Radix * v]]
<1>1. n \in Nat /\ Radix \in Nat
  BY DEF RadixOK
<1>2. step \in [1 .. n -> [Nat -> Nat]] /\ 1 \in Nat
  BY <1>1
<1>3. \A k \in 1 .. n, v \in Nat : step[k][v] = Radix * v
  OBVIOUS
<1> HIDE DEF step
<1>4. PICK f : Iterates(f, n, Nat, 1, step)
  BY <1>1, <1>2, Iteration
<1>5. f \in [0 .. n -> Nat] /\ f[0] = 1 /\ \A k \in 1 .. n : f[k] = step[k][f[k - 1]]
  BY <1>4 DEF Iterates
<1>6. \A k \in 1 .. n : f[k] = Radix * f[k - 1]
  <2> SUFFICES ASSUME NEW k \in 1 .. n PROVE f[k] = Radix * f[k - 1]
    OBVIOUS
  <2>1. k - 1 \in 0 .. n
    BY <1>1
  <2> QED
    BY <1>3, <1>5, <2>1
<1>7. Is(f)
  BY <1>5, <1>6
<1>8. Is(Scale)
  <2>1. Scale = CHOOSE g : Is(g)
    BY DEF Scale
  <2> HIDE DEF Is
  <2> QED
    BY <1>7, <2>1
<1>9. Scale[0] = 1 /\ \A k \in 0 .. n - 1 : Scale[k + 1] = Radix * Scale[k]
  BY <1>1, <1>8
<1> DEFINE T == {k \in 0 .. n : Scale[k] \in Nat}
<1>10. 0 \in T
  BY <1>1, <1>9
<1>11. \A k \in 0 .. n : k # n /\ k \in T => (k + 1) \in T
  BY <1>1, <1>9
<1> HIDE DEF T
<1>12. \A k \in 0 .. n : k \in T
  BY <1>1, <1>10, <1>11, IntervalInduction
<1> QED
  BY <1>9, <1>12 DEF T

\* The fraction digits are digits.
LEMMA FractionDigits ==
  ASSUME FormatOK, RadixOK, Places \in Nat, NEW v \in FPNs
  PROVE  \A k \in 0 .. Places - 1 : FracSteps(v)[k + 1].out \in 0 .. Radix - 1
<1> SUFFICES ASSUME NEW k \in 0 .. Places - 1
             PROVE  FracSteps(v)[k + 1].out \in 0 .. Radix - 1
  OBVIOUS
<1> DEFINE a == Amount(FracSteps(v)[k].w, FW)  b == Amount(FracSteps(v)[k + 1].w, FW)
           o == FracSteps(v)[k + 1].out
<1>1. k \in 0 .. Places /\ k + 1 \in 0 .. Places
  OBVIOUS
<1>2. o \in Nat /\ b + Unit * o = Radix * a
  BY FracStepsFacts
<1>3. FracSteps(v)[k].w \in WordSeqs(FW) /\ FracSteps(v)[k + 1].w \in WordSeqs(FW)
  BY <1>1, FracStepsFacts
<1>4. WordsOK /\ FW \in 0 .. 2 * N /\ Unit \in Nat /\ Unit > 0 /\ Unit = Powers[FW]
      /\ Radix \in Nat /\ Radix > 1
  BY HalfRange DEF RadixOK
<1>5. a \in Nat /\ b \in Nat /\ a < Unit
  <2> HIDE DEF FW, Unit
  <2> QED
    BY <1>3, <1>4, AmountFacts
<1> HIDE DEF a, b, o, Unit
<1>6. o < Radix
  BY <1>4, <1>5, <1>2
<1> QED
  BY <1>2, <1>4, <1>6 DEF o

\* The digits of FPN_ToString, from the first.
IntDigits(v)  == [i \in 1 .. TextLength(v) |-> IntSteps(v)[TextLength(v) + 1 - i].out]
FracDigits(v) == [i \in 1 .. Places |-> FracSteps(v)[i].out]

\* What FPN_ToString makes of a number.
LEMMA TextWritten ==
  ASSUME TRUE
  PROVE  \A v : ToString(v) = [neg |-> v.neg /\ ~MagIsZero(v.w), int |-> IntDigits(v),
                               frac |-> FracDigits(v)]
BY DEF ToString, IntDigits, FracDigits, IntSteps, FracSteps, TextLength

\* What FPN_FromString makes of them.
LEMMA TextRead ==
  ASSUME TRUE
  PROVE  \A s : FromString(s) =
           LET w == [i \in 0 .. N - 1 |->
                       IF i < FW THEN FracBack(s.frac)[Len(s.frac)][i + 1]
                       ELSE IntBack(s.int)[Len(s.int)][i - FW + 1]]
           IN  [w |-> w, neg |-> s.neg /\ ~MagIsZero(w)]
BY DEF FromString, FracBack, IntBack

\* One digit back is one remainder back: nothing overflows on the way.
LEMMA OneDigitBack ==
  ASSUME NEW u \in Nat, u > 0, NEW x \in Nat, NEW y \in Nat, y < u, NEW c \in Nat,
         x + u * c = y
  PROVE  x = y
<1>1. c >= 1 => u * c >= u
  OBVIOUS
<1>2. c = 0
  BY <1>1
<1>3. u * c = 0
  BY <1>2
<1> QED
  BY <1>3

\* The integer part comes back, whole.
LEMMA IntegerReturns ==
  ASSUME FormatOK, RadixOK, NEW v \in FPNs
  PROVE  LET len == TextLength(v)
         IN  /\ IntDigits(v) \in [1 .. len -> Nat] /\ len \in Nat
             /\ IntBack(IntDigits(v))[len] \in WordSeqs(FW)
             /\ Amount(IntBack(IntDigits(v))[len], FW) = Amount(IntWords(v.w), FW)
<1> DEFINE len == TextLength(v)  d == IntDigits(v)  t == N * Bits
           J(k) == Amount(IntBack(d)[k], FW)
<1>1. len \in 1 .. t /\ t \in Nat /\ Rest(v, len) = 0
  <2>1. N \in Nat /\ Bits \in Nat
    BY FormatFacts DEF WordsOK
  <2> QED
    BY <2>1, TextLengthFacts
<1>2. WordsOK /\ FW \in 0 .. 2 * N /\ Unit \in Nat /\ Unit > 0 /\ Unit = Powers[FW]
      /\ Radix \in Nat /\ Radix > 1
  BY HalfRange DEF RadixOK
<1>3. /\ IntSteps(v)[0].w = IntWords(v.w)
      /\ \A k \in 0 .. t : IntSteps(v)[k].w \in WordSeqs(FW)
      /\ \A k \in 0 .. t - 1 :
           Divided(IntSteps(v)[k + 1].w, IntSteps(v)[k + 1].out, FW, IntSteps(v)[k].w, Radix)
  BY IntStepsFacts
<1> HIDE DEF t, len
<1>4. \A k \in 0 .. t - 1 :
        /\ IntSteps(v)[k + 1].out \in Nat
        /\ Radix * Rest(v, k + 1) + IntSteps(v)[k + 1].out = Rest(v, k)
  BY <1>2, <1>3 DEF Divided, Rest
<1>5. \A k \in 0 .. t : Rest(v, k) \in Nat /\ Rest(v, k) < Unit
  <2> SUFFICES ASSUME NEW k \in 0 .. t PROVE Rest(v, k) \in Nat /\ Rest(v, k) < Unit
    OBVIOUS
  <2>1. IntSteps(v)[k].w \in WordSeqs(FW)
    BY <1>3
  <2> DEFINE a == IntSteps(v)[k].w
  <2>2. Rest(v, k) = Amount(a, FW)
    BY DEF Rest
  <2>3. a \in WordSeqs(FW)
    BY <2>1
  <2> HIDE DEF a, FW, Unit
  <2> QED
    BY <1>2, <2>2, <2>3, AmountFacts
<1>6. \A i \in 1 .. len : len + 1 - i \in 1 .. t /\ len - i \in 0 .. t - 1 /\ (len - i) + 1 = len + 1 - i
  BY <1>1
<1>7. d \in [1 .. len -> Nat] /\ \A i \in 1 .. len : d[i] = IntSteps(v)[(len - i) + 1].out
  <2>1. d = [i \in 1 .. len |-> IntSteps(v)[len + 1 - i].out]
    BY DEF IntDigits, len
  <2>2. \A i \in 1 .. len : IntSteps(v)[len + 1 - i].out \in Nat
    BY <1>4, <1>6
  <2> HIDE DEF d
  <2> QED
    BY <1>6, <2>1, <2>2
<1>8. len \in Nat /\ len \in 0 .. len /\ 0 \in 0 .. len
  BY <1>1
<1> HIDE DEF d
<1>9. /\ \A k \in 0 .. len : IntBack(d)[k] \in WordSeqs(FW)
      /\ J(0) = 0
      /\ \A k \in 0 .. len - 1 : TookIn(IntBack(d)[k + 1], IntBack(d)[k], d[k + 1])
  BY <1>7, <1>8, IntBackFacts
<1>10. \A k \in 0 .. len : J(k) \in Nat
  <2> SUFFICES ASSUME NEW k \in 0 .. len PROVE J(k) \in Nat
    OBVIOUS
  <2> DEFINE a == IntBack(d)[k]
  <2>1. a \in WordSeqs(FW)
    BY <1>9
  <2> HIDE DEF a, FW
  <2>2. Amount(a, FW) \in Nat
    BY <1>2, <2>1, AmountFacts
  <2> QED
    BY <2>2 DEF a
<1>11. ASSUME NEW k \in 0 .. len - 1, J(k) = Rest(v, len - k)
       PROVE  J(k + 1) = Rest(v, len - (k + 1))
  <2>1. k + 1 \in 1 .. len /\ k + 1 \in 0 .. len /\ (len - (k + 1)) + 1 = len - k
        /\ len - (k + 1) \in 0 .. t - 1 /\ len - (k + 1) \in 0 .. t
    BY <1>1
  <2>2. PICK c \in Nat : J(k + 1) + Unit * c = Radix * J(k) + d[k + 1]
    BY <1>9 DEF TookIn
  <2>3. d[k + 1] = IntSteps(v)[len - k].out
    BY <1>7, <2>1
  <2>4. Radix * Rest(v, len - k) + IntSteps(v)[len - k].out = Rest(v, len - (k + 1))
    BY <1>4, <2>1
  <2> DEFINE x == J(k + 1)  y == Rest(v, len - (k + 1))
  <2>5. x \in Nat /\ y \in Nat /\ y < Unit
    BY <1>5, <1>10, <2>1
  <2>6. x + Unit * c = y
    BY <1>11, <2>2, <2>3, <2>4
  <2> HIDE DEF x, y, Unit
  <2>7. x = y
    BY <1>2, <2>5, <2>6, OneDigitBack
  <2> QED
    BY <2>7 DEF x, y
<1> DEFINE T == {k \in 0 .. len : J(k) = Rest(v, len - k)}
<1>12. 0 \in T
  <2>1. len - 0 = len
    BY <1>8
  <2> QED
    BY <1>1, <1>8, <1>9, <2>1
<1>13. \A k \in 0 .. len : k # len /\ k \in T => (k + 1) \in T
  <2> SUFFICES ASSUME NEW k \in 0 .. len, k # len, J(k) = Rest(v, len - k)
               PROVE  k + 1 \in 0 .. len /\ J(k + 1) = Rest(v, len - (k + 1))
    OBVIOUS
  <2> HIDE DEF J
  <2>1. k \in 0 .. len - 1 /\ k + 1 \in 0 .. len
    BY <1>8
  <2> QED
    BY <1>11, <2>1
<1> HIDE DEF T
<1>14. \A k \in 0 .. len : k \in T
  BY <1>8, <1>12, <1>13, IntervalInduction
<1>15. J(len) = Rest(v, 0)
  BY <1>8, <1>14 DEF T
<1> QED
  BY <1>3, <1>7, <1>8, <1>9, <1>15 DEF Rest, d, len

\* One fraction digit back: the error is divided by the radix, rounded down.
FractionStep(r, u, f, g, x, y, c, o, s, z) ==
  g + u * o = r * f /\ r * y + c = x + u * o /\ z = r * s /\ x <= g /\ g <= x + z
    => y <= f /\ f <= y + s

\* If a fraction came back short by at most a weight, the one a digit longer comes
\* back short by at most the weight below.
LEMMA OneFractionBack ==
  ASSUME NEW r \in Nat, r > 1, NEW u \in Nat, NEW f \in Nat, NEW g \in Nat,
         NEW x \in Nat, NEW y \in Nat, NEW c \in 0 .. r - 1, NEW o \in Nat,
         NEW s \in Nat, NEW z \in Nat
  PROVE  FractionStep(r, u, f, g, x, y, c, o, s, z)
<1> SUFFICES ASSUME g + u * o = r * f, r * y + c = x + u * o, z = r * s, x <= g, g <= x + z
             PROVE  y <= f /\ f <= y + s
  BY DEF FractionStep
<1>1. u * o \in Nat /\ r * f \in Nat /\ r * y \in Nat /\ r * s \in Nat
  OBVIOUS
<1>2. r * f - r * y = (g - x) + c
  BY <1>1
<1>3. r * f - r * y >= 0 /\ r * f - r * y <= r * s + (r - 1)
  BY <1>1, <1>2
<1>4. y > f => r * y >= r * (f + 1) /\ r * (f + 1) = r * f + r
  OBVIOUS
<1>5. y <= f
  BY <1>1, <1>3, <1>4
<1>6. f > y + s => r * f >= r * (y + s + 1) /\ r * (y + s + 1) = r * y + r * s + r
  OBVIOUS
<1>7. f <= y + s
  BY <1>1, <1>3, <1>6
<1> QED
  BY <1>5, <1>7

\* The fraction comes back, or one unit of its last bit less.
LEMMA FractionReturns ==
  ASSUME FormatOK, RadixOK, Places \in Nat, Scale[Places] >= Unit, NEW v \in FPNs
  PROVE  LET d == FracDigits(v)
             a == Amount(FracBack(d)[Places], FW + 1)
             f == Amount(FracWords(v.w), FW)
         IN  /\ d \in [1 .. Places -> 0 .. Radix - 1]
             /\ FracBack(d)[Places] \in Fractions
             /\ a \in Nat /\ f \in Nat /\ a <= f /\ f <= a + 1
<1> DEFINE d == FracDigits(v)  n == Places
           V(k) == Amount(FracBack(d)[n - k], FW + 1)
           F(k) == Amount(FracSteps(v)[k].w, FW)
<1>1. WordsOK /\ FW \in 0 .. 2 * N /\ FW + 1 \in 0 .. 2 * N /\ Unit \in Nat /\ Unit > 0
      /\ Unit = Powers[FW] /\ Radix \in Nat /\ Radix > 1 /\ n \in Nat
  BY HalfRange DEF RadixOK
<1>2. /\ FracSteps(v)[0].w = FracWords(v.w)
      /\ \A k \in 0 .. n : FracSteps(v)[k].w \in WordSeqs(FW)
      /\ \A k \in 0 .. n - 1 :
           /\ FracSteps(v)[k + 1].out \in Nat
           /\ F(k + 1) + Unit * FracSteps(v)[k + 1].out = Radix * F(k)
  BY FracStepsFacts
<1>3. \A k \in 0 .. n - 1 : FracSteps(v)[k + 1].out \in 0 .. Radix - 1
  BY FractionDigits
<1>4. d \in [1 .. n -> 0 .. Radix - 1] /\ \A k \in 0 .. n - 1 : d[k + 1] = FracSteps(v)[k + 1].out
  <2>1. d = [i \in 1 .. n |-> FracSteps(v)[i].out]
    BY DEF FracDigits
  <2>2. \A i \in 1 .. n : i - 1 \in 0 .. n - 1 /\ (i - 1) + 1 = i
    BY <1>1
  <2>3. \A i \in 1 .. n : FracSteps(v)[i].out \in 0 .. Radix - 1
    BY <1>3, <2>2
  <2>4. \A k \in 0 .. n - 1 : k + 1 \in 1 .. n
    BY <1>1
  <2> HIDE DEF d
  <2> QED
    BY <2>1, <2>3, <2>4
<1> HIDE DEF d
<1>5. /\ \A k \in 0 .. n : FracBack(d)[k] \in Fractions
      /\ Amount(FracBack(d)[0], FW + 1) = 0
      /\ \A k \in 0 .. n - 1 : TookDown(FracBack(d)[k + 1], FracBack(d)[k], d[n - k])
  BY <1>1, <1>4, FracBackFacts
<1>6. \A k \in 0 .. n : F(k) \in Nat /\ F(k) < Unit
  <2> SUFFICES ASSUME NEW k \in 0 .. n PROVE F(k) \in Nat /\ F(k) < Unit
    OBVIOUS
  <2> DEFINE a == FracSteps(v)[k].w
  <2>1. a \in WordSeqs(FW)
    BY <1>2
  <2> HIDE DEF a, FW, Unit
  <2>2. Amount(a, FW) \in Nat /\ Amount(a, FW) < Unit
    BY <1>1, <2>1, AmountFacts
  <2> QED
    BY <2>2 DEF a
<1>7. \A k \in 0 .. n : V(k) \in Nat
  <2> SUFFICES ASSUME NEW k \in 0 .. n PROVE V(k) \in Nat
    OBVIOUS
  <2> DEFINE a == FracBack(d)[n - k]  m == FW + 1
  <2>1. n - k \in 0 .. n
    BY <1>1
  <2>2. a \in WordSeqs(m)
    BY <1>5, <2>1 DEF Fractions
  <2>3. m \in 0 .. 2 * N
    BY <1>1
  <2> HIDE DEF a, m
  <2>4. Amount(a, m) \in Nat
    BY <1>1, <2>2, <2>3, AmountFacts
  <2> QED
    BY <2>4 DEF a, m
<1>8. /\ Scale[0] = 1 /\ \A k \in 0 .. n : Scale[k] \in Nat
      /\ \A k \in 0 .. n - 1 : Scale[k + 1] = Radix * Scale[k]
  BY <1>1, ScaleFacts
<1> DEFINE Near(k) == V(k) <= F(k) /\ F(k) <= V(k) + Scale[k]
<1>9. Near(n)
  <2>1. n - n = 0 /\ n \in 0 .. n
    BY <1>1
  <2>2. V(n) = 0
    BY <1>5, <2>1
  <2>3. F(n) \in Nat /\ F(n) < Unit /\ Scale[n] \in Nat
    BY <1>6, <1>8, <2>1
  <2> HIDE DEF V, F, Unit
  <2> QED
    BY <1>1, <2>2, <2>3
<1>10. ASSUME NEW k \in 0 .. n - 1, Near(k + 1)
       PROVE  Near(k)
  <2>1. k \in 0 .. n /\ k + 1 \in 0 .. n /\ n - (k + 1) \in 0 .. n - 1
        /\ (n - (k + 1)) + 1 = n - k /\ n - (n - (k + 1)) = k + 1
    BY <1>1
  <2>2. TookDown(FracBack(d)[n - k], FracBack(d)[n - (k + 1)], d[k + 1])
    BY <1>5, <2>1
  <2>3. PICK c \in 0 .. Radix - 1 : Radix * V(k) + c = V(k + 1) + Unit * d[k + 1]
    BY <2>2 DEF TookDown
  <2>4. F(k + 1) + Unit * d[k + 1] = Radix * F(k) /\ d[k + 1] \in Nat
    BY <1>2, <1>4
  <2> DEFINE f == F(k)  g == F(k + 1)  x == V(k + 1)  y == V(k)  o == d[k + 1]
             s == Scale[k]  z == Scale[k + 1]
  <2>5. /\ f \in Nat /\ g \in Nat /\ x \in Nat /\ y \in Nat /\ s \in Nat /\ z \in Nat
        /\ z = Radix * s /\ o \in Nat
    BY <1>6, <1>7, <1>8, <2>1, <2>4
  <2>6. g + Unit * o = Radix * f /\ Radix * y + c = x + Unit * o /\ x <= g /\ g <= x + z
    BY <1>10, <2>3, <2>4
  <2> HIDE DEF f, g, x, y, o, s, z, Unit
  <2>7. FractionStep(Radix, Unit, f, g, x, y, c, o, s, z)
    BY <1>1, <2>5, OneFractionBack
  <2>8. y <= f /\ f <= y + s
    BY <2>5, <2>6, <2>7 DEF FractionStep
  <2> QED
    BY <2>8 DEF f, y, s
<1> DEFINE T == {k \in 0 .. n : Near(k)}
<1> HIDE DEF Near
<1>11. n \in T
  BY <1>1, <1>9
<1>12. \A k \in 0 .. n : k # n /\ (k + 1) \in T => k \in T
  BY <1>1, <1>10
<1> HIDE DEF T
<1>13. \A k \in 0 .. n : k \in T
  BY <1>1, <1>11, <1>12, DownInduction
<1>14. Near(0)
  <2>1. 0 \in 0 .. n
    BY <1>1
  <2> QED
    BY <1>13, <2>1 DEF T
<1>15. V(0) \in Nat /\ F(0) \in Nat /\ V(0) <= F(0) /\ F(0) <= V(0) + 1
  <2>1. 0 \in 0 .. n
    BY <1>1
  <2> QED
    BY <1>6, <1>7, <1>8, <1>14, <2>1 DEF Near
<1>16. n - 0 = n /\ n \in 0 .. n
  BY <1>1
<1> QED
  BY <1>2, <1>4, <1>5, <1>15, <1>16 DEF d

\* FPN_ToString and FPN_FromString (FixedPointN.hpp:203-399): with as many digits
\* as tell the fractions apart, a number read back is the number written or the
\* next one towards zero, and keeps its sign, for any number of words of any width
\* and any radix a word holds.
THEOREM TextLosesAtMostOneUnit ==
  ASSUME FormatOK, DigitsOK, NEW v \in FPNs
  PROVE  LET r == FromString(ToString(v))
         IN  /\ Proper(r)
             /\ Size(Value(r)) = Size(Value(v)) \/ Size(Value(r)) = Size(Value(v)) - 1
             /\ Value(r) # 0 => (Value(r) < 0 <=> Value(v) < 0)
<1> DEFINE s == ToString(v)  r == FromString(s)
           g == FracBack(FracDigits(v))[Places]
           h == IntBack(IntDigits(v))[TextLength(v)]
           w == [i \in 0 .. N - 1 |-> IF i < FW THEN g[i + 1] ELSE h[i - FW + 1]]
           a == Amount(g, FW + 1)  f == Amount(FracWords(v.w), FW)
           j == Amount(IntWords(v.w), FW)
           p == (v.neg /\ ~MagIsZero(v.w))
<1>1. RadixOK /\ Places \in Nat /\ Scale[Places] >= Unit /\ WordsOK
  <2>1. Radix \in Nat /\ Radix > 1 /\ Radix <= B
    <3>1. Radix \in 2 .. B /\ B \in Nat
      BY FormatFacts DEF DigitsOK, WordsOK
    <3> HIDE DEF B
    <3> QED
      BY <3>1
  <2> QED
    BY <2>1, FormatFacts DEF DigitsOK, RadixOK
<1>2. FracDigits(v) \in [1 .. Places -> 0 .. Radix - 1] /\ g \in Fractions
      /\ a \in Nat /\ f \in Nat /\ a <= f /\ f <= a + 1
  BY <1>1, FractionReturns
<1>3. IntDigits(v) \in [1 .. TextLength(v) -> Nat] /\ TextLength(v) \in Nat
      /\ h \in WordSeqs(FW) /\ Amount(h, FW) = j
  BY <1>1, IntegerReturns
<1>4. s = [neg |-> p, int |-> IntDigits(v), frac |-> FracDigits(v)]
  BY TextWritten
<1>5. Len(IntDigits(v)) = TextLength(v) /\ Len(FracDigits(v)) = Places
  BY <1>1, <1>2, <1>3, Lengths
<1>6. r = [w |-> w, neg |-> p /\ ~MagIsZero(w)]
  <2>1. s.neg = p /\ s.int = IntDigits(v) /\ s.frac = FracDigits(v)
    BY <1>4
  <2> HIDE DEF s, p
  <2>2. r = LET ww == [i \in 0 .. N - 1 |->
                         IF i < FW THEN FracBack(s.frac)[Len(s.frac)][i + 1]
                         ELSE IntBack(s.int)[Len(s.int)][i - FW + 1]]
            IN  [w |-> ww, neg |-> s.neg /\ ~MagIsZero(ww)]
    BY TextRead
  <2> QED
    BY <1>5, <2>1, <2>2
<1>7. v.w \in Words /\ v.neg \in BOOLEAN
  BY DEF FPNs
<1>8. w \in Words /\ Digits(w) = a + Unit * j
  <2>1. g \in WordSeqs(FW + 1) /\ a < Unit
    BY <1>2 DEF Fractions
  <2> HIDE DEF g, h
  <2>2. w = [i \in 0 .. N - 1 |-> IF i < FW THEN g[i + 1] ELSE h[i - FW + 1]]
    OBVIOUS
  <2> HIDE DEF w
  <2>3. w \in Words /\ (Amount(g, FW + 1) < Unit
                          => Digits(w) = Amount(g, FW + 1) + Unit * Amount(h, FW))
    BY <1>3, <2>1, <2>2, HalvesJoined
  <2> QED
    BY <1>3, <2>1, <2>3
<1>9. Digits(v.w) = f + Unit * j
  BY <1>7, HalvesTaken
<1>10. p \in BOOLEAN
  BY <1>7
<1> HIDE DEF p, w, s, r, a, f, j
<1>11. Proper(r)
  BY <1>6, <1>8, <1>10, ProperNumber
<1> DEFINE x == Digits(w)  y == Digits(v.w)  X == Value(r)  Y == Value(v)
<1>12. /\ y \in Nat /\ Y \in Int /\ Size(Y) = y
       /\ (v.neg => Y = 0 - y) /\ (~v.neg => Y = y) /\ (MagIsZero(v.w) <=> y = 0)
  BY <1>1, ValueFacts
<1>13. /\ x \in Nat /\ X \in Int /\ Size(X) = x
       /\ (r.neg => X = 0 - x) /\ (~r.neg => X = x) /\ (MagIsZero(w) <=> x = 0)
  <2>1. r \in FPNs /\ r.w = w
    BY <1>6, <1>11 DEF Proper
  <2> QED
    BY <1>1, <2>1, ValueFacts
<1>14. x = y \/ x = y - 1
  <2>1. Unit * j = y - f
    <3>1. Unit * j \in Int
      <4>1. x \in Nat /\ x = a + Unit * j
        BY <1>8, <1>13
      <4>2. Unit \in Nat /\ j \in Nat
        <5>1. IntWords(v.w) \in WordSeqs(FW) /\ FW \in 0 .. 2 * N /\ Unit \in Nat
          BY <1>7, HalvesTaken, HalfRange
        <5> HIDE DEF FW, Unit
        <5> QED
          BY <1>1, <5>1, AmountFacts DEF j
      <4> QED
        BY <4>2
    <3> HIDE DEF Unit, x, y
    <3>2. y = f + Unit * j
      BY <1>9 DEF y
    <3> QED
      BY <1>2, <3>1, <3>2
  <2>2. x = a + Unit * j
    BY <1>8
  <2> HIDE DEF x, y, Unit
  <2> QED
    BY <1>2, <1>12, <2>1, <2>2
<1>15. r.neg <=> (p /\ ~MagIsZero(w))
  BY <1>6
<1>16. p <=> (v.neg /\ ~MagIsZero(v.w))
  BY DEF p
<1> HIDE DEF x, y, X, Y
<1>17. X # 0 => (X < 0 <=> Y < 0)
  <2>1. CASE v.neg
    BY <1>12, <1>13, <1>14, <1>15, <1>16, <2>1
  <2>2. CASE ~v.neg
    BY <1>12, <1>13, <1>15, <1>16, <2>2
  <2> QED
    BY <2>1, <2>2
<1> QED
  BY <1>11, <1>12, <1>13, <1>14, <1>17 DEF r, s, X, Y, x, y

-----------------------------------------------------------------------------
(* The other operations in both builds.                                    *)

\* What is added to a whole part of two words wraps around their product.
WrapsTo(m, d, r) == m % d = r

\* A remainder of something less than twice the divisor.
LEMMA OneWrap ==
  ASSUME NEW d \in Nat, d > 0, NEW m \in 0 .. 2 * d - 1
  PROVE  WrapsTo(m, d, IF m >= d THEN m - d ELSE m)
<1>1. CASE m >= d
  BY <1>1, Euclid DEF DividesTo, WrapsTo
<1>2. CASE m < d
  BY <1>2, Euclid DEF DividesTo, WrapsTo
<1> QED
  BY <1>1, <1>2

\* The lower word is the fraction, and a bump wraps where its carry is lost.
LEMMA BumpsAgree ==
  ASSUME FormatOK, N = 2, NEW v \in FPNs, NEW bump \in BOOLEAN
  PROVE  LET x == Native(v).mag
         IN  /\ FP64!Bumped(x, bump) = Digits(Bumped(v, bump))
             /\ Bumped(v, bump) \in Words
             /\ FP64!Lo(x) = Fraction(v.w) /\ Fraction(v.w) \in Nat
<1> DEFINE x == Digits(v.w)  f == Fraction(v.w)  up == IF bump THEN Unit ELSE 0
           whole == (x - f) + up  b == Digits(Bumped(v, bump))
<1>1. WordsOK /\ EvenWords
  BY FormatFacts
<1>2. Native(v).mag = x /\ Unit = B /\ Unit \in Nat /\ Unit > 0 /\ Limit \in Nat
      /\ FP64!MaxMag = Limit /\ x \in 0 .. Limit
  BY <1>1, NativeFacts, PointFacts, ValueFacts
<1>3. v.w \in Words
  BY DEF FPNs
<1>4. /\ f \in 0 .. Unit - 1 /\ x = Digits(WholeWords(v.w)) + f
      /\ \E k \in Nat : Digits(WholeWords(v.w)) = Unit * k
  BY <1>1, <1>3, WholeFacts
<1>5. PICK k \in Nat : x = Unit * k + f
  BY <1>4
<1>6. Bumped(v, bump) \in Words /\ b = IF whole > Limit THEN whole - (Limit + 1) ELSE whole
  <2>1. /\ Bumped(v, bump) \in Words
        /\ Digits(Bumped(v, bump))
             = IF x - f + up > Limit THEN (x - f + up) - (Limit + 1) ELSE x - f + up
    BY <1>1, BumpedFacts
  <2>2. x \in Nat /\ f \in Nat /\ up \in Nat
    BY <1>2, <1>4
  <2> HIDE DEF x, f, up
  <2>3. x - f + up = whole
    BY <2>2
  <2> QED
    BY <2>1, <2>3
<1>7. B * B = Limit + 1
  <2>1. FP64!MaxMag = B * B - 1 /\ B * B \in Int
    <3>1. B \in Nat
      BY <1>1 DEF WordsOK
    <3> QED
      BY <3>1 DEF FP64!MaxMag
  <2> QED
    BY <1>2, <2>1
<1>8. FP64!Lo(x) = x % B
  BY DEF FP64!Lo
<1>9. FP64!Bumped(x, bump) = ((x - (x % B)) + (IF bump THEN B ELSE 0)) % (B * B)
  BY DEF FP64!Bumped, FP64!Truncated, FP64!Lo
<1>10. Limit >= Unit
  BY OneFacts
<1> HIDE DEF x, f, b, B, Unit, Limit
<1>11. x % Unit = f
  BY <1>2, <1>4, Euclid, <1>5 DEF DividesTo
<1>12. FP64!Bumped(x, bump) = whole % (Limit + 1)
  BY <1>2, <1>7, <1>9, <1>11
<1>13. whole \in 0 .. 2 * (Limit + 1) - 1 /\ Limit + 1 \in Nat /\ Limit + 1 > 0
  <2>1. Unit * k \in Nat
    BY <1>2
  <2>2. x - f = Unit * k /\ x - f <= Limit
    BY <1>2, <1>4, <1>5, <2>1
  <2>3. up \in 0 .. Unit
    BY <1>2
  <2> HIDE DEF up
  <2> QED
    BY <1>2, <1>10, <2>1, <2>2, <2>3
<1> HIDE DEF whole
<1>14. WrapsTo(whole, Limit + 1, IF whole >= Limit + 1 THEN whole - (Limit + 1) ELSE whole)
  <2> DEFINE d == Limit + 1
  <2>1. d \in Nat /\ d > 0 /\ whole \in 0 .. 2 * d - 1
    BY <1>13
  <2> HIDE DEF d
  <2>2. WrapsTo(whole, d, IF whole >= d THEN whole - d ELSE whole)
    BY <2>1, OneWrap
  <2> QED
    BY <2>2 DEF d
<1>15. FP64!Bumped(x, bump) = b
  BY <1>2, <1>13, <1>6, <1>12, <1>14 DEF WrapsTo
<1>16. f \in Nat
  BY <1>2, <1>4
<1> QED
  BY <1>2, <1>6, <1>8, <1>11, <1>15, <1>16 DEF b, f

\* The three roundings round alike, carries lost and all.
LEMMA RoundingsAgree ==
  ASSUME FormatOK, N = 2, NEW v \in FPNs
  PROVE  /\ Native(Floor(v)) = FP64!Floor(Native(v))
         /\ Native(Ceil(v)) = FP64!Ceil(Native(v))
         /\ Native(Round(v)) = FP64!Round(Native(v))
<1> DEFINE x == Native(v)  f == Fraction(v.w)
           down == v.neg /\ f # 0  up == ~v.neg /\ f # 0  near == 2 * f >= Unit
<1>1. WordsOK /\ EvenWords /\ B % 2 = 0 /\ B = 2 * (B \div 2) /\ B \div 2 \in Nat
  BY FormatFacts
<1>2. v.w \in Words /\ v.neg \in BOOLEAN /\ x.neg = v.neg /\ Unit = B
  BY NativeFacts DEF FPNs
<1>3. \A p \in BOOLEAN : /\ FP64!Bumped(x.mag, p) = Digits(Bumped(v, p))
                         /\ MagIsZero(Bumped(v, p)) <=> Digits(Bumped(v, p)) = 0
  BY <1>1, BumpsAgree, MagIsZeroFacts
<1>4. FP64!Lo(x.mag) = f /\ f \in Nat
  <2>1. TRUE \in BOOLEAN
    OBVIOUS
  <2> QED
    BY <2>1, BumpsAgree
<1>5. HasFrac(v) <=> f # 0
  BY <1>1, <1>2, WholeFacts DEF HasFrac
<1>6. v.w[FW - 1] >= B \div 2 <=> near
  BY <1>1, <1>2, HalfFacts
<1>7. f >= B \div 2 <=> near
  <2> HIDE DEF f, B, Unit
  <2> QED
    BY <1>1, <1>2, <1>4
<1>8. down \in BOOLEAN /\ up \in BOOLEAN /\ near \in BOOLEAN
  BY <1>2
<1>9. /\ Floor(v) = [w |-> Bumped(v, down), neg |-> v.neg]
      /\ Ceil(v) = [w |-> Bumped(v, up), neg |-> v.neg /\ ~MagIsZero(Bumped(v, up))]
      /\ Round(v) = [w |-> Bumped(v, near), neg |-> v.neg /\ ~MagIsZero(Bumped(v, near))]
  <2>1. (v.neg /\ HasFrac(v)) = down /\ (~v.neg /\ HasFrac(v)) = up
        /\ (v.w[FW - 1] >= B \div 2) = near
    BY <1>5, <1>6
  <2> HIDE DEF down, up, near, HasFrac
  <2> QED
    BY <2>1 DEF Floor, Ceil, Round
<1>10. /\ FP64!Floor(x) = [mag |-> FP64!Bumped(x.mag, down), neg |-> x.neg]
       /\ FP64!Ceil(x) = [mag |-> FP64!Bumped(x.mag, up),
                          neg |-> x.neg /\ FP64!Bumped(x.mag, up) # 0]
       /\ FP64!Round(x) = [mag |-> FP64!Bumped(x.mag, near),
                           neg |-> x.neg /\ FP64!Bumped(x.mag, near) # 0]
  <2>1. (x.neg /\ FP64!Lo(x.mag) # 0) = down /\ (~x.neg /\ FP64!Lo(x.mag) # 0) = up
        /\ (FP64!Lo(x.mag) >= B \div 2) = near
    BY <1>2, <1>4, <1>7
  <2> HIDE DEF down, up, near, x
  <2> QED
    BY <2>1 DEF FP64!Floor, FP64!Ceil, FP64!Round
<1> HIDE DEF down, up, near, x
<1>11. Native(Floor(v)) = FP64!Floor(x)
  BY <1>2, <1>3, <1>8, <1>9, <1>10 DEF Native
<1>12. Native(Ceil(v)) = FP64!Ceil(x)
  BY <1>2, <1>3, <1>8, <1>9, <1>10 DEF Native
<1>13. Native(Round(v)) = FP64!Round(x)
  BY <1>2, <1>3, <1>8, <1>9, <1>10 DEF Native
<1> QED
  BY <1>11, <1>12, <1>13 DEF x

\* The sign operations and the guards.
LEMMA GuardsAgree ==
  ASSUME FormatOK, N = 2, NEW a \in FPNs, NEW b \in FPNs
  PROVE  /\ Native(Negate(a)) = FP64!Negate(Native(a))
         /\ Native(Abs(a)) = FP64!Abs(Native(a))
         /\ Native(Sign(a)) = FP64!Sign(Native(a))
         /\ Value(MinFP(a, b)) = FP64!Value(FP64!MinFP(Native(a), Native(b)))
         /\ Value(MaxFP(a, b)) = FP64!Value(FP64!MaxFP(Native(a), Native(b)))
<1> DEFINE x == Native(a)  y == Native(b)
<1>1. WordsOK /\ EvenWords
  BY FormatFacts
<1>2. /\ FP64!WordOK /\ FP64!MaxMag = Limit /\ Unit = B
      /\ x \in FP64!FP64s /\ FP64!Value(x) = Value(a) /\ x.mag = Digits(a.w) /\ x.neg = a.neg
      /\ y \in FP64!FP64s /\ FP64!Value(y) = Value(b) /\ y.mag = Digits(b.w) /\ y.neg = b.neg
  BY NativeFacts
<1>3. /\ MagIsZero(a.w) <=> Digits(a.w) = 0
      /\ MagIsZero(b.w) <=> Digits(b.w) = 0
      /\ Digits(b.w) \in Nat /\ Value(a) \in Int /\ Value(b) \in Int
      /\ Digits(a.w) \in Nat /\ a.neg \in BOOLEAN /\ b.neg \in BOOLEAN
      /\ a = [w |-> a.w, neg |-> a.neg]
      /\ (b.neg => Value(b) = 0 - Digits(b.w)) /\ (~b.neg => Value(b) = Digits(b.w))
      /\ (a.neg => Value(a) = 0 - Digits(a.w)) /\ (~a.neg => Value(a) = Digits(a.w))
  BY <1>1, ValueFacts
<1>4. x = [mag |-> Digits(a.w), neg |-> a.neg]
  BY DEF Native
<1> HIDE DEF x, y
<1>5. Native(Negate(a)) = FP64!Negate(x)
  BY <1>3, <1>4 DEF Negate, FP64!Negate, Native
<1>6. Native(Abs(a)) = FP64!Abs(x)
  <2>1. Abs(a).w = a.w /\ Abs(a).neg = FALSE
    BY <1>3 DEF Abs
  <2>2. FP64!Abs(x) = [mag |-> Digits(a.w), neg |-> FALSE]
    <3>1. FP64!Abs(x) = [x EXCEPT !.neg = FALSE]
      BY DEF FP64!Abs
    <3> QED
      BY <1>4, <3>1
  <2>3. Native(Abs(a)) = [mag |-> Digits(a.w), neg |-> FALSE]
    BY <2>1 DEF Native
  <2> QED
    BY <2>2, <2>3
<1>7. Native(Sign(a)) = FP64!Sign(x)
  <2>1. FP64!Sign(x) = [mag |-> IF x.mag # 0 THEN B ELSE 0, neg |-> x.neg /\ x.mag # 0]
    BY DEF FP64!Sign
  <2>2. CASE MagIsZero(a.w)
    BY <2>2, <1>1, ZeroFacts, <1>2, <1>3, <2>1 DEF Sign, Native, Zero
  <2>3. CASE ~MagIsZero(a.w)
    <3>1. Sign(a) = [w |-> One.w, neg |-> a.neg]
      BY <2>3 DEF Sign, One
    <3>2. Digits(One.w) = B
      BY <1>1, <1>2, OneFacts, WholeFacts, ZeroFacts
    <3>3. Native(Sign(a)) = [mag |-> B, neg |-> a.neg]
      BY <3>1, <3>2 DEF Native
    <3>4. x.mag # 0 /\ x.neg = a.neg /\ (x.neg /\ x.mag # 0) = a.neg
      BY <1>2, <1>3, <2>3
    <3> HIDE DEF B
    <3> QED
      BY <2>1, <3>3, <3>4
  <2> QED
    BY <2>2, <2>3
<1>9. Value(MinFP(a, b)) = FP64!Value(FP64!MinFP(x, y))
  BY <1>2, ComparisonsOrderValues, GuardsPick DEF FP64!MinFP
<1>10. Value(MaxFP(a, b)) = FP64!Value(FP64!MaxFP(x, y))
  <2> DEFINE u == Value(a)  z == Value(b)  m == Digits(a.w)  n == Digits(b.w)
             over == \/ a.neg # b.neg /\ ~a.neg
                     \/ a.neg = b.neg /\ (m > n) # a.neg /\ m # n
  <2>1. Value(MaxFP(a, b)) = IF u > z THEN u ELSE z
    BY GuardsPick
  <2>2. FP64!MaxFP(x, y) = IF over THEN x ELSE y
    BY <1>2 DEF FP64!MaxFP
  <2>3. /\ m \in Nat /\ n \in Nat /\ u \in Int /\ z \in Int
        /\ (b.neg => z = 0 - n) /\ (~b.neg => z = n)
        /\ (a.neg => u = 0 - m) /\ (~a.neg => u = m)
    BY <1>3
  <2> HIDE DEF u, z, m, n
  <2>4. over => u >= z
    <3>1. CASE a.neg
      <4>1. over => b.neg /\ ~(m > n)
        BY <1>3, <3>1
      <4> QED
        BY <2>3, <3>1, <4>1
    <3>2. CASE ~a.neg
      BY <1>3, <3>2, <2>3
    <3> QED
      BY <3>1, <3>2
  <2>5. ~over => u <= z
    <3>1. CASE a.neg
      <4>1. ~over => ~b.neg \/ m > n \/ m = n
        BY <1>3, <3>1
      <4> QED
        BY <2>3, <3>1, <4>1
    <3>2. CASE ~a.neg
      BY <1>3, <3>2, <2>3
    <3> QED
      BY <3>1, <3>2
  <2>6. FP64!Value(IF over THEN x ELSE y) = IF over THEN u ELSE z
    BY <1>2 DEF u, z
  <2> HIDE DEF over
  <2> QED
    BY <2>1, <2>2, <2>3, <2>4, <2>5, <2>6
<1> QED
  BY <1>5, <1>6, <1>7, <1>9, <1>10 DEF x, y

\* A product with a weight between zero and one goes no further than its factor.
LEMMA WeighedDown ==
  ASSUME FormatOK, NEW d \in FPNs, NEW t \in FPNs, 0 <= Value(t), Value(t) <= Unit
  PROVE  /\ Mul(d, t) \in FPNs /\ (Mul(d, t).neg => Value(Mul(d, t)) < 0)
         /\ Value(Mul(d, t)) \in Int /\ Size(Value(Mul(d, t))) <= Size(Value(d))
         /\ Value(d) >= 0 => Value(Mul(d, t)) >= 0
         /\ Value(d) <= 0 => Value(Mul(d, t)) <= 0
<1> DEFINE r == Value(Mul(d, t))  x == Value(d)  y == Value(t)  u == Unit
           q == (Size(x) * Size(y)) \div Powers[FW]
<1>1. WordsOK /\ EvenWords /\ u \in Nat /\ u > 0 /\ u = Powers[FW]
  BY FormatFacts, PointFacts DEF Unit
<1>2. /\ x \in Int /\ Size(x) \in Nat /\ Size(x) <= Limit /\ Limit \in Nat /\ y \in Int
  BY <1>1, ValueFacts
<1>3. Mul(d, t) \in FPNs
  BY WordProductsSaturate
<1>4. Size(r) = IF q > Limit THEN Limit ELSE q
  BY WordProductsSaturate
<1>5. (r # 0 => (r < 0 <=> (x < 0 <=> ~(y < 0)))) /\ (Mul(d, t).neg => r < 0)
  BY WordProductsSaturate
<1>6. r \in Int /\ Size(r) \in Nat
  BY <1>1, <1>3, ValueFacts
<1>7. 0 <= y /\ y <= u
  OBVIOUS
<1> HIDE DEF r, x, y, u
<1>8. q <= Size(x) /\ q \in Nat
  <2>1. Size(y) = y /\ y \in Nat
    BY <1>2, <1>7 DEF Size
  <2> DEFINE a == Size(x)  n == a * y
  <2>2. a \in Nat
    BY <1>2
  <2> HIDE DEF a
  <2>3. n \in Nat /\ n <= a * u
    BY <1>1, <1>2, <1>7, <2>1, <2>2
  <2> HIDE DEF n
  <2>4. n \div u <= a /\ n \div u \in Nat
    BY <1>1, <2>2, <2>3, CutBelow, CutOff
  <2>5. q = n \div u
    BY <1>1, <2>1 DEF n, a
  <2> QED
    BY <2>4, <2>5 DEF a
<1> HIDE DEF q
<1>9. Size(r) <= Size(x)
  BY <1>2, <1>4, <1>6, <1>8
<1>10. (x >= 0 => r >= 0) /\ (x <= 0 => r <= 0)
  BY <1>2, <1>6, <1>9, <1>7, <1>5 DEF Size
<1> QED
  BY <1>3, <1>5, <1>6, <1>9, <1>10 DEF r, x

\* An interpolation has no sum that does not fit, so both builds interpolate alike.
LEMMA BlendsAgree ==
  ASSUME FormatOK, N = 2, NEW a \in FPNs, NEW b \in FPNs, NEW t \in FPNs,
         0 <= Value(t), Value(t) <= Unit, Size(Value(b) - Value(a)) <= Limit
  PROVE  Native(Lerp(a, b, t)) = FP64!Lerp(Native(a), Native(b), Native(t))
<1> DEFINE d == SubSat(b, a)  m == Mul(d, t)
           dd == FP64!SubSat(Native(b), Native(a))  mm == FP64!Mul(dd, Native(t))
<1>1. Native(d) = dd
  BY BuildsAgreeOnResults
<1>2. d \in FPNs /\ Value(d) = Value(b) - Value(a)
  BY DifferencesExactOrWrapped DEF ExactOrWrapped
<1>3. Lerp(a, b, t) = AddSat(a, m)
  BY DEF Lerp
<1>4. FP64!Lerp(Native(a), Native(b), Native(t)) = FP64!AddSat(Native(a), mm)
  BY DEF FP64!Lerp
<1> HIDE DEF d, dd
<1>5. Native(m) = mm
  BY <1>1, <1>2, BuildsAgreeOnResults
<1>6. /\ m \in FPNs /\ Value(m) \in Int /\ Size(Value(m)) <= Size(Value(d))
      /\ Value(d) >= 0 => Value(m) >= 0
      /\ Value(d) <= 0 => Value(m) <= 0
  BY <1>2, WeighedDown
<1> HIDE DEF m, mm
<1>7. Size(Value(a) + Value(m)) <= Limit
  <2> DEFINE x == Value(a)  y == Value(b)  z == Value(m)  w == Value(d)
  <2>1. WordsOK
    BY FormatFacts
  <2>2. x \in Int /\ y \in Int /\ z \in Int /\ Limit \in Nat
        /\ Size(x) <= Limit /\ Size(y) <= Limit
    BY <1>6, <2>1, ValueFacts
  <2>3. w = y - x /\ Size(z) <= Size(w) /\ (w >= 0 => z >= 0) /\ (w <= 0 => z <= 0)
    BY <1>2, <1>6
  <2> HIDE DEF x, y, z, w
  <2>4. Size(x + z) <= Limit
    BY <2>2, <2>3 DEF Size
  <2> QED
    BY <2>4 DEF x, z
<1>8. Native(AddSat(a, m)) = FP64!AddSat(Native(a), Native(m))
  BY <1>6, <1>7, BuildsAgreeOnResults
<1> QED
  BY <1>3, <1>4, <1>5, <1>8

\* Where a sum does not fit, the other build stops at its end of the range.
LEMMA SumsPart ==
  ASSUME FormatOK, N = 2, NEW a \in FPNs, NEW b \in FPNs,
         Size(Value(a) + Value(b)) > Limit
  PROVE  FP64!AddSat(Native(a), Native(b)).mag = Limit
<1> DEFINE x == Native(a)  y == Native(b)  r == FP64!AddSat(x, y)  s == Value(a) + Value(b)
<1>1. /\ FP64!WordOK /\ FP64!MaxMag = Limit /\ Limit \in Nat
      /\ x \in FP64!FP64s /\ FP64!Value(x) = Value(a)
      /\ y \in FP64!FP64s /\ FP64!Value(y) = Value(b)
  BY NativeFacts
<1>2. Value(a) \in Int /\ Value(b) \in Int
  BY FormatFacts, ValueFacts
<1> HIDE DEF x, y
<1>3. r \in FP64!FP64s /\ FP64!Value(r) = Clamp(s)
  BY <1>1, AddSatClamps
<1>4. s \in Int /\ Size(s) > Limit
  BY <1>2
<1> HIDE DEF r, s
<1>5. Clamp(s) = Limit \/ Clamp(s) = 0 - Limit
  BY <1>1, <1>4 DEF Clamp, Size
<1>6. r.mag \in 0 .. Limit
  BY <1>1, <1>3 DEF FP64!FP64s
<1>7. r.mag = Limit
  BY <1>1, <1>3, <1>5, <1>6 DEF FP64!Value
<1> QED
  BY <1>7 DEF r, x, y

\* The five comparisons.
LEMMA OrdersAgree ==
  ASSUME FormatOK, N = 2, NEW a \in FPNs, NEW b \in FPNs
  PROVE  /\ FP64!LessThan(Native(a), Native(b)) <=> LessThan(a, b)
         /\ FP64!LessThanOrEqual(Native(a), Native(b)) <=> LessThanOrEqual(a, b)
         /\ FP64!GreaterThan(Native(a), Native(b)) <=> GreaterThan(a, b)
         /\ FP64!GreaterThanOrEqual(Native(a), Native(b)) <=> GreaterThanOrEqual(a, b)
         /\ FP64!Equal(Native(a), Native(b)) <=> Equal(a, b)
<1> DEFINE x == Native(a)  y == Native(b)
<1>1. /\ FP64!WordOK
      /\ x \in FP64!FP64s /\ FP64!Value(x) = Value(a)
      /\ y \in FP64!FP64s /\ FP64!Value(y) = Value(b)
  BY NativeFacts
<1> HIDE DEF x, y
<1>2. /\ FP64!LessThan(x, y) <=> LessThan(a, b)
      /\ FP64!LessThanOrEqual(x, y) <=> LessThanOrEqual(a, b)
      /\ FP64!GreaterThan(x, y) <=> GreaterThan(a, b)
      /\ FP64!GreaterThanOrEqual(x, y) <=> GreaterThanOrEqual(a, b)
      /\ FP64!Equal(x, y) <=> Equal(a, b)
  BY <1>1, ComparisonsOrderValues, WordComparisonsOrderValues
<1> QED
  BY <1>2 DEF x, y

-----------------------------------------------------------------------------
(* The chain of operations.                                                *)

Operations ==
  {"Load", "AddSat", "SubSat", "Mul", "DivNoAssert", "Mod", "Min", "Max", "Negate", "Abs",
   "Sign", "Floor", "Ceil", "Round", "Lerp", "SmoothStep", "Text", "Double", "Narrow"}

\* What each operation makes of its operands.
Made(op, a, b, c, r) ==
  /\ op = "Load"        => r = b
  /\ op = "AddSat"      => r = AddSat(a, b)
  /\ op = "SubSat"      => r = SubSat(a, b)
  /\ op = "Mul"         => r = Mul(a, b)
  /\ op = "DivNoAssert" => r = DivNoAssert(a, b)
  /\ op = "Mod"         => r = Mod(a, b)
  /\ op = "Min"         => r = MinFP(a, b)
  /\ op = "Max"         => r = MaxFP(a, b)
  /\ op = "Negate"      => r = Negate(a)
  /\ op = "Abs"         => r = Abs(a)
  /\ op = "Sign"        => r = Sign(a)
  /\ op = "Floor"       => r = Floor(a)
  /\ op = "Ceil"        => r = Ceil(a)
  /\ op = "Round"       => r = Round(a)
  /\ op = "Lerp"        => r = Lerp(a, b, c)
  /\ op = "SmoothStep"  => B > 3 /\ r = SmoothStep(b, c, a)
  /\ op = "Text"        => r = FromString(ToString(a))
  /\ op = "Double"      => /\ ToDouble(a).m < B * B * B * B
                           /\ r = FromDouble(ToDouble(a).neg, ToDouble(a).m)
  /\ op = "Narrow"      => r = FromFP64(ToFP64(a))

\* The inductive invariant: the history explains the register.
Explained ==
  /\ last = Fresh \/ last.op \in Operations
  /\ Made(last.op, last.a, last.b, last.c, acc)
FixedPointInv == TypeOK /\ Explained

\* A step of the chain forgets the history or computes.
Computed ==
  \E op \in Operations, b, c \in FPNs :
    /\ last' = [op |-> op, a |-> acc, b |-> b, c |-> c]
    /\ acc' \in FPNs /\ Made(op, acc, b, c, acc')

\* An operation on numbers that gives a number leaves the register explained.
LEMMA OneOperation ==
  ASSUME NEW op \in Operations, NEW b \in FPNs, NEW c \in FPNs, NEW r \in FPNs,
         Compute3(op, b, c, r), Made(op, acc, b, c, r)
  PROVE  Computed
BY DEF Computed, Compute3

\* The operation is the one its name says.
LEMMA MadeFacts ==
  ASSUME TRUE
  PROVE  \A a, b, c :
           /\ Made("Load", a, b, c, b)
           /\ Made("AddSat", a, b, c, AddSat(a, b))
           /\ Made("SubSat", a, b, c, SubSat(a, b))
           /\ Made("Mul", a, b, c, Mul(a, b))
           /\ Made("DivNoAssert", a, b, c, DivNoAssert(a, b))
           /\ Made("Mod", a, b, c, Mod(a, b))
           /\ Made("Min", a, b, c, MinFP(a, b))
           /\ Made("Max", a, b, c, MaxFP(a, b))
           /\ Made("Negate", a, b, c, Negate(a))
           /\ Made("Abs", a, b, c, Abs(a))
           /\ Made("Sign", a, b, c, Sign(a))
           /\ Made("Floor", a, b, c, Floor(a))
           /\ Made("Ceil", a, b, c, Ceil(a))
           /\ Made("Round", a, b, c, Round(a))
           /\ Made("Lerp", a, b, c, Lerp(a, b, c))
           /\ B > 3 => Made("SmoothStep", a, b, c, SmoothStep(b, c, a))
           /\ Made("Text", a, b, c, FromString(ToString(a)))
           /\ ToDouble(a).m < B * B * B * B
                => Made("Double", a, b, c, FromDouble(ToDouble(a).neg, ToDouble(a).m))
           /\ Made("Narrow", a, b, c, FromFP64(ToFP64(a)))
BY DEF Made

\* Every step of the chain is an operation on numbers or forgets the last one.
LEMMA ChainSteps ==
  ASSUME TypeOK, Next
  PROVE  Computed \/ (last' = Fresh /\ acc' = acc)
<1>1. /\ FormatOK /\ DigitsOK /\ WordsOK /\ acc \in FPNs /\ Zero \in FPNs
      /\ Operands \subseteq FPNs /\ Ends \subseteq FPNs
  BY FormatAssumption, FormatFacts, ZeroFacts DEF TypeOK
<1>2. ASSUME NEW op \in Operations, NEW b \in FPNs, NEW r \in FPNs, Compute2(op, b, r),
             Made(op, acc, b, Zero, r)
      PROVE  Computed
  BY <1>1, <1>2, OneOperation DEF Compute2
<1>3. ASSUME NEW op \in Operations, NEW r \in FPNs, Compute1(op, r),
             Made(op, acc, Zero, Zero, r)
      PROVE  Computed
  BY <1>1, <1>2, <1>3 DEF Compute1
<1>4. CASE Load
  <2>1. PICK b \in Operands : Compute2("Load", b, b)
    BY <1>4 DEF Load
  <2>2. "Load" \in Operations
    BY DEF Operations
  <2> QED
    BY <1>1, <1>2, <2>1, <2>2, MadeFacts
<1>5. CASE Add
  <2>1. PICK b \in Operands : Compute2("AddSat", b, AddSat(acc, b))
    BY <1>5 DEF Add
  <2>2. "AddSat" \in Operations
    BY DEF Operations
  <2>3. AddSat(acc, b) \in FPNs
    BY <1>1, SumsClosed DEF Proper
  <2> QED
    BY <1>1, <1>2, <2>1, <2>2, <2>3, MadeFacts
<1>6. CASE Subtract
  <2>1. PICK b \in Operands : Compute2("SubSat", b, SubSat(acc, b))
    BY <1>6 DEF Subtract
  <2>2. "SubSat" \in Operations
    BY DEF Operations
  <2>3. SubSat(acc, b) \in FPNs
    BY <1>1, SumsClosed DEF Proper
  <2> QED
    BY <1>1, <1>2, <2>1, <2>2, <2>3, MadeFacts
<1>7. CASE Multiply
  <2>1. PICK b \in Operands : Compute2("Mul", b, Mul(acc, b))
    BY <1>7 DEF Multiply
  <2>2. "Mul" \in Operations
    BY DEF Operations
  <2>3. Mul(acc, b) \in FPNs
    BY <1>1, SumsClosed DEF Proper
  <2> QED
    BY <1>1, <1>2, <2>1, <2>2, <2>3, MadeFacts
<1>8. CASE Divide
  <2>1. PICK b \in Operands : Compute2("DivNoAssert", b, DivNoAssert(acc, b))
    BY <1>8 DEF Divide
  <2>2. "DivNoAssert" \in Operations
    BY DEF Operations
  <2>3. DivNoAssert(acc, b) \in FPNs
    BY <1>1, QuotientsClosed DEF Proper
  <2> QED
    BY <1>1, <1>2, <2>1, <2>2, <2>3, MadeFacts
<1>9. CASE Remain
  <2>1. PICK b \in Operands : Compute2("Mod", b, Mod(acc, b))
    BY <1>9 DEF Remain
  <2>2. "Mod" \in Operations
    BY DEF Operations
  <2>3. Mod(acc, b) \in FPNs
    BY <1>1, ComposedClosed DEF Proper
  <2> QED
    BY <1>1, <1>2, <2>1, <2>2, <2>3, MadeFacts
<1>10. CASE Lesser
  <2>1. PICK b \in Operands : Compute2("Min", b, MinFP(acc, b))
    BY <1>10 DEF Lesser
  <2>2. "Min" \in Operations
    BY DEF Operations
  <2>3. MinFP(acc, b) \in FPNs
    BY <1>1, GuardsPick
  <2> QED
    BY <1>1, <1>2, <2>1, <2>2, <2>3, MadeFacts
<1>11. CASE Greater
  <2>1. PICK b \in Operands : Compute2("Max", b, MaxFP(acc, b))
    BY <1>11 DEF Greater
  <2>2. "Max" \in Operations
    BY DEF Operations
  <2>3. MaxFP(acc, b) \in FPNs
    BY <1>1, GuardsPick
  <2> QED
    BY <1>1, <1>2, <2>1, <2>2, <2>3, MadeFacts
<1>12. CASE Oppose
  BY <1>12, <1>1, GuardsClosed, <1>3, MadeFacts DEF Oppose, Operations
<1>13. CASE Strip
  BY <1>13, <1>1, GuardsClosed, <1>3, MadeFacts DEF Strip, Operations, Proper
<1>14. CASE Signum
  BY <1>14, <1>1, GuardsClosed, <1>3, MadeFacts DEF Signum, Operations, Proper
<1>15. CASE Down
  BY <1>15, <1>1, WholeClosed, <1>3, MadeFacts DEF Down, Operations
<1>16. CASE Up
  BY <1>16, <1>1, WholeClosed, <1>3, MadeFacts DEF Up, Operations, Proper
<1>17. CASE Nearest
  BY <1>17, <1>1, WholeClosed, <1>3, MadeFacts DEF Nearest, Operations, Proper
<1>18. CASE Blend
  <2>1. PICK b, t \in Ends : Compute3("Lerp", b, t, Lerp(acc, b, t))
    BY <1>18 DEF Blend
  <2>2. "Lerp" \in Operations /\ b \in FPNs /\ t \in FPNs
    BY <1>1 DEF Operations
  <2>3. Lerp(acc, b, t) \in FPNs
    BY <1>1, <2>2, ComposedClosed DEF Proper
  <2> QED
    BY <2>1, <2>2, <2>3, MadeFacts, OneOperation
<1>19. CASE Smooth
  <2>1. B > 3
    BY <1>19 DEF Smooth
  <2>2. PICK b, c \in Ends : Compute3("SmoothStep", b, c, SmoothStep(b, c, acc))
    BY <1>19 DEF Smooth
  <2>3. "SmoothStep" \in Operations /\ b \in FPNs /\ c \in FPNs
    BY <1>1 DEF Operations
  <2>4. SmoothStep(b, c, acc) \in FPNs
    BY <1>1, <2>1, <2>3, SmoothClosed DEF Proper
  <2>5. Made("SmoothStep", acc, b, c, SmoothStep(b, c, acc))
    BY <2>1, MadeFacts
  <2> QED
    BY <2>2, <2>3, <2>4, <2>5, OneOperation
<1>20. CASE Text
  BY <1>20, <1>1, TextLosesAtMostOneUnit, <1>3, MadeFacts DEF Text, Operations, Proper
<1>21. CASE Double
  <2> DEFINE r == FromDouble(ToDouble(acc).neg, ToDouble(acc).m)
  <2>1. ToDouble(acc).m < B * B * B * B /\ Compute1("Double", r)
    BY <1>21 DEF Double
  <2>2. "Double" \in Operations
    BY DEF Operations
  <2>3. r \in FPNs
    BY <1>1, <2>1, FormatAssumption, DoublesReturn DEF Proper
  <2>4. Made("Double", acc, Zero, Zero, r)
    BY <2>1, MadeFacts
  <2> HIDE DEF r
  <2> QED
    BY <1>1, <1>3, <2>1, <2>2, <2>3, <2>4
<1>22. CASE Narrow
  BY <1>22, <1>1, NarrowReturns, <1>3, MadeFacts DEF Narrow, Operations, Proper
<1>23. CASE Continue
  BY <1>23 DEF Continue
<1> QED
  BY <1>4, <1>5, <1>6, <1>7, <1>8, <1>9, <1>10, <1>11, <1>12, <1>13, <1>14, <1>15, <1>16,
     <1>17, <1>18, <1>19, <1>20, <1>21, <1>22, <1>23 DEF Next

\* The history always explains the register, and both are numbers.
LEMMA ChainInvariant == Spec => []FixedPointInv
<1>1. Init => FixedPointInv
  BY FormatAssumption, FormatFacts, ZeroFacts DEF Init, Fresh, Made, FixedPointInv, TypeOK,
     Explained
<1>2. FixedPointInv /\ [Next]_vars => FixedPointInv'
  <2> SUFFICES ASSUME FixedPointInv, [Next]_vars PROVE FixedPointInv'
    OBVIOUS
  <2>1. CASE Computed
    <3>1. PICK op \in Operations, b \in FPNs, c \in FPNs :
            /\ last' = [op |-> op, a |-> acc, b |-> b, c |-> c]
            /\ acc' \in FPNs /\ Made(op, acc, b, c, acc')
      BY <2>1 DEF Computed
    <3>2. last'.op = op /\ last'.a = acc /\ last'.b = b /\ last'.c = c
      BY <3>1
    <3>3. TypeOK'
      BY <3>1, <3>2 DEF FixedPointInv, TypeOK
    <3>4. Explained'
      BY <3>1, <3>2 DEF Explained
    <3> QED
      BY <3>3, <3>4 DEF FixedPointInv
  <2>2. CASE last' = Fresh /\ acc' = acc
    BY FormatAssumption, FormatFacts, ZeroFacts, <2>2 DEF Fresh, FixedPointInv, TypeOK, Made,
       Explained
  <2>3. CASE UNCHANGED vars
    BY <2>3 DEF FixedPointInv, TypeOK, Explained, vars
  <2>4. CASE Next
    BY <2>1, <2>2, <2>4, ChainSteps DEF FixedPointInv
  <2> QED
    BY <2>3, <2>4
<1> QED
  BY <1>1, <1>2, PTL DEF Spec

\* What the invariant says, ready to use.
LEMMA ChainFacts ==
  ASSUME FixedPointInv
  PROVE  /\ FormatOK /\ DigitsOK /\ DoublesOK /\ WordsOK
         /\ acc \in FPNs /\ last.a \in FPNs /\ last.b \in FPNs /\ last.c \in FPNs
         /\ Made(last.op, last.a, last.b, last.c, acc)
         /\ Result \in Int /\ ValA \in Int /\ ValB \in Int /\ ValC \in Int
<1>1. FormatOK /\ DigitsOK /\ DoublesOK /\ WordsOK
  BY FormatAssumption, FormatFacts
<1>2. /\ acc \in FPNs /\ last.a \in FPNs /\ last.b \in FPNs /\ last.c \in FPNs
      /\ Made(last.op, last.a, last.b, last.c, acc)
  BY DEF FixedPointInv, TypeOK, Explained
<1>3. \A v \in FPNs : Value(v) \in Int
  BY <1>1, ValueFacts
<1> QED
  BY <1>1, <1>2, <1>3 DEF Result, ValA, ValB, ValC

\* What explains the register makes sums and products the integers' own.
LEMMA ChainSums ==
  ASSUME FixedPointInv PROVE SumsMatch /\ ProductsMatch
<1>1. /\ FormatOK /\ last.a \in FPNs /\ last.b \in FPNs
      /\ Made(last.op, last.a, last.b, last.c, acc)
  BY ChainFacts
<1>2. Did("AddSat") => acc = AddSat(last.a, last.b)
  BY <1>1 DEF Did, Made
<1>3. Did("SubSat") => acc = SubSat(last.a, last.b)
  BY <1>1 DEF Did, Made
<1>4. Did("Mul") => acc = Mul(last.a, last.b)
  BY <1>1 DEF Did, Made
<1>5. SumsMatch
  BY <1>1, <1>2, <1>3, SumsExactOrWrapped, DifferencesExactOrWrapped
     DEF SumsMatch, Result, ValA, ValB
<1>6. ProductsMatch
  BY <1>4, <1>1, WordProductsSaturate DEF ProductsMatch, Unit, Result, ValA, ValB
<1> QED
  BY <1>5, <1>6

\* The same for quotients and remainders.
LEMMA ChainQuotients ==
  ASSUME FixedPointInv PROVE QuotientsMatch /\ RemaindersMatch
<1>1. /\ FormatOK /\ last.a \in FPNs /\ last.b \in FPNs /\ WordsOK
      /\ Made(last.op, last.a, last.b, last.c, acc)
      /\ Result \in Int /\ ValA \in Int /\ ValB \in Int
  BY ChainFacts
<1>2. Did("DivNoAssert") => acc = DivNoAssert(last.a, last.b)
  BY <1>1 DEF Did, Made
<1>3. Did("Mod") => acc = Mod(last.a, last.b)
  BY <1>1 DEF Did, Made
<1>4. QuotientsMatch
  BY <1>2, <1>1, QuotientsTruncate DEF QuotientsMatch, Result, ValA, ValB
<1>5. RemaindersMatch
  <2> SUFFICES ASSUME Did("Mod"), DivisionFits(ValA, ValB)
               PROVE  /\ Size(Result) < Size(ValB)
                      /\ Result # 0 => (Result < 0 <=> ValA < 0)
                      /\ (ValA - Result) % Size(ValB) = 0
    BY DEF RemaindersMatch
  <2>1. acc = Mod(last.a, last.b) /\ DivisionFits(Value(last.a), Value(last.b))
    BY <1>3 DEF ValA, ValB
  <2>2. /\ Size(Result) < Size(ValB)
        /\ Result # 0 => (Result < 0 <=> ValA < 0)
        /\ \E n \in Int : ValA = Result + n * Size(ValB)
    BY <1>1, <2>1, RemaindersBounded DEF Result, ValA, ValB
  <2>3. PICK n \in Int : ValA = Result + n * Size(ValB)
    BY <2>2
  <2> DEFINE d == Size(ValB)  m == ValA - Result
  <2>4. d \in Nat /\ d > 0
    BY <1>1 DEF Size, DivisionFits
  <2>5. m \in Int /\ m = d * n + 0 /\ 0 \in 0 .. d - 1
    <3>1. ValA = Result + n * d
      BY <2>3
    <3> HIDE DEF d
    <3> QED
      BY <1>1, <2>4, <3>1
  <2> HIDE DEF d, m
  <2>6. DividesTo(m, d, n, 0)
    BY <2>4, <2>5, Euclid
  <2>7. m % d = 0
    BY <2>5, <2>6 DEF DividesTo
  <2> QED
    BY <2>2, <2>7 DEF m, d
<1> QED
  BY <1>4, <1>5

\* The same for blends, smooth steps and what went out and came back.
LEMMA ChainBlends ==
  ASSUME FixedPointInv PROVE BlendsBetween /\ SmoothStepClamped /\ RoundTrips
<1>1. /\ FormatOK /\ DigitsOK /\ DoublesOK /\ last.a \in FPNs /\ last.b \in FPNs /\ last.c \in FPNs
      /\ Made(last.op, last.a, last.b, last.c, acc)
  BY ChainFacts
<1>2. Did("Lerp") => acc = Lerp(last.a, last.b, last.c)
  BY <1>1 DEF Did, Made
<1>3. Did("SmoothStep") => B > 3 /\ acc = SmoothStep(last.b, last.c, last.a)
  BY <1>1 DEF Did, Made
<1>4. Did("Text") => acc = FromString(ToString(last.a))
  BY <1>1 DEF Did, Made
<1>5. Did("Double") => /\ ToDouble(last.a).m < B * B * B * B
                       /\ acc = FromDouble(ToDouble(last.a).neg, ToDouble(last.a).m)
  BY <1>1 DEF Did, Made
<1>6. Did("Narrow") => acc = FromFP64(ToFP64(last.a))
  BY <1>1 DEF Did, Made
<1>7. BlendsBetween
  BY <1>1, <1>2, LerpStaysBetween DEF BlendsBetween, Result, ValA, ValB, ValC
<1>8. SmoothStepClamped
  BY <1>3, <1>1, SmoothStaysClamped DEF SmoothStepClamped, ValB, ValC, Result, ValA
<1>9. RoundTrips
  BY <1>1, <1>4, TextLosesAtMostOneUnit, <1>5, DoublesReturn, <1>6, NarrowReturns DEF Result,
     ValA, RoundTrips
<1> QED
  BY <1>7, <1>8, <1>9

\* The same for comparisons and for the lesser and the greater of two.
LEMMA ChainOrder ==
  ASSUME FixedPointInv PROVE OrderMatchesValues
<1>1. /\ FormatOK /\ last.a \in FPNs /\ last.b \in FPNs
      /\ Made(last.op, last.a, last.b, last.c, acc)
  BY ChainFacts
<1>2. Did("Min") => acc = MinFP(last.a, last.b)
  BY <1>1 DEF Did, Made
<1>3. Did("Max") => acc = MaxFP(last.a, last.b)
  BY <1>1 DEF Did, Made
<1>4. /\ LessThan(last.a, last.b) <=> ValA < ValB
      /\ LessThanOrEqual(last.a, last.b) <=> ValA <= ValB
      /\ GreaterThan(last.a, last.b) <=> ValA > ValB
      /\ GreaterThanOrEqual(last.a, last.b) <=> ValA >= ValB
      /\ Equal(last.a, last.b) <=> ValA = ValB
  BY <1>1, WordComparisonsOrderValues DEF ValA, ValB
<1>5. /\ Did("Min") => Result = IF ValA < ValB THEN ValA ELSE ValB
      /\ Did("Max") => Result = IF ValA > ValB THEN ValA ELSE ValB
  BY <1>1, <1>2, <1>3, GuardsPick DEF Result, ValA, ValB
<1> QED
  BY <1>4, <1>5 DEF OrderMatchesValues

\* A whole number of units leaves no remainder.
LEMMA WholeRemainder ==
  ASSUME FormatOK, NEW m \in Int, \E x \in Int : m = Unit * x
  PROVE  m % Unit = 0
<1>1. Unit \in Nat /\ Unit > 0
  BY FormatFacts, PointFacts
<1>2. PICK x \in Int : m = Unit * x
  OBVIOUS
<1> HIDE DEF Unit
<1>3. 0 \in 0 .. Unit - 1 /\ m = Unit * x + 0
  BY <1>1, <1>2
<1>4. DividesTo(m, Unit, x, 0)
  BY <1>1, <1>3, Euclid
<1> QED
  BY <1>3, <1>4 DEF DividesTo

\* The same for whole parts.
LEMMA ChainRounding ==
  ASSUME FixedPointInv PROVE RoundingBrackets
<1>1. /\ FormatOK /\ WordsOK /\ last.a \in FPNs /\ Made(last.op, last.a, last.b, last.c, acc)
      /\ Result \in Int /\ ValA \in Int
  BY ChainFacts
<1>2. /\ Did("Floor") => acc = Floor(last.a)
      /\ Did("Ceil") => acc = Ceil(last.a)
      /\ Did("Round") => acc = Round(last.a)
  BY <1>1 DEF Did, Made
<1> SUFFICES ASSUME Size(ValA) + Unit <= Limit
             PROVE  /\ Did("Floor") => Result % Unit = 0 /\ Result <= ValA /\ ValA < Result + Unit
                    /\ Did("Ceil") => Result % Unit = 0 /\ Result >= ValA /\ ValA > Result - Unit
                    /\ Did("Round") =>
                         /\ Result % Unit = 0 /\ 2 * Size(ValA - Result) <= Unit
                         /\ 2 * Size(ValA - Result) = Unit => Size(Result) > Size(ValA)
  BY DEF RoundingBrackets
<1>3. Size(Value(last.a)) <= Limit - Unit
  BY <1>1, FormatFacts, PointFacts, ValueFacts DEF Size, ValA
<1>4. /\ \A r \in {Floor(last.a), Ceil(last.a), Round(last.a)} :
           r \in FPNs /\ \E x \in Int : Value(r) = Unit * x
      /\ Value(Floor(last.a)) <= ValA /\ ValA < Value(Floor(last.a)) + Unit
      /\ Value(Ceil(last.a)) >= ValA /\ ValA > Value(Ceil(last.a)) - Unit
      /\ 2 * Size(ValA - Value(Round(last.a))) <= Unit
      /\ 2 * Size(ValA - Value(Round(last.a))) = Unit
           => Size(Value(Round(last.a))) > Size(ValA)
  BY <1>1, <1>3, WholeNumbersBracket DEF ValA
<1>5. acc \in {Floor(last.a), Ceil(last.a), Round(last.a)} => Result % Unit = 0
  BY <1>1, <1>4, WholeRemainder DEF Result
<1>6. Did("Floor") => Result % Unit = 0 /\ Result <= ValA /\ ValA < Result + Unit
  BY <1>2, <1>4, <1>5 DEF Result
<1>7. Did("Ceil") => Result % Unit = 0 /\ Result >= ValA /\ ValA > Result - Unit
  BY <1>2, <1>4, <1>5 DEF Result
<1>8. Did("Round") => /\ Result % Unit = 0 /\ 2 * Size(ValA - Result) <= Unit
                      /\ 2 * Size(ValA - Result) = Unit => Size(Result) > Size(ValA)
  BY <1>2, <1>4, <1>5 DEF Result
<1> QED
  BY <1>6, <1>7, <1>8

\* Where a negative zero can have come from.
LEMMA ChainZeros ==
  ASSUME FixedPointInv PROVE NegativeZeroContained
<1>1. /\ FormatOK /\ last.a \in FPNs /\ last.b \in FPNs /\ last.c \in FPNs
      /\ Made(last.op, last.a, last.b, last.c, acc)
  BY ChainFacts
<1> SUFFICES ASSUME NegativeZero(acc), last # Fresh
             PROVE  \/ Did("Floor")
                    \/ NegativeZero(last.a) /\ last.op \in {"Negate", "Min", "Max"}
                    \/ NegativeZero(last.b) /\ last.op \in {"Load", "Min", "Max"}
  BY DEF NegativeZeroContained
<1>2. last.op \in Operations
  BY DEF FixedPointInv, Explained
<1>3. ~Proper(acc)
  BY DEF Proper
<1>4. last.op \notin {"AddSat", "SubSat", "Mul"}
  BY <1>1, SumsClosed, <1>3 DEF Made
<1>5. last.op \notin {"DivNoAssert", "Mod", "Lerp"}
  BY <1>1, QuotientsClosed, ComposedClosed, <1>3 DEF Made
<1>6. last.op \notin {"Abs", "Sign", "Ceil", "Round"}
  BY <1>1, GuardsClosed, WholeClosed, <1>3 DEF Made
<1>7. last.op # "SmoothStep"
  BY <1>1, SmoothClosed, <1>3 DEF Made
<1>8. last.op \notin {"Text", "Double", "Narrow"}
  BY <1>1, ChainFacts, TextLosesAtMostOneUnit, FormatAssumption, DoublesReturn, NarrowReturns,
     <1>3 DEF Made
<1>9. last.op \in {"Load", "Min", "Max", "Negate", "Floor"}
  BY <1>2, <1>4, <1>5, <1>6, <1>7, <1>8 DEF Operations
<1>10. CASE last.op = "Load"
  BY <1>1, <1>10 DEF Made
<1>11. CASE last.op \in {"Min", "Max"}
  BY <1>1, GuardsPick, <1>11 DEF Made
<1>12. CASE last.op = "Negate"
  BY <1>1, <1>12, GuardsClosed DEF Made
<1>13. CASE last.op = "Floor"
  BY <1>13 DEF Did
<1> QED
  BY <1>9, <1>10, <1>11, <1>12, <1>13

\* What explains the register makes the two builds' results the same.
LEMMA ChainBuilds ==
  ASSUME FixedPointInv PROVE BuildsAgree
<1> SUFFICES ASSUME N = 2 PROVE BuildsAgree
  BY DEF BuildsAgree
<1> DEFINE a == Native(last.a)  b == Native(last.b)  t == Native(last.c)  r == Native(acc)
<1>1. /\ FormatOK /\ DoublesOK /\ last.a \in FPNs /\ last.b \in FPNs /\ last.c \in FPNs
      /\ Made(last.op, last.a, last.b, last.c, acc)
  BY ChainFacts
<1>2. Did("AddSat") => IF Size(ValA + ValB) <= Limit THEN r = FP64!AddSat(a, b)
                       ELSE FP64!AddSat(a, b).mag = Limit
  <2>1. Did("AddSat") => acc = AddSat(last.a, last.b)
    BY <1>1 DEF Did, Made
  <2>2. Size(ValA + ValB) <= Limit
          => Native(AddSat(last.a, last.b)) = FP64!AddSat(Native(last.a), Native(last.b))
    BY <1>1, BuildsAgreeOnResults DEF ValA, ValB
  <2>3. Size(ValA + ValB) > Limit => FP64!AddSat(Native(last.a), Native(last.b)).mag = Limit
    BY <1>1, SumsPart DEF ValA, ValB
  <2>4. Size(ValA + ValB) <= Limit \/ Size(ValA + ValB) > Limit
    BY <1>1, ChainFacts, NativeFacts DEF Size
  <2> QED
    BY <2>1, <2>2, <2>3, <2>4
<1>3. Did("SubSat") /\ Size(ValA - ValB) <= Limit => r = FP64!SubSat(a, b)
  BY <1>1, BuildsAgreeOnResults DEF Did, Made, ValA, ValB
<1>4. Did("Mul") => r = FP64!Mul(a, b)
  BY <1>1, BuildsAgreeOnResults DEF Did, Made
<1>5. /\ Did("Negate") => r = FP64!Negate(a)
      /\ Did("Abs") => r = FP64!Abs(a)
      /\ Did("Sign") => r = FP64!Sign(a)
      /\ Did("Min") => Result = FP64!Value(FP64!MinFP(a, b))
      /\ Did("Max") => Result = FP64!Value(FP64!MaxFP(a, b))
  <2>1. /\ Did("Negate") => acc = Negate(last.a)
        /\ Did("Abs") => acc = Abs(last.a)
        /\ Did("Sign") => acc = Sign(last.a)
        /\ Did("Min") => acc = MinFP(last.a, last.b)
        /\ Did("Max") => acc = MaxFP(last.a, last.b)
    BY <1>1 DEF Did, Made
  <2>2. /\ Native(Negate(last.a)) = FP64!Negate(a)
        /\ Native(Abs(last.a)) = FP64!Abs(a)
        /\ Native(Sign(last.a)) = FP64!Sign(a)
        /\ Value(MinFP(last.a, last.b)) = FP64!Value(FP64!MinFP(a, b))
        /\ Value(MaxFP(last.a, last.b)) = FP64!Value(FP64!MaxFP(a, b))
    BY <1>1, GuardsAgree
  <2> HIDE DEF a, b
  <2> QED
    BY <2>1, <2>2 DEF Result
<1>6. /\ Did("Floor") => r = FP64!Floor(a)
      /\ Did("Ceil") => r = FP64!Ceil(a)
      /\ Did("Round") => r = FP64!Round(a)
  BY <1>1, RoundingsAgree DEF Did, Made
<1>7. Did("Lerp") /\ 0 <= ValC /\ ValC <= Unit /\ Size(ValB - ValA) <= Limit
        => r = FP64!Lerp(a, b, t)
  BY <1>1, BlendsAgree DEF Did, Made, ValA, ValB, ValC
<1>8. /\ FP64!LessThan(a, b) <=> LessThan(last.a, last.b)
      /\ FP64!LessThanOrEqual(a, b) <=> LessThanOrEqual(last.a, last.b)
      /\ FP64!GreaterThan(a, b) <=> GreaterThan(last.a, last.b)
      /\ FP64!GreaterThanOrEqual(a, b) <=> GreaterThanOrEqual(last.a, last.b)
      /\ FP64!Equal(a, b) <=> Equal(last.a, last.b)
  BY <1>1, OrdersAgree
<1>10. Did("DivNoAssert") /\ (ValB = 0 \/ ExactQuotient(ValA, ValB)) => r = FP64!DivNoAssert(a, b)
  BY <1>1, QuotientsAgree DEF Did, Made, ValA, ValB
<1>11. Did("Double") => LET d == FP64!ToDouble(a) IN r = FP64!FromDouble(d.neg, d.m)
  BY <1>1, DoublesReturn DEF Did, Made
<1> HIDE DEF a, b, t, r
<1>9. /\ Did("AddSat") => IF Size(ValA + ValB) <= Limit THEN r = FP64!AddSat(a, b)
                          ELSE FP64!AddSat(a, b).mag = Limit
      /\ Did("SubSat") /\ Size(ValA - ValB) <= Limit => r = FP64!SubSat(a, b)
      /\ Did("Mul") => r = FP64!Mul(a, b)
      /\ Did("DivNoAssert") /\ (ValB = 0 \/ ExactQuotient(ValA, ValB)) =>
           r = FP64!DivNoAssert(a, b)
      /\ Did("Double") => LET d == FP64!ToDouble(a) IN r = FP64!FromDouble(d.neg, d.m)
      /\ Did("Min") => Result = FP64!Value(FP64!MinFP(a, b))
      /\ Did("Max") => Result = FP64!Value(FP64!MaxFP(a, b))
      /\ Did("Negate") => r = FP64!Negate(a)
      /\ Did("Abs") => r = FP64!Abs(a)
      /\ Did("Sign") => r = FP64!Sign(a)
      /\ Did("Floor") => r = FP64!Floor(a)
      /\ Did("Ceil") => r = FP64!Ceil(a)
      /\ Did("Round") => r = FP64!Round(a)
      /\ Did("Lerp") /\ 0 <= ValC /\ ValC <= Unit /\ Size(ValB - ValA) <= Limit =>
           r = FP64!Lerp(a, b, t)
      /\ FP64!LessThan(a, b) <=> LessThan(last.a, last.b)
      /\ FP64!LessThanOrEqual(a, b) <=> LessThanOrEqual(last.a, last.b)
      /\ FP64!GreaterThan(a, b) <=> GreaterThan(last.a, last.b)
      /\ FP64!GreaterThanOrEqual(a, b) <=> GreaterThanOrEqual(last.a, last.b)
      /\ FP64!Equal(a, b) <=> Equal(last.a, last.b)
  BY <1>2, <1>3, <1>4, <1>5, <1>6, <1>7, <1>8, <1>10, <1>11
<1> QED
  BY <1>9 DEF BuildsAgree, a, b, t, r

\* The register and the operands are numbers, whatever operations are chained, on
\* words of any width: no carry, borrow, digit or bit of a quotient leaves its word.
THEOREM FixedPointTypeCorrect == Spec => []TypeOK
<1>1. FixedPointInv => TypeOK
  BY DEF FixedPointInv
<1> QED
  BY <1>1, ChainInvariant, PTL

\* Whatever operations are chained, what FPN<F> computes word by word (AddSat,
\* SubSat, Mul, DivNoAssert, Mod, Lerp and SmoothStep) is what integers compute. A
\* string gives back all but the last unit, and a double (FPN<64>) all it holds:
\* what has too many bits comes back with an error of three roundings at most.
THEOREM FixedPointArithmeticCorrect == Spec => []ArithmeticMatchesIntegers
<1>1. FixedPointInv => ArithmeticMatchesIntegers
  BY ChainSums, ChainQuotients, ChainBlends DEF ArithmeticMatchesIntegers
<1> QED
  BY <1>1, ChainInvariant, PTL

\* Whatever operations are chained, the comparisons and guards of FPN<F> order the
\* values, Floor, Ceil and Round bracket them, and a negative zero comes from a
\* Floor whose carry was lost only.
THEOREM FixedPointOrderCorrect == Spec => []OrderAndRounding
<1>1. FixedPointInv => OrderAndRounding
  BY ChainOrder, ChainRounding, ChainZeros DEF OrderAndRounding
<1> QED
  BY <1>1, ChainInvariant, PTL

\* What a build with USE_NATIVE_128 has in common with the other one, operation
\* after operation: sums and differences that fit, products, comparisons, guards,
\* the way through a double, and the quotients by zero or among doubles; of other
\* quotients, which one build rounds and the other cuts off, it says nothing.
THEOREM FixedPointBuildsAgree == Spec => []BuildsAgree
<1>1. FixedPointInv => BuildsAgree
  BY ChainBuilds
<1> QED
  BY <1>1, ChainInvariant, PTL
=============================================================================
