--------------------------- MODULE DisplayProofs ----------------------------
(***************************************************************************)
(* Proofs about the two snapshots between the engine and the TUI thread,   *)
(* for any layouts, any length of the graphs and any number of ticks.      *)
(*                                                                         *)
(* The argument: the buffer in front is the last publication, the one      *)
(* behind the publication before it, until the slow path copies into it.   *)
(* A frame therefore draws from a buffer that does not change, as long as  *)
(* the engine has not come round to it.                                    *)
(***************************************************************************)
EXTENDS Display, SequenceTheorems, FiniteSetTheorems, TLAPS

\* What a section may read, and what only the slow path fills.
All == Fields \cup {"graph"}
Slow == Fields \ Hot

\* Slow paths published.
Published == Len(points)

\* The version a slow path left: the n-th, or the cleared structure's.
P(n) == IF n <= 0 THEN 0 ELSE points[n]

\* The engine has something to publish.
AtWork == pc \in {"slow", "carry", "copy", "append", "publish"}

\* The slow path is writing the back buffer.
Writing == pc \in {"copy", "append", "publish"}

\* Where the TUI thread may be.
TuiPlaces == {"init", "handlers", "loop", "draw", "key", "ended", "killed"}

\* Types, with the shape of the buffers and of the TUI's record.
Typed ==
  /\ TypeOK
  /\ snapshots = [i \in 0 .. 1 |-> [f \in All |-> snapshots[i][f]]]
  /\ tui \in [pc : TuiPlaces, held : 0 .. 1, at : Nat, layout : 1 .. Len(Layouts)]
  /\ tui.pc = "draw" => tui.at \in 1 .. Len(Layout)

\* Counters and versions in step: nothing is published that no tick made,
\* and versions published do not decrease.
Counted ==
  /\ flips <= Published
  /\ Published <= now
  /\ AtWork => Published < now
  /\ pc = "killed" => tui.pc = "killed"
  /\ \A i \in 1 .. Published : points[i] <= now
  /\ \A i, j \in 1 .. Published : i <= j => points[i] <= points[j]
  /\ pc = "copy" => filled < Len(Filled)
  /\ pc \in {"append", "publish"} => filled = Len(Filled)

\* The slot of a ring a count falls on.
Slot(n) == n % GraphLen

\* The ring of g holds the last of the first k elements of s.
Holds(g, k, s) ==
  /\ g.graph_head = Slot(k)
  /\ g.graph_count = IF k < GraphLen THEN k ELSE GraphLen
  /\ \A j \in 1 .. k : j > k - GraphLen => g.ring[Slot(j - 1)] = s[j]

\* The buffer s shows the slow path v.
Uniform(s, v) ==
  /\ \A f \in Slow : s[f] = v
  /\ \A f \in Hot : s[f] >= v

\* Publications the back buffer has seen.
Before == IF Published = 0 THEN 0 ELSE Published - 1

\* The buffer in front is the last publication, whole.
FrontWhole ==
  /\ Uniform(snapshots[active_idx], P(Published))
  /\ Holds(snapshots[active_idx].graph, Published, points)

\* The buffer behind is the publication before that one, until the slow path
\* starts to copy into it; then its graphs are carried over, then appended to,
\* and the groups copied so far are of this tick.
BackWhole ==
  /\ pc \notin {"copy", "append", "publish", "killed"} =>
       /\ Uniform(snapshots[Back], P(Published - 1))
       /\ Holds(snapshots[Back].graph, Before, points)
  /\ pc \in {"copy", "append"} =>
       Holds(snapshots[Back].graph, Published, points)
  /\ pc = "publish" =>
       Holds(snapshots[Back].graph, Published + 1, Append(points, now))
  /\ Writing => \A j \in 1 .. filled : \A f \in Filled[j] : snapshots[Back][f] = now

\* The frame's buffer is in front until the next publication and behind until
\* the one after; drawn in time, the frame shows that buffer's slow path.
FrameOfBuffer ==
  tui.pc \in {"draw", "key"} =>
    /\ flips = 0 => tui.held = active_idx
    /\ flips = 1 => tui.held = Back
    /\ InTime => /\ \A v \in frame.slow : v = P(Published - flips)
                 /\ \A v \in frame.hot : v >= P(Published - flips)

\* What the last frame drawn in time showed is not newer than what the TUI
\* has before it: the publication in front, its buffer, its frame so far.
NotOlder ==
  shown.inTime => \A v \in shown.slow :
    /\ v <= P(Published)
    /\ tui.pc = "draw" =>
         /\ \A f \in All \ Hot : v <= Version(snapshots[tui.held], f)
         /\ \A w \in frame.slow : v <= w

\* The inductive invariant.
IInv == Typed /\ Counted /\ FrontWhole /\ BackWhole /\ FrameOfBuffer /\ NotOlder

-----------------------------------------------------------------------------
\* Remainders, for the slots of a ring --------------------------------------

\* Quotient and remainder are unique.
LEMMA ModUnique ==
  ASSUME NEW x \in Int, NEW q \in Int, NEW r \in 0 .. GraphLen - 1,
         x = q * GraphLen + r
  PROVE  x % GraphLen = r
<1>1. GraphLen \in Nat \ {0}
  BY DisplayAssumption
<1>2. (x % GraphLen) \in 0 .. GraphLen - 1 /\ x \div GraphLen \in Int
      /\ x = (x \div GraphLen) * GraphLen + (x % GraphLen)
  BY <1>1
<1> DEFINE d == q - (x \div GraphLen)
<1>3. d \in Int /\ d * GraphLen = (x % GraphLen) - r
  BY <1>1, <1>2
<1> HIDE DEF d
<1>4. d = 0
  <2>1. CASE d >= 1
    BY <1>1, <1>2, <1>3, <2>1
  <2>2. CASE d <= -1
    BY <1>1, <1>2, <1>3, <2>2
  <2> QED
    BY <1>3, <2>1, <2>2
<1> QED
  BY <1>1, <1>2, <1>3, <1>4

\* A remainder is a slot, and the rest a multiple of the length.
LEMMA ModDivides ==
  ASSUME NEW x \in Int
  PROVE  /\ x % GraphLen \in 0 .. GraphLen - 1
         /\ \E q \in Int : x = q * GraphLen + (x % GraphLen)
<1>1. GraphLen \in Nat \ {0}
  BY DisplayAssumption
<1>2. (x % GraphLen) \in 0 .. GraphLen - 1 /\ x \div GraphLen \in Int
      /\ x = (x \div GraphLen) * GraphLen + (x % GraphLen)
  BY <1>1
<1> QED
  BY <1>2

\* Remainders may be taken early.
LEMMA ModShift ==
  ASSUME NEW k \in Int, NEW d \in Int
  PROVE  ((k % GraphLen) + d) % GraphLen = (k + d) % GraphLen
<1>1. GraphLen \in Nat \ {0}
  BY DisplayAssumption
<1>2. PICK q \in Int : k = q * GraphLen + (k % GraphLen)
  BY ModDivides
<1> DEFINE r == k % GraphLen
           y == r + d
<1>3. r \in Int /\ y \in Int
  BY ModDivides
<1>4. PICK p \in Int : y = p * GraphLen + (y % GraphLen)
  BY <1>3, ModDivides
<1>5. y % GraphLen \in 0 .. GraphLen - 1
  BY <1>3, ModDivides
<1> DEFINE z == k + d
           c == q + p
           t == y % GraphLen
<1>6. z = c * GraphLen + t
  <2>1. k = q * GraphLen + r /\ y = p * GraphLen + t /\ t \in Int
    BY <1>2, <1>4, <1>5
  <2> HIDE DEF r, t
  <2>2. z = (q * GraphLen) + y
    BY <1>1, <1>3, <2>1
  <2>3. (q + p) * GraphLen = (q * GraphLen) + (p * GraphLen)
    BY <1>1
  <2> HIDE DEF y, z
  <2> QED
    BY <1>1, <1>3, <2>1, <2>2, <2>3
<1>7. z \in Int /\ c \in Int /\ t \in 0 .. GraphLen - 1
  BY <1>5
<1> HIDE DEF z, c, t
<1>8. z % GraphLen = t
  BY <1>6, <1>7, ModUnique
<1> QED
  BY <1>8 DEF z, t, y, r

\* A whole turn of the ring changes nothing.
LEMMA ModWhole ==
  ASSUME NEW k \in Int
  PROVE  (k + GraphLen) % GraphLen = k % GraphLen
<1>1. GraphLen \in Nat \ {0}
  BY DisplayAssumption
<1>2. PICK q \in Int : k = q * GraphLen + (k % GraphLen)
  BY ModDivides
<1> DEFINE r == k % GraphLen  z == k + GraphLen
<1>3. r \in 0 .. GraphLen - 1
  BY ModDivides
<1>4. z = (q + 1) * GraphLen + r /\ z \in Int /\ q + 1 \in Int
  <2> HIDE DEF r
  <2>1. k = q * GraphLen + r
    BY <1>2 DEF r
  <2> QED
    BY <1>1, <1>3, <2>1
<1> HIDE DEF r, z
<1>5. z % GraphLen = r
  BY <1>3, <1>4, ModUnique
<1> QED
  BY <1>5 DEF r, z

\* Two counts less than a turn apart fall on different slots.
LEMMA ModApart ==
  ASSUME NEW a \in Int, NEW b \in Int, a < b, b - a < GraphLen
  PROVE  a % GraphLen # b % GraphLen
<1>1. GraphLen \in Nat \ {0}
  BY DisplayAssumption
<1>2. PICK q \in Int : a = q * GraphLen + (a % GraphLen)
  BY ModDivides
<1>3. PICK p \in Int : b = p * GraphLen + (b % GraphLen)
  BY ModDivides
<1> DEFINE d == p - q
<1> SUFFICES ASSUME a % GraphLen = b % GraphLen PROVE FALSE
  OBVIOUS
<1>4. d \in Int /\ d * GraphLen = b - a
  <2> DEFINE r == b % GraphLen
  <2>1. r \in Int
    BY ModDivides
  <2>2. a = q * GraphLen + r /\ b = p * GraphLen + r
    BY <1>2, <1>3
  <2> HIDE DEF r
  <2> QED
    BY <1>1, <2>1, <2>2
<1> HIDE DEF d
<1>5. CASE d >= 1
  <2>1. d * GraphLen >= GraphLen
    BY <1>1, <1>4, <1>5
  <2> QED
    BY <1>1, <1>4, <2>1
<1>6. CASE d <= 0
  <2>1. d * GraphLen <= 0
    BY <1>1, <1>4, <1>6
  <2> QED
    BY <1>1, <1>4, <2>1
<1> QED
  BY <1>4, <1>5, <1>6
\* The same facts about slots.
LEMMA SlotFacts ==
  ASSUME NEW k \in Int
  PROVE  /\ Slot(k) \in 0 .. GraphLen - 1
         /\ \A d, e \in Int : e = Slot(k) + d => Slot(e) = Slot(k + d)
         /\ \A e \in Int : e = k + GraphLen => Slot(e) = Slot(k)
         /\ \A e \in Int : k < e /\ e - k < GraphLen => Slot(k) # Slot(e)
<1>1. Slot(k) \in 0 .. GraphLen - 1
  BY ModDivides DEF Slot
<1>2. ASSUME NEW d \in Int, NEW e \in Int, e = Slot(k) + d
      PROVE  Slot(e) = Slot(k + d)
  BY <1>2, ModShift DEF Slot
<1>3. ASSUME NEW e \in Int, e = k + GraphLen PROVE Slot(e) = Slot(k)
  BY <1>3, ModWhole DEF Slot
<1>4. ASSUME NEW e \in Int, k < e, e - k < GraphLen PROVE Slot(k) # Slot(e)
  BY <1>4, ModApart DEF Slot
<1> QED
  BY <1>1, <1>2, <1>3, <1>4

-----------------------------------------------------------------------------
\* What a ring holds and a chart shows --------------------------------------

\* The slot the (back + 1)-th youngest point of a graph is read from.
LEMMA RingSlot ==
  ASSUME NEW g, NEW k \in Nat, NEW s, Holds(g, k, s)
  PROVE  \A back \in 0 .. g.graph_count - 1, x \in Int :
           x = g.graph_head - back - 1 + GraphLen
             => g.ring[Slot(x)] = s[k - back]
<1> TAKE back \in 0 .. g.graph_count - 1, x \in Int
<1> HAVE x = g.graph_head - back - 1 + GraphLen
<1>1. GraphLen \in Nat \ {0}
  BY DisplayAssumption
<1>2. /\ g.graph_head = Slot(k) /\ k - back \in 1 .. k
      /\ k - back > k - GraphLen
  BY <1>1 DEF Holds
<1> DEFINE j == k - back
           d == GraphLen - back - 1
<1>3. g.ring[Slot(j - 1)] = s[j]
  BY <1>2 DEF Holds
<1>4. Slot(x) = Slot(k + d)
  <2>1. d \in Int /\ k \in Int
    BY <1>1
  <2>2. x = Slot(k) + d
    BY <1>1, <1>2, <2>1, SlotFacts
  <2> HIDE DEF d
  <2> QED
    BY <2>1, <2>2, SlotFacts
<1>5. Slot(k + d) = Slot(j - 1)
  <2>1. k + d = (j - 1) + GraphLen /\ j - 1 \in Int /\ k + d \in Int
    BY <1>1
  <2> HIDE DEF d, j
  <2> QED
    BY <2>1, SlotFacts
<1> QED
  BY <1>3, <1>4, <1>5

\* Head and count of a ring that holds k elements.
LEMMA HeldCount ==
  ASSUME NEW g, NEW k \in Nat, NEW s, Holds(g, k, s)
  PROVE  /\ g.graph_count \in 0 .. GraphLen /\ g.graph_count <= k
         /\ g.graph_head \in 0 .. GraphLen - 1
         /\ (g.graph_count = 0) = (k = 0)
<1>1. Slot(k) \in 0 .. GraphLen - 1 /\ GraphLen \in Nat \ {0}
  <2>1. k \in Int
    OBVIOUS
  <2> QED
    BY <2>1, SlotFacts, DisplayAssumption
<1> QED
  BY <1>1 DEF Holds

\* The version of a graph is the last point it was given.
LEMMA LatestPoint ==
  ASSUME NEW snap, NEW k \in Nat, NEW s, Holds(snap.graph, k, s)
  PROVE  Version(snap, "graph") = IF k = 0 THEN 0 ELSE s[k]
<1> DEFINE g == snap.graph
           n == g.graph_count
<1>1. n \in 0 .. GraphLen /\ n <= k /\ (n = 0) = (k = 0)
      /\ GraphLen \in Nat \ {0} /\ g.graph_head \in Int
  BY HeldCount, DisplayAssumption
<1>2. CASE n = 0
  BY <1>1, <1>2 DEF Version
<1>3. CASE n > 0
  <2> DEFINE x == g.graph_head - n + GraphLen + n - 1
  <2>1. n \in 1 .. n /\ Sparkline(g)[n] = g.ring[Slot(x)]
    BY <1>1, <1>3 DEF Sparkline, Slot
  <2>2. x \in Int /\ x = g.graph_head - 0 - 1 + GraphLen /\ 0 \in 0 .. n - 1
    BY <1>1, <1>3
  <2>3. g.ring[Slot(x)] = s[k - 0]
    <3> HIDE DEF x
    <3> QED
      BY <2>2, RingSlot
  <2> QED
    BY <1>1, <1>3, <2>1, <2>3 DEF Version
<1> QED
  BY <1>1, <1>2, <1>3

\* A chart shows the end of the sequence its ring holds.
LEMMA ChartEnd ==
  ASSUME NEW n \in Nat, NEW s, NEW g, Holds(g, n, s)
  PROVE  LET k == IF n < GraphLen THEN n ELSE GraphLen
         IN  Sparkline(g) = [i \in 1 .. k |-> s[n - k + i]]
<1> DEFINE k == IF n < GraphLen THEN n ELSE GraphLen
<1>1. /\ GraphLen \in Nat \ {0} /\ g.graph_head \in Int
      /\ k \in 0 .. n /\ g.graph_count = k
  <2>1. g.graph_head \in 0 .. GraphLen - 1
    BY HeldCount
  <2>2. g.graph_count = k
    BY DEF Holds
  <2> QED
    BY <2>1, <2>2, DisplayAssumption
<1> HIDE DEF k
<1>2. \A back \in 0 .. g.graph_count - 1, x \in Int :
        x = g.graph_head - back - 1 + GraphLen => g.ring[Slot(x)] = s[n - back]
  BY RingSlot
<1>3. \A i \in 1 .. k :
        g.ring[Slot(g.graph_head - k + GraphLen + i - 1)] = s[n - k + i]
  <2> TAKE i \in 1 .. k
  <2> DEFINE x    == g.graph_head - k + GraphLen + i - 1
             back == k - i
  <2>1. /\ x \in Int /\ x = g.graph_head - back - 1 + GraphLen
        /\ back \in 0 .. g.graph_count - 1 /\ n - back = n - k + i
    BY <1>1
  <2> HIDE DEF x, back
  <2>2. g.ring[Slot(x)] = s[n - back]
    BY <1>2, <2>1
  <2> QED
    BY <2>1, <2>2 DEF x
<1>4. Sparkline(g)
        = [i \in 1 .. k |-> g.ring[Slot(g.graph_head - k + GraphLen + i - 1)]]
  BY <1>1 DEF Sparkline, Slot
<1>5. Sparkline(g) = [i \in 1 .. k |-> s[n - k + i]]
  BY <1>3, <1>4
<1> QED
  BY <1>5 DEF k

\* The end of a sequence, as a function.
LEMMA EndOfSequence ==
  ASSUME NEW T, NEW s \in Seq(T), NEW k \in 0 .. Len(s)
  PROVE  SubSeq(s, Len(s) - k + 1, Len(s))
           = [i \in 1 .. k |-> s[Len(s) - k + i]]
<1> DEFINE n == Len(s)
           m == n - k + 1
           u == SubSeq(s, m, n)
<1>1. n \in Nat /\ m \in Int /\ \A i \in m .. n : s[i] \in T
  OBVIOUS
<1>2. /\ u \in Seq(T) /\ Len(u) = IF m <= n THEN n - m + 1 ELSE 0
      /\ \A i \in 1 .. n - m + 1 : u[i] = s[m + i - 1]
  <2> HIDE DEF m
  <2> QED
    BY <1>1, SubSeqProperties
<1> HIDE DEF u
<1>3. Len(u) = k /\ \A i \in 1 .. k : u[i] = s[n - k + i]
  BY <1>1, <1>2
<1>4. u = [i \in 1 .. k |-> u[i]]
  BY <1>2, <1>3
<1>5. u = [i \in 1 .. k |-> s[n - k + i]]
  BY <1>3, <1>4
<1> QED
  BY <1>5 DEF u

\* The same, as the property of the charts puts it.
LEMMA ChartShows ==
  ASSUME NEW T, NEW s \in Seq(T), NEW g, Holds(g, Len(s), s)
  PROVE  LET n == Len(s)
             k == IF n < GraphLen THEN n ELSE GraphLen
         IN  Sparkline(g) = SubSeq(s, n - k + 1, n)
<1> DEFINE n == Len(s)
           k == IF n < GraphLen THEN n ELSE GraphLen
<1>1. n \in Nat /\ k \in 0 .. n
  BY DisplayAssumption
<1>2. Sparkline(g) = [i \in 1 .. k |-> s[n - k + i]]
  BY <1>1, ChartEnd, Zenon
<1>3. SubSeq(s, n - k + 1, n) = [i \in 1 .. k |-> s[n - k + i]]
  <2> HIDE DEF k
  <2> QED
    BY <1>1, EndOfSequence
<1>4. Sparkline(g) = SubSeq(s, n - k + 1, n)
  BY <1>2, <1>3, Zenon
<1> QED
  BY <1>4, Zenon

\* A point appended to a ring that holds the first k holds k + 1.
LEMMA PointAppended ==
  ASSUME NEW g \in Graph, NEW k \in Nat, NEW s, NEW t, NEW v \in Versions,
         Holds(g, k, s), \A j \in 1 .. k : t[j] = s[j], t[k + 1] = v
  PROVE  Holds(AppendPoint(g, v), k + 1, t) /\ AppendPoint(g, v) \in Graph
<1> DEFINE h == AppendPoint(g, v)
<1>1. /\ GraphLen \in Nat \ {0} /\ g.graph_head = Slot(k)
      /\ g.graph_head \in 0 .. GraphLen - 1
      /\ g.graph_count = IF k < GraphLen THEN k ELSE GraphLen
      /\ g.ring \in [0 .. GraphLen - 1 -> Versions]
  BY DisplayAssumption DEF Holds, Graph
<1>2. /\ h.ring = [g.ring EXCEPT ![g.graph_head] = v]
      /\ h.graph_head = Slot(g.graph_head + 1)
      /\ h.graph_count = IF g.graph_count < GraphLen THEN g.graph_count + 1
                         ELSE g.graph_count
  BY DEF AppendPoint, Slot
<1>3. h.graph_head = Slot(k + 1) /\ h.graph_head \in 0 .. GraphLen - 1
  <2>1. k \in Int /\ g.graph_head + 1 \in Int /\ k + 1 \in Int
    BY <1>1
  <2> QED
    BY <1>1, <1>2, <2>1, SlotFacts
<1>4. /\ h.graph_count = IF k + 1 < GraphLen THEN k + 1 ELSE GraphLen
      /\ h.graph_count \in 0 .. GraphLen
  BY <1>1, <1>2
<1>5. \A j \in 1 .. k + 1 :
        j > (k + 1) - GraphLen => h.ring[Slot(j - 1)] = t[j]
  <2> TAKE j \in 1 .. k + 1
  <2> HAVE j > (k + 1) - GraphLen
  <2>1. CASE j = k + 1
    <3>1. j - 1 = k
      BY <2>1
    <3> QED
      BY <1>1, <1>2, <2>1, <3>1
  <2>2. CASE j <= k
    <3>1. j \in 1 .. k /\ j > k - GraphLen
      BY <1>1, <2>2
    <3>2. g.ring[Slot(j - 1)] = s[j] /\ t[j] = s[j]
      BY <3>1 DEF Holds
    <3>3. j - 1 \in Int /\ k \in Int /\ j - 1 < k /\ k - (j - 1) < GraphLen
      BY <1>1, <2>2
    <3>4. Slot(j - 1) # g.graph_head /\ Slot(j - 1) \in 0 .. GraphLen - 1
      BY <1>1, <3>3, SlotFacts
    <3> QED
      BY <1>1, <1>2, <3>2, <3>4
  <2> QED
    BY <2>1, <2>2
<1>6. h \in Graph
  <2>1. h.ring \in [0 .. GraphLen - 1 -> Versions]
    BY <1>1, <1>2
  <2> QED
    BY <1>3, <1>4, <2>1 DEF AppendPoint, Graph
<1> HIDE DEF h
<1>7. Holds(h, k + 1, t)
  BY <1>3, <1>4, <1>5 DEF Holds
<1> QED
  BY <1>6, <1>7 DEF h

-----------------------------------------------------------------------------
\* Fields, layouts, versions; the initial states ----------------------------

\* The fields as one set.
FieldNames == {"gate", "positions", "money", "stats",
               "price", "active_count", "roll_count"}

\* The fields, by name.
LEMMA FieldFacts ==
  /\ Fields = FieldNames /\ "graph" \notin Fields
  /\ Hot = {"price", "active_count", "roll_count"}
  /\ Slow = {"gate", "positions", "money", "stats"}
  /\ All \ Hot = Slow \cup {"graph"}
BY DEF Fields, Hot, Slow, All, FieldNames

\* The four groups cover the fields.
LEMMA FilledFacts ==
  /\ Len(Filled) = 4
  /\ \A j \in 1 .. 4 : Filled[j] \subseteq Fields
  /\ \A f \in Fields : \E j \in 1 .. 4 : f \in Filled[j]
<1>1. /\ Filled[1] = {"price", "roll_count", "gate"}
      /\ Filled[2] = {"active_count", "positions"}
      /\ Filled[3] = {"money"} /\ Filled[4] = {"stats"}
      /\ Len(Filled) = 4
  BY DEF Filled
<1> QED
  BY <1>1, FieldFacts DEF FieldNames

\* A layout has a section, and sections read fields and charts.
LEMMA LayoutFacts ==
  ASSUME Typed
  PROVE  /\ Len(Layout) \in Nat \ {0}
         /\ \A k \in 1 .. Len(Layout) : Layout[k] \subseteq All
<1>1. CASE build = "legacy"
  <2>1. /\ Len(LayoutLegacy) = 9
        /\ \A k \in 1 .. 9 : LayoutLegacy[k] \subseteq All
    BY FieldFacts DEF LayoutLegacy, All, FieldNames, SectionPositions, SectionPnL, SectionStats
  <2>2. Layout = LayoutLegacy
    BY <1>1 DEF Layout
  <2>3. Len(Layout) = 9 /\ \A k \in 1 .. 9 : Layout[k] \subseteq All
    BY <2>1, <2>2, Zenon
  <2> QED
    BY <2>3
<1>2. CASE build # "legacy"
  <2>1. tui.layout \in DOMAIN Layouts /\ Layouts \in Seq(Seq(SUBSET All))
    BY DisplayAssumption DEF Typed, TypeOK, All
  <2>2. Layout = Layouts[tui.layout]
    BY <1>2 DEF Layout
  <2>3. Layout \in Seq(SUBSET All) /\ Layout # <<>>
    BY <2>1, <2>2, DisplayAssumption
  <2> QED
    BY <2>3
<1> QED
  BY <1>1, <1>2

\* A version depends on the field alone.
LEMMA VersionFacts ==
  ASSUME NEW s
  PROVE  /\ \A f \in Fields : Version(s, f) = s[f]
         /\ \A t : (\A f \in All \ Hot : t[f] = s[f])
                     => \A f \in All \ Hot : Version(t, f) = Version(s, f)
BY FieldFacts DEF Version

\* Versions published do not decrease.
LEMMA PublishedInOrder ==
  ASSUME Typed, Counted
  PROVE  /\ \A n \in Int : n <= Published => P(n) \in Versions /\ P(n) <= now
         /\ \A m, n \in Int : m <= n /\ n <= Published => P(m) <= P(n)
<1>1. points \in Seq(Versions) /\ now \in Nat /\ Published \in Nat
      /\ \A i \in 1 .. Published : points[i] \in 0 .. MaxTicks
  BY DisplayAssumption DEF Typed, TypeOK, Versions, Published
<1>2. MaxTicks \in Nat
  BY DisplayAssumption
<1>3. ASSUME NEW n \in Int, n <= Published
      PROVE  P(n) \in Versions /\ P(n) <= now
  BY <1>1, <1>2, <1>3 DEF Counted, P, Versions
<1>4. ASSUME NEW m \in Int, NEW n \in Int, m <= n, n <= Published
      PROVE  P(m) <= P(n)
  <2>1. CASE m <= 0
    <3>1. P(m) = 0
      BY <2>1 DEF P
    <3> QED
      BY <1>3, <1>4, <3>1, <1>2 DEF Versions
  <2>2. CASE m > 0
    BY <1>1, <1>4, <2>2 DEF Counted, P
  <2> QED
    BY <2>1, <2>2
<1> QED
  BY <1>3, <1>4

\* Two cleared buffers, nothing published.
LEMMA InitHolds == Init => IInv
<1> SUFFICES ASSUME Init PROVE IInv
  OBVIOUS
<1>1. /\ points = <<>> /\ Published = 0 /\ flips = 0 /\ active_idx = 0
      /\ now = 0 /\ filled = 0 /\ pc = "poll" /\ tui.pc = "init"
      /\ shown.slow = {} /\ MaxTicks \in Nat /\ GraphLen \in Nat \ {0}
  BY DisplayAssumption DEF Init, Published
<1>2. \A i \in 0 .. 1 : /\ \A f \in Fields : snapshots[i][f] = 0
                        /\ snapshots[i].graph = EmptyGraph
  BY FieldFacts DEF Init, All
<1>3. EmptyGraph \in Graph
  BY <1>1 DEF EmptyGraph, Graph, Versions
<1>4. Typed
  <2>1. 1 \in 1 .. Len(Layouts)
    BY DisplayAssumption
  <2>5. \A i \in 0 .. 1 : /\ \A f \in Fields : snapshots[i][f] \in Versions
                          /\ snapshots[i].graph \in Graph
    BY <1>1, <1>2, <1>3 DEF Versions
  <2>6. now \in Versions /\ frame \in Frame /\ filled \in 0 .. Len(Filled)
        /\ shown \in [slow : SUBSET Versions, inTime : BOOLEAN]
        /\ points \in Seq(Versions) /\ flips \in 0 .. MaxTicks
    BY <1>1, FilledFacts DEF Init, Versions, NoFrame, Frame
  <2>7. tui.held \in 0 .. 1 /\ tui.layout \in 1 .. Len(Layouts)
    BY <2>1 DEF Init
  <2>2. TypeOK
    BY <1>1, <2>5, <2>6, <2>7 DEF Init, TypeOK
  <2>3. snapshots = [i \in 0 .. 1 |-> [f \in All |-> snapshots[i][f]]]
    BY DEF Init, All
  <2>4. tui \in [pc : TuiPlaces, held : 0 .. 1, at : Nat, layout : 1 .. Len(Layouts)]
    BY <2>1 DEF Init, TuiPlaces
  <2> QED
    BY <1>1, <2>2, <2>3, <2>4 DEF Typed
<1>5. Counted
  BY <1>1 DEF Counted, AtWork
<1>6. Holds(EmptyGraph, 0, points)
  BY <1>1 DEF Holds, EmptyGraph, Slot
<1>7. P(0) = 0 /\ P(-1) = 0
  BY DEF P
<1>8. \A i \in 0 .. 1 : Uniform(snapshots[i], 0)
  BY <1>2, FieldFacts DEF Uniform, FieldNames
<1>9. FrontWhole /\ BackWhole
  BY <1>1, <1>2, <1>6, <1>7, <1>8 DEF FrontWhole, BackWhole, Before, Back, Writing
<1>10. FrameOfBuffer /\ NotOlder
  BY <1>1 DEF FrameOfBuffer, NotOlder
<1> QED
  BY <1>4, <1>5, <1>9, <1>10 DEF IInv

-----------------------------------------------------------------------------
\* Steps that move no data --------------------------------------------------

\* What carries data from the engine to the screen.
DataVars == <<snapshots, active_idx, points, flips, frame, shown, now, filled>>

\* Where no data is written the invariant is kept, if the engine stays out of
\* its slow path's copy and the TUI does not start or resume a frame.
LEMMA QuietHolds ==
  ASSUME IInv, Typed', UNCHANGED DataVars,
         \/ pc' = pc /\ (pc = "killed" => tui' = tui)
         \/ /\ pc \notin {"carry", "copy", "append", "publish", "killed"}
            /\ pc' \notin {"copy", "append", "publish", "killed"}
            /\ AtWork' => AtWork
         \/ pc' = "killed" /\ tui'.pc = "killed",
         tui'.pc \in {"draw", "key"} => tui'.pc = tui.pc /\ tui'.held = tui.held
  PROVE  IInv'
<1>1. UNCHANGED <<snapshots, active_idx, points, flips, frame, shown, now, filled>>
  BY DEF DataVars
<1>2. \A n : P(n)' = P(n)
  BY <1>1 DEF P
<1>3. Published' = Published /\ Back' = Back /\ Before' = Before
  BY <1>1 DEF Published, Back, Before
<1>4. Counted'
  BY <1>1, <1>3 DEF IInv, Counted, AtWork
<1>5. FrontWhole'
  BY <1>1, <1>2, <1>3 DEF IInv, FrontWhole
<1>6. BackWhole'
  BY <1>1, <1>2, <1>3 DEF IInv, BackWhole, Writing
<1>7. FrameOfBuffer'
  <2>1. tui'.pc \in {"draw", "key"} => (InTime' => InTime)
    BY <1>1 DEF InTime, Copying
  <2> QED
    BY <1>1, <1>2, <1>3, <2>1 DEF IInv, FrameOfBuffer
<1>8. NotOlder'
  <2>1. \A i, f : Version(snapshots[i], f)' = Version(snapshots[i], f)
    BY <1>1 DEF Version, Sparkline
  <2> QED
    BY <1>1, <1>2, <1>3, <2>1 DEF IInv, NotOlder
<1> QED
  BY <1>4, <1>5, <1>6, <1>7, <1>8 DEF IInv

\* The types of what the quiet steps change.
LEMMA TypedAfter ==
  ASSUME Typed, UNCHANGED DataVars, UNCHANGED build,
         pc' \in {"poll", "quit", "tick", "slow", "carry", "copy", "append",
                  "publish", "leave", "join", "returned", "killed"} \cup Requests,
         running' \in BOOLEAN, quit' \in BOOLEAN, handlers' \in BOOLEAN,
         serving' \in Requests \cup {"none"},
         requests' \subseteq Requests, owed' \subseteq Requests,
         terminal' \in {"cooked", "raw"},
         tui' \in [pc : TuiPlaces, held : 0 .. 1, at : Nat, layout : 1 .. Len(Layouts)],
         tui'.pc = "draw" => tui' = tui
  PROVE  Typed'
<1>1. UNCHANGED <<snapshots, active_idx, points, flips, frame, shown, now, filled>>
  BY DEF DataVars
<1>2. TypeOK'
  BY <1>1 DEF Typed, TypeOK, TuiPlaces
<1>3. tui'.pc = "draw" => tui'.at \in 1 .. Len(Layout')
  BY <1>1 DEF Typed, Layout
<1> QED
  BY <1>1, <1>2, <1>3 DEF Typed

\* The steps of both threads that touch no snapshot.
LEMMA QuietSteps ==
  ASSUME IInv,
         \/ Poll \/ CheckQuit \/ NoTick \/ ControllerTick \/ Leave \/ Join
         \/ \E r \in Requests : TakeRequest(r) \/ ServeRequest(r)
         \/ StartTui \/ ReadKey \/ SwitchLayout \/ EndTui \/ Interrupt
         \/ UNCHANGED vars
  PROVE  IInv'
<1>0. Typed /\ TypeOK
        /\ tui \in [pc : TuiPlaces, held : 0 .. 1, at : Nat, layout : 1 .. Len(Layouts)]
  BY DEF IInv, Typed
<1>1. CASE Poll \/ NoTick \/ Leave \/ Join \/ ControllerTick
  <2>1. /\ UNCHANGED DataVars /\ UNCHANGED <<build, tui>>
        /\ pc \notin {"carry", "copy", "append", "publish", "killed"}
        /\ pc' \notin {"copy", "append", "publish", "killed"}
        /\ AtWork' => AtWork
    BY <1>1 DEF Poll, NoTick, Leave, Join, ControllerTick, DataVars, AtWork,
                sharedVars, screenVars
  <2>2. Typed'
    BY <1>0, <1>1, <2>1, TypedAfter
       DEF Poll, NoTick, Leave, Join, ControllerTick, sharedVars, screenVars, TypeOK
  <2> QED
    BY <2>1, <2>2, QuietHolds
<1>2. CASE CheckQuit \/ \E r \in Requests : TakeRequest(r) \/ ServeRequest(r)
  <2>1. /\ UNCHANGED DataVars /\ UNCHANGED <<build, tui>>
        /\ pc \notin {"carry", "copy", "append", "publish", "killed"}
        /\ pc' \notin {"copy", "append", "publish", "killed"}
        /\ AtWork' => AtWork
    BY <1>2 DEF CheckQuit, TakeRequest, ServeRequest, DataVars, AtWork, Requests,
                AfterRequest, sharedVars, screenVars
  <2>2. Typed'
    <3>1. CASE CheckQuit
      <4>1. running' \in BOOLEAN
        BY <3>1 DEF CheckQuit
      <4>2. /\ pc' = "pause"
            /\ UNCHANGED <<serving, quit, requests, owed, handlers, terminal>>
        BY <3>1 DEF CheckQuit, sharedVars, screenVars
      <4> QED
        BY <1>0, <2>1, <4>1, <4>2, TypedAfter DEF TypeOK, Requests
    <3>2. CASE \E r \in Requests : TakeRequest(r) \/ ServeRequest(r)
      <4>1. PICK r \in Requests : TakeRequest(r) \/ ServeRequest(r)
        BY <3>2
      <4>2. AfterRequest[r] \in {"cycle", "reload", "tick"}
        BY DEF Requests, AfterRequest
      <4>3. /\ pc' = pc \/ pc' = AfterRequest[r]
            /\ serving' \in {serving, r, "none"}
            /\ requests' \subseteq requests /\ owed' \subseteq owed
            /\ UNCHANGED <<running, quit, handlers, terminal>>
        BY <4>1 DEF TakeRequest, ServeRequest, sharedVars, screenVars
      <4> QED
        BY <1>0, <2>1, <4>2, <4>3, TypedAfter DEF TypeOK, Requests
    <3> QED
      BY <1>2, <3>1, <3>2
  <2> QED
    BY <2>1, <2>2, QuietHolds
<1>3. CASE StartTui \/ ReadKey \/ SwitchLayout \/ EndTui
  <2>1. UNCHANGED DataVars /\ UNCHANGED <<build, pc>>
    BY <1>3 DEF StartTui, ReadKey, SwitchLayout, EndTui, DataVars, engineVars,
                sharedVars, screenVars
  <2>4. pc # "killed"
    BY <1>3 DEF StartTui, ReadKey, SwitchLayout, EndTui, IInv, Counted
  <2>2. /\ tui' \in [pc : TuiPlaces, held : 0 .. 1, at : Nat, layout : 1 .. Len(Layouts)]
        /\ tui'.pc \notin {"draw", "key"}
    <3>1. CASE SwitchLayout
      <4>1. Len(Layouts) \in Nat \ {0}
        BY DisplayAssumption
      <4>2. (tui.layout % Len(Layouts)) + 1 \in 1 .. Len(Layouts)
        BY <1>0, <4>1
      <4> QED
        BY <1>0, <3>1, <4>2 DEF SwitchLayout, TuiPlaces
    <3>2. CASE StartTui \/ ReadKey \/ EndTui
      BY <1>0, <3>2 DEF StartTui, ReadKey, EndTui, TuiPlaces
    <3> QED
      BY <1>3, <3>1, <3>2
  <2>3. Typed'
    BY <1>0, <1>3, <2>1, <2>2, TypedAfter, DisplayAssumption
       DEF StartTui, ReadKey, SwitchLayout, EndTui, engineVars, sharedVars, screenVars, TypeOK
  <2> QED
    BY <2>1, <2>2, <2>3, <2>4, QuietHolds
<1>4. CASE Interrupt
  <2>1. /\ UNCHANGED DataVars /\ UNCHANGED build /\ pc' = "killed"
        /\ tui' = [tui EXCEPT !.pc = "killed"]
    BY <1>4 DEF Interrupt, DataVars, sharedVars
  <2>2. tui'.pc = "killed" /\ tui' \in [pc : TuiPlaces, held : 0 .. 1, at : Nat, layout : 1 .. Len(Layouts)]
    BY <1>0, <2>1 DEF TuiPlaces
  <2>3. Typed'
    BY <1>0, <1>4, <2>1, <2>2, TypedAfter DEF Interrupt, sharedVars, TypeOK
  <2> QED
    BY <2>1, <2>2, <2>3, QuietHolds
<1>5. CASE UNCHANGED vars
  <2>1. UNCHANGED DataVars /\ UNCHANGED <<pc, tui>>
    BY <1>5 DEF vars, engineVars, sharedVars, screenVars, DataVars
  <2>2. Typed'
    BY <1>0, <1>5, <2>1 DEF vars, engineVars, sharedVars, screenVars, Typed, TypeOK, Layout
  <2> QED
    BY <2>1, <2>2, QuietHolds
<1> QED
  BY <1>1, <1>2, <1>3, <1>4, <1>5

-----------------------------------------------------------------------------
\* Steps of the engine ------------------------------------------------------

\* The two buffers and their fields.
LEMMA SnapshotForm ==
  ASSUME Typed
  PROVE  /\ DOMAIN snapshots = 0 .. 1
         /\ \A i \in 0 .. 1 : DOMAIN snapshots[i] = All
         /\ active_idx \in 0 .. 1 /\ Back \in 0 .. 1 /\ Back # active_idx
         /\ active_idx = 1 - Back
BY DEF Typed, TypeOK, Back

\* The types after a step of the engine on the snapshots.
LEMMA TypedWritten ==
  ASSUME Typed, UNCHANGED <<running, serving, requests, quit, screenVars, owed>>,
         pc' \in {"poll", "slow", "copy", "append", "publish"},
         now' \in Versions, filled' \in 0 .. Len(Filled), active_idx' \in 0 .. 1,
         points' \in Seq(Versions), flips' \in 0 .. MaxTicks,
         DOMAIN snapshots' = 0 .. 1, \A i \in 0 .. 1 : DOMAIN snapshots'[i] = All,
         snapshots' = [i \in 0 .. 1 |-> [f \in All |-> snapshots'[i][f]]],
         \A i \in 0 .. 1 : /\ \A f \in Fields : snapshots'[i][f] \in Versions
                           /\ snapshots'[i].graph \in Graph
  PROVE  Typed'
<1>1. TypeOK'
  BY DEF Typed, TypeOK, screenVars
<1>2. tui'.pc = "draw" => tui'.at \in 1 .. Len(Layout')
  BY DEF Typed, Layout, screenVars
<1> QED
  BY <1>1, <1>2 DEF Typed, screenVars

\* The types of the counters.
LEMMA NumberFacts ==
  ASSUME Typed
  PROVE  /\ TypeOK /\ now \in Nat /\ MaxTicks \in Nat /\ Published \in Nat
         /\ now \in Versions /\ flips \in Nat
         /\ points \in Seq(Versions) /\ DOMAIN points = 1 .. Published
         /\ \A i \in 1 .. Published : points[i] \in Nat
<1>1. TypeOK /\ MaxTicks \in Nat
  BY DisplayAssumption DEF Typed
<1>2. points \in Seq(Versions) /\ now \in Versions /\ flips \in 0 .. MaxTicks
  BY <1>1 DEF TypeOK
<1>3. Versions \subseteq Nat
  BY <1>1 DEF Versions
<1>4. \A i \in 1 .. Len(points) : points[i] \in Versions
  BY <1>2
<1>5. \A i \in 1 .. Published : points[i] \in Nat
  BY <1>3, <1>4 DEF Published
<1>6. now \in Nat /\ flips \in Nat /\ Published \in Nat
      /\ DOMAIN points = 1 .. Published
  BY <1>1, <1>2, <1>3 DEF Published
<1> QED
  BY <1>1, <1>2, <1>5, <1>6

\* The stores of a tick into the buffer in front.
LEMMA TickStoresHolds ==
  ASSUME IInv, TickStores
  PROVE  IInv'
<1>1. /\ Typed /\ Counted /\ active_idx \in 0 .. 1 /\ Back \in 0 .. 1
      /\ Back # active_idx /\ now \in Nat /\ MaxTicks \in Nat /\ Published \in Nat
  <2>1. Typed /\ Counted
    BY DEF IInv
  <2> QED
    BY <2>1, SnapshotForm, NumberFacts
<1>2. /\ pc = "tick" /\ pc' = "slow" /\ now' = now + 1 /\ now' \in Versions
      /\ UNCHANGED <<running, filled, serving, active_idx, requests, quit,
                     screenVars, points, flips, owed>>
      /\ Published' = Published /\ Back' = Back /\ Before' = Before
  BY <1>1 DEF TickStores, Versions, Published, Back, Before
<1> DEFINE new == [snapshots[active_idx] EXCEPT
                     !.price = now + 1, !.active_count = now, !.roll_count = now]
<1>3. snapshots' = [snapshots EXCEPT ![active_idx] = new]
  BY DEF TickStores
<1>4. /\ DOMAIN new = All
      /\ new["price"] = now + 1 /\ new["active_count"] = now
      /\ new["roll_count"] = now
      /\ \A f \in All \ Hot : new[f] = snapshots[active_idx][f]
  BY <1>1, SnapshotForm, FieldFacts DEF All, FieldNames
<1>5. /\ \A f \in All \ Hot : new[f] = snapshots[active_idx][f]
      /\ \A f \in Hot : new[f] \in Versions /\ new[f] >= now
  <2>1. now \in Versions /\ now + 1 \in Versions
    BY <1>1, <1>2 DEF Versions
  <2> QED
    BY <1>1, <1>4, <2>1, FieldFacts
<1> HIDE DEF new
<1>6. /\ snapshots'[active_idx] = new /\ snapshots'[Back] = snapshots[Back]
      /\ DOMAIN snapshots' = 0 .. 1
  BY <1>1, <1>3, SnapshotForm
<1>7. \A f \in All \ Hot, i \in 0 .. 1 : snapshots'[i][f] = snapshots[i][f]
  BY <1>1, <1>5, <1>6, SnapshotForm
<1>8. Typed'
  <2>1. \A f \in Fields : new[f] \in Versions
    BY <1>1, <1>5, FieldFacts DEF Typed, TypeOK, FieldNames
  <2>2. new.graph \in Graph
    BY <1>1, <1>5, FieldFacts DEF Typed, TypeOK
  <2>3. \A i \in 0 .. 1 : /\ \A f \in Fields : snapshots'[i][f] \in Versions
                          /\ snapshots'[i].graph \in Graph
                          /\ DOMAIN snapshots'[i] = All
    <3>1. /\ \A f \in Fields : snapshots[Back][f] \in Versions
          /\ snapshots[Back].graph \in Graph /\ DOMAIN snapshots[Back] = All
      BY <1>1, SnapshotForm DEF Typed, TypeOK
    <3>2. \A i \in 0 .. 1 : i = active_idx \/ i = Back
      BY <1>1
    <3> QED
      BY <1>4, <1>6, <2>1, <2>2, <3>1, <3>2
  <2>4. snapshots' = [i \in 0 .. 1 |-> [f \in All |-> snapshots'[i][f]]]
    <3>1. new = [f \in All |-> new[f]]
      BY <1>4 DEF new
    <3> QED
      BY <1>1, <1>3, <1>6, <3>1, SnapshotForm DEF Typed
  <2>5. /\ filled' \in 0 .. Len(Filled) /\ points' \in Seq(Versions)
        /\ flips' \in 0 .. MaxTicks
    BY <1>1, <1>2 DEF Typed, TypeOK
  <2> QED
    BY <1>1, <1>2, <1>6, <2>3, <2>4, <2>5, TypedWritten
<1>9. \A n : P(n)' = P(n)
  BY <1>2 DEF P
<1>10. Counted'
  BY <1>1, <1>2, NumberFacts DEF IInv, Counted, AtWork, screenVars
<1>11. P(Published) \in Versions /\ P(Published) <= now
  BY <1>1, PublishedInOrder
<1>12. FrontWhole'
  <2>1. Uniform(snapshots[active_idx], P(Published))
        /\ Holds(snapshots[active_idx].graph, Published, points)
    BY DEF IInv, FrontWhole
  <2>2. \A f \in Hot : new[f] >= P(Published)
    BY <1>1, <1>5, <1>11 DEF Versions
  <2>3. Uniform(new, P(Published))
    BY <1>5, <2>1, <2>2, FieldFacts DEF Uniform
  <2>4. new.graph = snapshots[active_idx].graph
    BY <1>5, FieldFacts
  <2> QED
    BY <1>2, <1>6, <1>9, <2>1, <2>3, <2>4 DEF FrontWhole
<1>13. BackWhole'
  BY <1>2, <1>6, <1>9 DEF IInv, BackWhole, Writing
<1>14. FrameOfBuffer'
  BY <1>2, <1>9 DEF IInv, FrameOfBuffer, InTime, Copying, screenVars
<1>15. NotOlder'
  <2>1. \A i \in 0 .. 1, f \in All \ Hot :
          Version(snapshots'[i], f) = Version(snapshots[i], f)
    BY <1>7, VersionFacts
  <2>2. tui.held \in 0 .. 1
    BY <1>1 DEF Typed, TypeOK
  <2>3. UNCHANGED <<tui, frame, shown>>
    BY <1>2 DEF screenVars
  <2>4. \A f \in All \ Hot : Version(snapshots[tui.held], f)'
                              = Version(snapshots[tui.held], f)
    BY <2>1, <2>2, <2>3 DEF Version, Sparkline
  <2> QED
    BY <1>2, <1>9, <2>3, <2>4 DEF IInv, NotOlder
<1> QED
  BY <1>8, <1>10, <1>12, <1>13, <1>14, <1>15 DEF IInv
\* A step of the slow path's copy: one field or more of the back buffer get
\* newer, the buffer in front stays.
LEMMA CopyStepHolds ==
  ASSUME IInv, Typed', BackWhole', pc \in {"carry", "copy", "append"},
         pc' \in {"copy", "append", "publish"},
         UNCHANGED <<now, active_idx, points, flips, screenVars>>,
         pc' = "copy" => filled' < Len(Filled),
         pc' # "copy" => filled' = Len(Filled),
         snapshots'[active_idx] = snapshots[active_idx],
         \A f \in All \ Hot :
           \/ Version(snapshots'[Back], f) = Version(snapshots[Back], f)
           \/ /\ Version(snapshots'[Back], f) \in Int
              /\ Version(snapshots'[Back], f) >= P(Published)
  PROVE  IInv'
<1>1. /\ Typed /\ Counted /\ active_idx \in 0 .. 1 /\ Back \in 0 .. 1
      /\ Back # active_idx /\ now \in Nat /\ Published \in Nat
  <2>1. Typed /\ Counted
    BY DEF IInv
  <2> QED
    BY <2>1, SnapshotForm, NumberFacts
<1>2. Published' = Published /\ Back' = Back /\ \A n : P(n)' = P(n)
  BY DEF Published, Back, P
<1>3. Counted'
  BY <1>1, <1>2 DEF Counted, AtWork
<1>4. FrontWhole'
  BY <1>2 DEF IInv, FrontWhole
<1>5. FrameOfBuffer'
  BY <1>2 DEF IInv, FrameOfBuffer, InTime, Copying, screenVars
<1>6. NotOlder'
  <2>1. UNCHANGED <<tui, frame, shown>>
    BY DEF screenVars
  <2> SUFFICES ASSUME shown.inTime, NEW v \in shown.slow, tui.pc = "draw",
                      NEW f \in All \ Hot
               PROVE  v <= Version(snapshots'[tui.held], f)
    <3>2. tui' = tui
      BY <2>1
    <3>1. \A f \in All \ Hot : Version(snapshots[tui.held], f)'
                                 = Version(snapshots'[tui.held], f)
      BY <3>2
    <3> QED
      BY <1>2, <2>1, <3>1 DEF IInv, NotOlder
  <2>2. v <= Version(snapshots[tui.held], f) /\ v <= P(Published)
    BY DEF IInv, NotOlder
  <2>3. tui.held = active_idx \/ tui.held = Back
    BY <1>1 DEF Typed, TypeOK
  <2>4. v \in Int /\ P(Published) \in Int
    <3>1. P(Published) \in Versions /\ shown.slow \subseteq Versions
      BY <1>1, PublishedInOrder DEF Typed, TypeOK
    <3>2. Versions \subseteq Int
      BY DEF Versions
    <3> QED
      BY <3>1, <3>2
  <2>5. CASE /\ tui.held = Back /\ Version(snapshots'[Back], f) \in Int
             /\ Version(snapshots'[Back], f) >= P(Published)
    BY <2>2, <2>4, <2>5
  <2> QED
    BY <2>2, <2>3, <2>5
<1> QED
  BY <1>3, <1>4, <1>5, <1>6 DEF IInv

\* The fields of a snapshot after one field of the back buffer was replaced.
LEMMA BackGraphReplaced ==
  ASSUME Typed, NEW g \in Graph,
         snapshots' = [snapshots EXCEPT ![Back].graph = g]
  PROVE  /\ DOMAIN snapshots' = 0 .. 1
         /\ snapshots' = [i \in 0 .. 1 |-> [f \in All |-> snapshots'[i][f]]]
         /\ snapshots'[active_idx] = snapshots[active_idx]
         /\ snapshots'[Back].graph = g
         /\ \A f \in Fields : snapshots'[Back][f] = snapshots[Back][f]
         /\ \A i \in 0 .. 1 : /\ DOMAIN snapshots'[i] = All
                              /\ \A f \in Fields : snapshots'[i][f] \in Versions
                              /\ snapshots'[i].graph \in Graph
<1> DEFINE new == [snapshots[Back] EXCEPT !.graph = g]
<1>1. /\ DOMAIN snapshots = 0 .. 1 /\ \A i \in 0 .. 1 : DOMAIN snapshots[i] = All
      /\ active_idx \in 0 .. 1 /\ Back \in 0 .. 1 /\ Back # active_idx
      /\ active_idx = 1 - Back
  BY SnapshotForm
<1>2. snapshots' = [snapshots EXCEPT ![Back] = new]
  OBVIOUS
<1>3. new.graph = g /\ DOMAIN new = All /\ new = [f \in All |-> new[f]]
      /\ \A f \in Fields : new[f] = snapshots[Back][f]
  BY <1>1, FieldFacts DEF All
<1> HIDE DEF new
<1>4. /\ DOMAIN snapshots' = 0 .. 1 /\ snapshots'[Back] = new
      /\ snapshots'[active_idx] = snapshots[active_idx]
  BY <1>1, <1>2
<1>5. \A i \in 0 .. 1 : i = Back \/ i = active_idx
  BY <1>1
<1>6. snapshots' = [i \in 0 .. 1 |-> [f \in All |-> snapshots'[i][f]]]
  <2>1. snapshots' = [i \in 0 .. 1 |-> IF i = Back THEN new ELSE snapshots[i]]
    BY <1>1, <1>2
  <2>2. \A i \in 0 .. 1 : snapshots[i] = [f \in All |-> snapshots[i][f]]
    BY DEF Typed
  <2>3. \A i \in 0 .. 1 : snapshots'[i] = [f \in All |-> snapshots'[i][f]]
    BY <1>1, <1>3, <1>4, <1>5, <2>2
  <2>4. snapshots' = [i \in 0 .. 1 |-> snapshots'[i]]
    BY <1>2, <1>4, <2>1
  <2> QED
    BY <2>3, <2>4
<1>7. \A i \in 0 .. 1 : /\ DOMAIN snapshots'[i] = All
                        /\ \A f \in Fields : snapshots'[i][f] \in Versions
                        /\ snapshots'[i].graph \in Graph
  <2>1. \A i \in 0 .. 1 : /\ \A f \in Fields : snapshots[i][f] \in Versions
                          /\ snapshots[i].graph \in Graph
    BY DEF Typed, TypeOK
  <2> QED
    BY <1>1, <1>3, <1>4, <1>5, <2>1
<1> QED
  BY <1>3, <1>4, <1>6, <1>7

\* The back buffer takes the graphs of the front one.
LEMMA CarryHistoryHolds ==
  ASSUME IInv, CarryHistory
  PROVE  IInv'
<1>1. /\ Typed /\ Counted /\ active_idx \in 0 .. 1 /\ Back \in 0 .. 1
      /\ Back # active_idx /\ now \in Nat /\ Published \in Nat /\ TypeOK
  <2>1. Typed /\ Counted
    BY DEF IInv
  <2> QED
    BY <2>1, SnapshotForm, NumberFacts
<1>2. /\ pc = "carry" /\ pc' = "copy" /\ filled' = 0
      /\ UNCHANGED <<running, now, serving, active_idx, requests, quit,
                     screenVars, points, flips, owed>>
      /\ snapshots' = [snapshots EXCEPT ![Back].graph = snapshots[active_idx].graph]
  BY DEF CarryHistory
<1>3. snapshots[active_idx].graph \in Graph
  BY <1>1 DEF TypeOK
<1>4. /\ DOMAIN snapshots' = 0 .. 1
      /\ snapshots' = [i \in 0 .. 1 |-> [f \in All |-> snapshots'[i][f]]]
      /\ snapshots'[active_idx] = snapshots[active_idx]
      /\ snapshots'[Back].graph = snapshots[active_idx].graph
      /\ \A f \in Fields : snapshots'[Back][f] = snapshots[Back][f]
      /\ \A i \in 0 .. 1 : /\ DOMAIN snapshots'[i] = All
                           /\ \A f \in Fields : snapshots'[i][f] \in Versions
                           /\ snapshots'[i].graph \in Graph
  BY <1>1, <1>2, <1>3, BackGraphReplaced
<1>5. Typed'
  <2>1. /\ filled' \in 0 .. Len(Filled) /\ points' \in Seq(Versions)
        /\ flips' \in 0 .. MaxTicks /\ now' \in Versions /\ active_idx' \in 0 .. 1
    BY <1>1, <1>2, FilledFacts DEF TypeOK
  <2> QED
    BY <1>1, <1>2, <1>4, <2>1, TypedWritten
<1>6. Holds(snapshots[active_idx].graph, Published, points)
  BY DEF IInv, FrontWhole
<1>7. BackWhole'
  BY <1>2, <1>4, <1>6 DEF BackWhole, Back, Published, Writing
<1>8. /\ \A f \in Slow : Version(snapshots'[Back], f) = Version(snapshots[Back], f)
      /\ Version(snapshots'[Back], "graph") = P(Published)
  <2>1. \A f \in Slow : Version(snapshots'[Back], f) = Version(snapshots[Back], f)
    BY <1>4, VersionFacts DEF Slow
  <2>2. Version(snapshots'[Back], "graph")
          = IF Published = 0 THEN 0 ELSE points[Published]
    BY <1>1, <1>4, <1>6, LatestPoint
  <2> QED
    BY <1>1, <2>1, <2>2 DEF P
<1>9. P(Published) \in Int
  BY <1>1, PublishedInOrder DEF Versions
<1>10. filled' < Len(Filled)
  BY <1>2, FilledFacts
<1> QED
  BY <1>2, <1>4, <1>5, <1>7, <1>8, <1>9, <1>10, FieldFacts, CopyStepHolds

\* The copy of one group into the back buffer.
LEMMA CopySnapshotHolds ==
  ASSUME IInv, CopySnapshot
  PROVE  IInv'
<1>1. /\ Typed /\ Counted /\ active_idx \in 0 .. 1 /\ Back \in 0 .. 1
      /\ Back # active_idx /\ active_idx = 1 - Back
      /\ now \in Nat /\ now \in Versions /\ Published \in Nat /\ TypeOK
  <2>1. Typed /\ Counted
    BY DEF IInv
  <2> QED
    BY <2>1, SnapshotForm, NumberFacts
<1> DEFINE next == filled + 1
           new == [f \in All |-> IF f \in Filled[next] THEN now
                                 ELSE snapshots[Back][f]]
<1>2. /\ pc = "copy" /\ filled' = next
      /\ pc' = IF next = Len(Filled) THEN "append" ELSE pc
      /\ UNCHANGED <<running, now, serving, active_idx, requests, quit,
                     screenVars, points, flips, owed>>
  BY DEF CopySnapshot
<1>3. next \in 1 .. 4 /\ Len(Filled) = 4
  <2>1. filled < Len(Filled) /\ filled \in 0 .. Len(Filled)
    BY <1>1, <1>2 DEF Counted, TypeOK
  <2> QED
    BY <2>1, FilledFacts
<1>4. /\ DOMAIN snapshots = 0 .. 1 /\ DOMAIN snapshots[Back] = All
      /\ \A i \in 0 .. 1 : snapshots[i] = [f \in All |-> snapshots[i][f]]
      /\ \A i \in 0 .. 1 : i = Back \/ i = active_idx
  BY <1>1, SnapshotForm DEF Typed
<1>5. snapshots' = [snapshots EXCEPT ![Back] = new]
  BY <1>4 DEF CopySnapshot
<1>6. /\ \A f \in Fields : new[f] = IF f \in Filled[next] THEN now
                                    ELSE snapshots[Back][f]
      /\ new.graph = snapshots[Back].graph
      /\ new = [f \in All |-> new[f]] /\ DOMAIN new = All
  <2>1. Filled[next] \subseteq Fields
    BY <1>3, FilledFacts
  <2> HIDE DEF next
  <2> QED
    BY <2>1, FieldFacts DEF All
<1> HIDE DEF new, next
<1>7. /\ snapshots'[Back] = new /\ snapshots'[active_idx] = snapshots[active_idx]
      /\ DOMAIN snapshots' = 0 .. 1
  BY <1>1, <1>4, <1>5
<1>8. Typed'
  <2>1. \A i \in 0 .. 1 : /\ \A f \in Fields : snapshots[i][f] \in Versions
                          /\ snapshots[i].graph \in Graph
    BY <1>1 DEF TypeOK
  <2>2. \A i \in 0 .. 1 : /\ DOMAIN snapshots'[i] = All
                          /\ \A f \in Fields : snapshots'[i][f] \in Versions
                          /\ snapshots'[i].graph \in Graph
    BY <1>1, <1>4, <1>6, <1>7, <2>1
  <2>3. \A i \in 0 .. 1 : snapshots'[i] = [f \in All |-> snapshots'[i][f]]
    BY <1>4, <1>6, <1>7
  <2>4. snapshots' = [i \in 0 .. 1 |-> snapshots'[i]]
    BY <1>4, <1>5, <1>7
  <2>5. snapshots' = [i \in 0 .. 1 |-> [f \in All |-> snapshots'[i][f]]]
    BY <2>3, <2>4
  <2>6. /\ filled' \in 0 .. Len(Filled) /\ points' \in Seq(Versions)
        /\ flips' \in 0 .. MaxTicks /\ now' \in Versions /\ active_idx' \in 0 .. 1
        /\ pc' \in {"copy", "append"}
    BY <1>1, <1>2, <1>3 DEF TypeOK
  <2> QED
    BY <1>1, <1>2, <1>7, <2>2, <2>5, <2>6, TypedWritten
<1>9. BackWhole'
  <2>1. Back' = Back /\ Published' = Published /\ pc' \in {"copy", "append"}
    BY <1>2 DEF Back, Published
  <2>2. Holds(snapshots[Back].graph, Published, points)
    BY <1>2 DEF IInv, BackWhole
  <2>3. Holds(snapshots'[Back].graph, Published, points)
    BY <1>6, <1>7, <2>2
  <2>4. ASSUME NEW j \in 1 .. next, NEW f \in Filled[j]
        PROVE  snapshots'[Back][f] = now
    <3>1. j \in 1 .. 4 /\ f \in Fields
      BY <1>3, FilledFacts
    <3>2. CASE j = next
      BY <1>6, <1>7, <3>1, <3>2
    <3>3. CASE j # next
      <4>1. j \in 1 .. filled
        BY <1>1, <1>3, <3>3 DEF next, TypeOK
      <4>2. snapshots[Back][f] = now
        BY <1>2, <4>1 DEF IInv, BackWhole, Writing
      <4> QED
        BY <1>6, <1>7, <3>1, <4>2
    <3> QED
      BY <3>2, <3>3
  <2> QED
    BY <1>2, <2>1, <2>3, <2>4 DEF BackWhole, Writing
<1>10. \A f \in All \ Hot :
         \/ Version(snapshots'[Back], f) = Version(snapshots[Back], f)
         \/ /\ Version(snapshots'[Back], f) \in Int
            /\ Version(snapshots'[Back], f) >= P(Published)
  <2>1. P(Published) <= now
    BY <1>1, PublishedInOrder
  <2>2. Version(new, "graph") = Version(snapshots[Back], "graph")
    BY <1>6 DEF Version
  <2>3. \A f \in Slow : Version(new, f) = now
                        \/ Version(new, f) = Version(snapshots[Back], f)
    BY <1>6, VersionFacts DEF Slow
  <2>4. P(Published) \in Int
    BY <1>1, PublishedInOrder DEF Versions
  <2> QED
    BY <1>1, <1>7, <2>1, <2>2, <2>3, <2>4, FieldFacts
<1>11. /\ pc' = "copy" => filled' < Len(Filled)
       /\ pc' # "copy" => filled' = Len(Filled)
       /\ pc' \in {"copy", "append"}
  BY <1>2, <1>3
<1>12. UNCHANGED <<now, active_idx, points, flips, screenVars>>
  BY <1>2
<1> QED
  BY <1>2, <1>7, <1>8, <1>9, <1>10, <1>11, <1>12, CopyStepHolds

\* The new point goes into the graphs carried over.
LEMMA AppendToGraphsHolds ==
  ASSUME IInv, AppendToGraphs
  PROVE  IInv'
<1>1. /\ Typed /\ Counted /\ active_idx \in 0 .. 1 /\ Back \in 0 .. 1
      /\ now \in Nat /\ now \in Versions /\ Published \in Nat /\ TypeOK
      /\ points \in Seq(Versions) /\ DOMAIN points = 1 .. Published
  <2>1. Typed /\ Counted
    BY DEF IInv
  <2> QED
    BY <2>1, SnapshotForm, NumberFacts
<1> DEFINE g == AppendPoint(snapshots[Back].graph, now)
           t == Append(points, now)
<1>2. /\ pc = "append" /\ pc' = "publish"
      /\ UNCHANGED <<running, now, filled, serving, active_idx, requests, quit,
                     screenVars, points, flips, owed>>
      /\ snapshots' = [snapshots EXCEPT ![Back].graph =
                         AppendPoint(@, snapshots[Back].price)]
  BY DEF AppendToGraphs
<1>3. /\ filled = 4 /\ Len(Filled) = 4
      /\ \A f \in Fields : snapshots[Back][f] = now
      /\ Holds(snapshots[Back].graph, Published, points)
  <2>1. filled = 4 /\ Len(Filled) = 4
    BY <1>1, <1>2, FilledFacts DEF Counted
  <2>2. \A j \in 1 .. 4 : \A f \in Filled[j] : snapshots[Back][f] = now
    BY <1>2, <2>1 DEF IInv, BackWhole, Writing
  <2>3. \A f \in Fields : snapshots[Back][f] = now
    BY <2>2, FilledFacts
  <2>4. Holds(snapshots[Back].graph, Published, points)
    BY <1>2 DEF IInv, BackWhole
  <2> QED
    BY <2>1, <2>3, <2>4
<1>4. snapshots[Back].price = now
  BY <1>3, FieldFacts DEF FieldNames
<1>5. /\ \A j \in 1 .. Published : t[j] = points[j]
      /\ t[Published + 1] = now
  BY <1>1, AppendProperties DEF Published
<1>6. snapshots[Back].graph \in Graph
  BY <1>1 DEF TypeOK
<1> HIDE DEF t
<1>7. g \in Graph /\ Holds(g, Published + 1, t)
  BY <1>1, <1>3, <1>5, <1>6, PointAppended
<1>8. snapshots' = [snapshots EXCEPT ![Back].graph = g]
  BY <1>2, <1>4, SnapshotForm, <1>1
<1> HIDE DEF g
<1>9. /\ DOMAIN snapshots' = 0 .. 1
      /\ snapshots' = [i \in 0 .. 1 |-> [f \in All |-> snapshots'[i][f]]]
      /\ snapshots'[active_idx] = snapshots[active_idx]
      /\ snapshots'[Back].graph = g
      /\ \A f \in Fields : snapshots'[Back][f] = snapshots[Back][f]
      /\ \A i \in 0 .. 1 : /\ DOMAIN snapshots'[i] = All
                           /\ \A f \in Fields : snapshots'[i][f] \in Versions
                           /\ snapshots'[i].graph \in Graph
  BY <1>1, <1>7, <1>8, BackGraphReplaced
<1>10. Typed'
  <2>1. /\ filled' \in 0 .. Len(Filled) /\ points' \in Seq(Versions)
        /\ flips' \in 0 .. MaxTicks /\ now' \in Versions /\ active_idx' \in 0 .. 1
    BY <1>1, <1>2 DEF TypeOK
  <2> QED
    BY <1>1, <1>2, <1>9, <2>1, TypedWritten
<1>11. BackWhole'
  <2>1. Back' = Back /\ Published' = Published
    BY <1>2 DEF Back, Published
  <2>2. \A j \in 1 .. 4 : \A f \in Filled[j] : snapshots'[Back][f] = now
    BY <1>3, <1>9, FilledFacts
  <2>3. Holds(snapshots'[Back].graph, Published + 1, Append(points, now))
    BY <1>7, <1>9 DEF t
  <2> QED
    BY <1>2, <1>3, <2>1, <2>2, <2>3 DEF BackWhole, Writing
<1>12. \A f \in All \ Hot :
         \/ Version(snapshots'[Back], f) = Version(snapshots[Back], f)
         \/ /\ Version(snapshots'[Back], f) \in Int
            /\ Version(snapshots'[Back], f) >= P(Published)
  <2>1. P(Published) <= now /\ P(Published) \in Int
    BY <1>1, PublishedInOrder DEF Versions
  <2>2. Version(snapshots'[Back], "graph") = now
    <3>1. Version(snapshots'[Back], "graph")
            = IF Published + 1 = 0 THEN 0 ELSE t[Published + 1]
      <4>1. Published + 1 \in Nat /\ Holds(snapshots'[Back].graph, Published + 1, t)
        BY <1>1, <1>7, <1>9
      <4> QED
        BY <4>1, LatestPoint
    <3> QED
      BY <1>1, <1>5, <3>1 DEF t
  <2>3. \A f \in Slow : Version(snapshots'[Back], f) = Version(snapshots[Back], f)
    BY <1>9, VersionFacts DEF Slow
  <2> QED
    BY <1>1, <2>1, <2>2, <2>3, FieldFacts
<1>13. filled' = Len(Filled)
  BY <1>2, <1>3
<1> QED
  BY <1>2, <1>9, <1>10, <1>11, <1>12, <1>13, CopyStepHolds

\* What a ring holds is the elements of the sequence, not the sequence.
LEMMA HoldsSame ==
  ASSUME NEW g, NEW k \in Nat, NEW s, NEW t, Holds(g, k, s),
         \A j \in 1 .. k : t[j] = s[j]
  PROVE  Holds(g, k, t)
BY DEF Holds

\* The swap: the buffer filled goes in front, the one in front becomes the back.
LEMMA PublishHolds ==
  ASSUME IInv, Publish
  PROVE  IInv'
<1>1. /\ Typed /\ Counted /\ active_idx \in 0 .. 1 /\ Back \in 0 .. 1
      /\ active_idx = 1 - Back /\ TypeOK
      /\ now \in Nat /\ now \in Versions /\ Published \in Nat /\ flips \in Nat
      /\ points \in Seq(Versions) /\ MaxTicks \in Nat
      /\ \A i \in 1 .. Published : points[i] \in Nat
  <2>1. Typed /\ Counted
    BY DEF IInv
  <2> QED
    BY <2>1, SnapshotForm, NumberFacts
<1>2. /\ pc = "publish" /\ pc' = "poll" /\ active_idx' = Back
      /\ points' = Append(points, now) /\ flips' = flips + 1
      /\ UNCHANGED <<running, now, filled, serving, snapshots, requests, quit,
                     screenVars, owed>>
  BY DEF Publish
<1>3. /\ points' \in Seq(Versions) /\ Published' = Published + 1
      /\ \A j \in 1 .. Published : points'[j] = points[j]
      /\ points'[Published + 1] = now
  BY <1>1, <1>2, AppendProperties DEF Published
<1>4. Back' = active_idx /\ Before' = Published
  <2>1. Before' = IF Published' = 0 THEN 0 ELSE Published' - 1
    BY DEF Before
  <2>2. Back' = 1 - active_idx'
    BY DEF Back
  <2> QED
    BY <1>1, <1>2, <1>3, <2>1, <2>2
<1>5. /\ \A n \in Int : n <= Published => P(n)' = P(n)
      /\ P(Published)' = now
  <2>1. ASSUME NEW n \in Int, n <= Published PROVE P(n)' = P(n)
    BY <1>1, <1>3, <2>1 DEF P
  <2>2. P(Published)' = now
    BY <1>1, <1>3 DEF P
  <2> QED
    BY <2>1, <2>2
<1>6. Published < now /\ flips <= Published /\ filled = 4
      /\ now \in 0 .. MaxTicks
  BY <1>1, <1>2, FilledFacts DEF Counted, AtWork, Versions
<1>7. Typed'
  <2>1. flips' \in 0 .. MaxTicks
    BY <1>1, <1>2, <1>6
  <2>2. snapshots' = [i \in 0 .. 1 |-> [f \in All |-> snapshots'[i][f]]]
    BY <1>1, <1>2 DEF Typed
  <2>3. \A i \in 0 .. 1 : /\ \A f \in Fields : snapshots'[i][f] \in Versions
                          /\ snapshots'[i].graph \in Graph
    BY <1>1, <1>2 DEF TypeOK
  <2>4. DOMAIN snapshots' = 0 .. 1 /\ \A i \in 0 .. 1 : DOMAIN snapshots'[i] = All
    BY <1>1, <1>2, SnapshotForm
  <2>5. now' \in Versions /\ filled' \in 0 .. Len(Filled) /\ active_idx' \in 0 .. 1
    BY <1>1, <1>2 DEF TypeOK
  <2> QED
    BY <1>1, <1>2, <1>3, <2>1, <2>2, <2>3, <2>4, <2>5, TypedWritten
<1>8. Counted'
  <2>1. \A i \in 1 .. Published' : points'[i] \in Nat /\ points'[i] <= now
    BY <1>1, <1>3 DEF Counted
  <2>2. \A i, j \in 1 .. Published' : i <= j => points'[i] <= points'[j]
    <3> TAKE i, j \in 1 .. Published'
    <3> HAVE i <= j
    <3>1. CASE j = Published + 1
      BY <1>3, <2>1, <3>1
    <3>2. CASE j # Published + 1
      BY <1>1, <1>3, <3>2 DEF Counted
    <3> QED
      BY <3>1, <3>2
  <2> QED
    <3>1. /\ flips' <= Published' /\ Published' <= now' /\ now' = now
          /\ ~AtWork' /\ pc' = "poll"
      BY <1>1, <1>2, <1>3, <1>6 DEF AtWork
    <3> QED
      BY <2>1, <2>2, <3>1 DEF Counted
<1>9. /\ \A f \in Fields : snapshots[Back][f] = now
      /\ Holds(snapshots[Back].graph, Published + 1, points')
  <2>1. \A j \in 1 .. 4 : \A f \in Filled[j] : snapshots[Back][f] = now
    BY <1>2, <1>6 DEF IInv, BackWhole, Writing
  <2>2. Holds(snapshots[Back].graph, Published + 1, Append(points, now))
    BY <1>2 DEF IInv, BackWhole
  <2> QED
    BY <1>2, <2>1, <2>2, FilledFacts
<1>10. FrontWhole'
  <2>1. Uniform(snapshots[Back], now)
    BY <1>1, <1>9, FieldFacts DEF Uniform, FieldNames
  <2> QED
    BY <1>2, <1>3, <1>5, <1>9, <2>1 DEF FrontWhole
<1>11. BackWhole'
  <2>1. /\ Uniform(snapshots[active_idx], P(Published))
        /\ Holds(snapshots[active_idx].graph, Published, points)
    BY DEF IInv, FrontWhole
  <2>2. Holds(snapshots[active_idx].graph, Published, points')
    BY <1>1, <1>3, <2>1, HoldsSame
  <2>3. P(Published - 1)' = P(Published)
    <3>1. (Published - 1)' = Published
      BY <1>1, <1>3
    <3> QED
      BY <1>1, <1>5, <3>1 DEF P
  <2> QED
    BY <1>2, <1>4, <2>1, <2>2, <2>3 DEF BackWhole, Writing
<1>12. FrameOfBuffer'
  <2>1. UNCHANGED <<tui, frame>>
    BY <1>2 DEF screenVars
  <2> SUFFICES ASSUME tui.pc \in {"draw", "key"}
               PROVE  /\ flips' # 0
                      /\ flips' = 1 => /\ tui.held = active_idx
                                       /\ \A v \in frame.slow : v = P(Published)
                                       /\ \A v \in frame.hot : v >= P(Published)
    <3>1. InTime' => flips' = 1 \/ flips' = 0
      BY DEF InTime
    <3>2. flips' = 1 => P(Published - flips)' = P(Published)
      <4>1. flips' = 1 => (Published - flips)' = Published
        BY <1>1, <1>3
      <4> QED
        BY <1>1, <1>5, <4>1 DEF P
    <3> QED
      BY <1>4, <2>1, <3>1, <3>2 DEF FrameOfBuffer
  <2>2. flips' = 1 => flips = 0
    BY <1>1, <1>2
  <2>3. flips = 0 => /\ tui.held = active_idx
                     /\ \A v \in frame.slow : v = P(Published)
                     /\ \A v \in frame.hot : v >= P(Published)
    <3>1. flips = 0 => InTime /\ P(Published - flips) = P(Published)
      <4>1. flips = 0 => Published - flips = Published
        BY <1>1
      <4> QED
        BY <4>1 DEF InTime, P
    <3> QED
      BY <3>1 DEF IInv, FrameOfBuffer
  <2> QED
    BY <1>1, <1>2, <2>2, <2>3
<1>13. NotOlder'
  <2>1. UNCHANGED <<tui, frame, shown, snapshots>>
    BY <1>2 DEF screenVars
  <2>2. P(Published)' = now /\ P(Published) \in Versions /\ P(Published) <= now
    BY <1>1, <1>5, PublishedInOrder
  <2>3. P(Published) \in Nat /\ \A v \in shown.slow : v \in Nat
    <3>1. Versions \subseteq Nat
      BY DEF Versions
    <3>2. shown.slow \subseteq Versions
      BY <1>1 DEF TypeOK
    <3> QED
      BY <2>2, <3>1, <3>2
  <2>5. shown.inTime => \A v \in shown.slow : v <= now
    BY <1>1, <2>2, <2>3 DEF IInv, NotOlder
  <2>7. tui' = tui /\ snapshots' = snapshots
    BY <2>1
  <2>8. \A f \in All \ Hot : Version(snapshots[tui.held], f)'
                             = Version(snapshots[tui.held], f)
    BY <2>7 DEF Version, Sparkline
  <2> QED
    BY <2>1, <2>2, <2>5, <2>8 DEF IInv, NotOlder
<1> QED
  BY <1>7, <1>8, <1>10, <1>11, <1>12, <1>13 DEF IInv

-----------------------------------------------------------------------------
\* Steps of the TUI ---------------------------------------------------------

\* What the buffers that a frame may be drawn from show.
LEMMA BuffersShow ==
  ASSUME IInv, pc # "killed"
  PROVE  /\ \A f \in All \ Hot : Version(snapshots[active_idx], f) = P(Published)
         /\ \A f \in Hot : Version(snapshots[active_idx], f) >= P(Published)
         /\ pc \notin {"copy", "append", "publish"} =>
              /\ \A f \in All \ Hot : Version(snapshots[Back], f) = P(Published - 1)
              /\ \A f \in Hot : Version(snapshots[Back], f) >= P(Published - 1)
<1>1. Published \in Nat /\ Typed
  <2>1. Typed
    BY DEF IInv
  <2> QED
    BY <2>1, NumberFacts
<1>2. ASSUME NEW s, NEW k \in Nat, Uniform(s, P(k)), Holds(s.graph, k, points)
      PROVE  /\ \A f \in All \ Hot : Version(s, f) = P(k)
             /\ \A f \in Hot : Version(s, f) >= P(k)
  <2>1. Version(s, "graph") = P(k)
    <3>1. Version(s, "graph") = IF k = 0 THEN 0 ELSE points[k]
      BY <1>2, LatestPoint
    <3> QED
      BY <3>1 DEF P
  <2>2. \A f \in Fields : Version(s, f) = s[f]
    BY VersionFacts
  <2> QED
    BY <1>2, <2>1, <2>2, FieldFacts DEF Uniform, FieldNames
<1>3. /\ Uniform(snapshots[active_idx], P(Published))
      /\ Holds(snapshots[active_idx].graph, Published, points)
  BY DEF IInv, FrontWhole
<1>4. pc \notin {"copy", "append", "publish"} =>
        /\ Uniform(snapshots[Back], P(Published - 1))
        /\ Holds(snapshots[Back].graph, Before, points)
  BY DEF IInv, BackWhole
<1>5. Before \in Nat /\ P(Published - 1) = P(Before)
  BY <1>1 DEF Before, P
<1> QED
  BY <1>1, <1>2, <1>3, <1>4, <1>5

\* The TUI takes the buffer in front and starts an empty frame.
LEMMA BeginFrameHolds ==
  ASSUME IInv, BeginFrame
  PROVE  IInv'
<1>1. /\ Typed /\ Counted /\ TypeOK /\ active_idx \in 0 .. 1 /\ Published \in Nat
      /\ tui \in [pc : TuiPlaces, held : 0 .. 1, at : Nat, layout : 1 .. Len(Layouts)]
  <2>1. Typed /\ Counted
    BY DEF IInv
  <2> QED
    BY <2>1, NumberFacts DEF Typed, TypeOK
<1>2. /\ tui' = [tui EXCEPT !.pc = "draw", !.held = active_idx, !.at = 1]
      /\ tui.pc = "loop" /\ frame' = NoFrame /\ flips' = 0
      /\ UNCHANGED <<pc, running, now, filled, serving, snapshots, active_idx,
                     requests, quit, build, terminal, handlers, shown, points, owed>>
  BY DEF BeginFrame, engineVars, sharedVars
<1>3. /\ tui'.pc = "draw" /\ tui'.held = active_idx /\ tui'.at = 1
      /\ tui'.layout = tui.layout /\ pc # "killed"
      /\ tui' \in [pc : TuiPlaces, held : 0 .. 1, at : Nat, layout : 1 .. Len(Layouts)]
  BY <1>1, <1>2 DEF Counted, TuiPlaces
<1>4. Published' = Published /\ Back' = Back /\ Before' = Before
      /\ \A n : P(n)' = P(n)
  BY <1>2 DEF Published, Back, Before, P
<1>5. Typed'
  <2>1. Layout' = Layout /\ 1 \in 1 .. Len(Layout)
    BY <1>1, <1>2, <1>3, LayoutFacts DEF Layout
  <2>2. frame' \in Frame /\ flips' \in 0 .. MaxTicks
    BY <1>2, DisplayAssumption DEF NoFrame, Frame
  <2>3. TypeOK'
    BY <1>1, <1>2, <1>3, <2>2 DEF TypeOK, TuiPlaces
  <2> QED
    BY <1>1, <1>2, <1>3, <2>1, <2>3 DEF Typed
<1>6. Counted'
  BY <1>1, <1>2, <1>3, <1>4 DEF Counted, AtWork
<1>7. FrontWhole'
  BY <1>2, <1>4 DEF IInv, FrontWhole
<1>8. BackWhole'
  BY <1>2, <1>4 DEF IInv, BackWhole, Writing
<1>9. FrameOfBuffer'
  <2>1. frame'.slow = {} /\ frame'.hot = {}
    BY <1>2 DEF NoFrame
  <2> QED
    BY <1>2, <1>3, <2>1 DEF FrameOfBuffer
<1>10. NotOlder'
  <2>1. frame'.slow = {}
    BY <1>2 DEF NoFrame
  <2>2. \A f \in All \ Hot : Version(snapshots[tui.held], f)' = P(Published)
    <3>1. \A f \in All \ Hot : Version(snapshots[active_idx], f) = P(Published)
      BY <1>3, BuffersShow
    <3>2. \A f : Version(snapshots[tui.held], f)' = Version(snapshots[active_idx], f)
      <4>1. tui'.held = active_idx /\ snapshots' = snapshots
        BY <1>2, <1>3
      <4> QED
        BY <4>1 DEF Version, Sparkline
    <3> QED
      BY <3>1, <3>2
  <2> QED
    BY <1>2, <1>4, <2>1, <2>2 DEF IInv, NotOlder
<1> QED
  BY <1>5, <1>6, <1>7, <1>8, <1>9, <1>10 DEF IInv

\* Versions read from a buffer are versions.
LEMMA VersionType ==
  ASSUME TypeOK, NEW i \in 0 .. 1, NEW f \in All
  PROVE  Version(snapshots[i], f) \in Versions
<1>1. CASE f \in Fields
  BY <1>1, VersionFacts DEF TypeOK
<1>2. CASE f = "graph"
  <2> DEFINE g == snapshots[i].graph
  <2>1. /\ g.ring \in [0 .. GraphLen - 1 -> Versions]
        /\ g.graph_head \in 0 .. GraphLen - 1 /\ g.graph_count \in 0 .. GraphLen
    BY DEF TypeOK, Graph
  <2>2. 0 \in Versions /\ GraphLen \in Nat \ {0}
    BY DisplayAssumption DEF Versions
  <2>3. CASE g.graph_count = 0
    BY <1>2, <2>2, <2>3 DEF Version
  <2>4. CASE g.graph_count # 0
    <3> DEFINE x == g.graph_head - g.graph_count + GraphLen + g.graph_count - 1
    <3>1. Sparkline(g)[g.graph_count] = g.ring[Slot(x)]
      BY <2>1, <2>2, <2>4 DEF Sparkline, Slot
    <3>2. x \in Int
      BY <2>1, <2>2
    <3> HIDE DEF x
    <3>3. Slot(x) \in 0 .. GraphLen - 1
      BY <3>2, SlotFacts
    <3>4. Version(snapshots[i], f) = Sparkline(g)[g.graph_count]
      BY <1>2, <2>4 DEF Version
    <3> QED
      BY <2>1, <3>1, <3>3, <3>4
  <2> QED
    BY <2>3, <2>4
<1> QED
  BY <1>1, <1>2 DEF All

\* What a section adds to the frame, and when the frame is complete.
LEMMA SectionFacts ==
  ASSUME IInv, DrawSection
  PROVE  LET seen == Seen(snapshots[tui.held], Layout[tui.at])
         IN  /\ pc # "killed" /\ tui.pc = "draw"
             /\ seen.slow \subseteq Versions /\ seen.hot \subseteq Versions
             /\ frame'.slow = frame.slow \cup seen.slow
             /\ frame'.hot = frame.hot \cup seen.hot
             /\ frame' \in Frame
             /\ \A w \in seen.slow : \E f \in All \ Hot :
                  w = Version(snapshots[tui.held], f)
             /\ InTime => /\ \A w \in frame'.slow : w = P(Published - flips)
                          /\ \A w \in frame'.hot : w >= P(Published - flips)
<1> DEFINE fields == Layout[tui.at]
           seen   == Seen(snapshots[tui.held], fields)
           slow   == {Version(snapshots[tui.held], f) : f \in fields \ Hot}
           hot    == {Version(snapshots[tui.held], f) : f \in fields \cap Hot}
<1>1. /\ Typed /\ Counted /\ TypeOK /\ active_idx \in 0 .. 1 /\ Published \in Nat
      /\ flips \in Nat /\ tui.held \in 0 .. 1
  <2>1. Typed /\ Counted
    BY DEF IInv
  <2> QED
    BY <2>1, NumberFacts DEF TypeOK
<1>2. /\ tui.pc = "draw" /\ pc # "killed"
      /\ frame' = [slow |-> frame.slow \cup seen.slow, hot |-> frame.hot \cup seen.hot]
  BY <1>1 DEF DrawSection, Counted
<1>3. seen.slow = slow /\ seen.hot = hot
  BY DEF Seen
<1>4. fields \subseteq All
  BY <1>1, <1>2, LayoutFacts DEF Typed
<1> HIDE DEF fields, seen
<1>5. slow \subseteq Versions /\ hot \subseteq Versions
  BY <1>1, <1>4, VersionType
<1>6. \A w \in slow : \E f \in All \ Hot : w = Version(snapshots[tui.held], f)
  BY <1>4
<1>7. \A w \in hot : \E f \in Hot : w = Version(snapshots[tui.held], f)
  BY <1>4
<1>8. ASSUME InTime
      PROVE  /\ \A f \in All \ Hot :
                  Version(snapshots[tui.held], f) = P(Published - flips)
             /\ \A f \in Hot : Version(snapshots[tui.held], f) >= P(Published - flips)
  <2>1. CASE flips = 0
    <3>1. tui.held = active_idx /\ Published - flips = Published
      BY <1>1, <1>2, <2>1 DEF IInv, FrameOfBuffer
    <3> QED
      BY <1>2, <3>1, BuffersShow
  <2>2. CASE flips = 1 /\ ~Copying
    <3>1. /\ tui.held = Back /\ Published - flips = Published - 1
          /\ pc \notin {"copy", "append", "publish"}
      BY <1>1, <1>2, <2>2 DEF IInv, FrameOfBuffer, Copying
    <3> QED
      BY <1>2, <3>1, BuffersShow
  <2> QED
    BY <1>8, <2>1, <2>2 DEF InTime
<1> HIDE DEF slow, hot
<1>9. InTime => /\ \A w \in frame.slow \cup slow : w = P(Published - flips)
                /\ \A w \in frame.hot \cup hot : w >= P(Published - flips)
  BY <1>2, <1>6, <1>7, <1>8 DEF IInv, FrameOfBuffer
<1>10. frame'.slow = frame.slow \cup slow /\ frame'.hot = frame.hot \cup hot
       /\ frame' \in Frame
  BY <1>1, <1>2, <1>3, <1>5 DEF TypeOK, Frame
<1> QED
  BY <1>2, <1>3, <1>5, <1>6, <1>9, <1>10 DEF seen, fields

\* Nothing on the screen gets older by a frame that replaces one drawn in time.
LEMMA SectionNotOlder ==
  ASSUME IInv, DrawSection, shown.inTime
  PROVE  \A v \in shown.slow, w \in frame'.slow : w >= v
<1> SUFFICES ASSUME NEW v \in shown.slow, NEW w \in frame'.slow
             PROVE  w >= v
  OBVIOUS
<1> DEFINE seen == Seen(snapshots[tui.held], Layout[tui.at])
<1>1. /\ tui.pc = "draw" /\ frame'.slow = frame.slow \cup seen.slow
      /\ \A u \in seen.slow : \E f \in All \ Hot :
           u = Version(snapshots[tui.held], f)
      /\ frame' \in Frame
  BY SectionFacts
<1>2. /\ \A f \in All \ Hot : v <= Version(snapshots[tui.held], f)
      /\ \A u \in frame.slow : v <= u
  BY <1>1 DEF IInv, NotOlder
<1> HIDE DEF seen
<1>3. v <= w
  BY <1>1, <1>2
<1>4. v \in Int /\ w \in Int
  BY <1>1 DEF IInv, Typed, TypeOK, Frame, Versions
<1> QED
  BY <1>3, <1>4

\* A section drawn: the frame grows, or is complete and shown.
LEMMA DrawSectionHolds ==
  ASSUME IInv, DrawSection
  PROVE  IInv'
<1> DEFINE seen == Seen(snapshots[tui.held], Layout[tui.at])
<1>1. /\ Typed /\ Counted /\ TypeOK /\ Published \in Nat /\ flips \in Nat
      /\ tui \in [pc : TuiPlaces, held : 0 .. 1, at : Nat, layout : 1 .. Len(Layouts)]
      /\ tui.pc = "draw" => tui.at \in 1 .. Len(Layout)
  <2>1. Typed /\ Counted
    BY DEF IInv
  <2> QED
    BY <2>1, NumberFacts DEF Typed
<1>2. /\ pc # "killed" /\ tui.pc = "draw"
      /\ frame'.slow = frame.slow \cup seen.slow /\ frame' \in Frame
      /\ \A w \in seen.slow : \E f \in All \ Hot : w = Version(snapshots[tui.held], f)
      /\ InTime => /\ \A w \in frame'.slow : w = P(Published - flips)
                   /\ \A w \in frame'.hot : w >= P(Published - flips)
  BY SectionFacts
<1> HIDE DEF seen
<1>3. /\ UNCHANGED <<pc, running, now, filled, serving, snapshots, active_idx,
                     requests, quit, build, terminal, handlers, points, flips, owed>>
      /\ \/ tui' = [tui EXCEPT !.at = @ + 1] /\ shown' = shown
            /\ tui.at < Len(Layout)
         \/ /\ tui' = [tui EXCEPT !.pc = "key"]
            /\ shown' = [slow |-> frame'.slow, inTime |-> InTime]
  BY DEF DrawSection, engineVars, sharedVars
<1>4. Published' = Published /\ Back' = Back /\ Before' = Before
      /\ (InTime' = InTime) /\ \A n : P(n)' = P(n)
  BY <1>3 DEF Published, Back, Before, P, InTime, Copying
<1>5. /\ tui'.held = tui.held /\ tui'.pc \in {"draw", "key"}
      /\ tui'.layout = tui.layout
      /\ tui' \in [pc : TuiPlaces, held : 0 .. 1, at : Nat, layout : 1 .. Len(Layouts)]
      /\ tui'.pc = "draw" => tui'.at \in 1 .. Len(Layout) /\ shown' = shown
  BY <1>1, <1>2, <1>3, LayoutFacts DEF TuiPlaces
<1>6. Typed'
  <2>1. Layout' = Layout
    BY <1>3, <1>5 DEF Layout
  <2>2. shown' \in [slow : SUBSET Versions, inTime : BOOLEAN]
    <3>1. InTime \in BOOLEAN
      BY DEF InTime
    <3>2. frame'.slow \subseteq Versions
      BY <1>2 DEF Frame
    <3>3. CASE shown' = shown
      BY <1>1, <3>3 DEF TypeOK
    <3>4. CASE shown' = [slow |-> frame'.slow, inTime |-> InTime]
      BY <3>1, <3>2, <3>4
    <3> QED
      BY <1>3, <3>3, <3>4
  <2>3. TypeOK'
    BY <1>1, <1>2, <1>3, <1>5, <2>2 DEF TypeOK, TuiPlaces
  <2> QED
    BY <1>1, <1>3, <1>5, <2>1, <2>3 DEF Typed
<1>7. Counted'
  BY <1>1, <1>2, <1>3, <1>4 DEF Counted, AtWork
<1>8. FrontWhole'
  BY <1>3, <1>4 DEF IInv, FrontWhole
<1>9. BackWhole'
  BY <1>3, <1>4 DEF IInv, BackWhole, Writing
<1>10. FrameOfBuffer'
  <2>1. P(Published - flips)' = P(Published - flips)
    BY <1>3, <1>4 DEF P
  <2> QED
    BY <1>2, <1>3, <1>4, <1>5, <2>1 DEF IInv, FrameOfBuffer
<1>11. NotOlder'
  <2>1. CASE shown' = shown
    <3>1. \A f \in All \ Hot : Version(snapshots[tui.held], f)'
                               = Version(snapshots[tui.held], f)
      <4>1. tui'.held = tui.held /\ snapshots' = snapshots
        BY <1>3, <1>5
      <4> QED
        BY <4>1 DEF Version, Sparkline
    <3>2. shown.inTime => \A v \in shown.slow, w \in frame'.slow : v <= w
      <4> SUFFICES ASSUME shown.inTime, NEW v \in shown.slow, NEW w \in frame'.slow
                   PROVE  v <= w
        OBVIOUS
      <4>1. w >= v
        BY SectionNotOlder
      <4> QED
        BY <4>1
    <3> QED
      BY <1>2, <1>4, <2>1, <3>1, <3>2 DEF IInv, NotOlder
  <2>2. CASE shown' # shown
    <3>1. tui'.pc = "key" /\ shown' = [slow |-> frame'.slow, inTime |-> InTime]
      BY <1>1, <1>3, <2>2
    <3>2. InTime => P(Published - flips) <= P(Published)
      <4>1. Published - flips \in Int /\ Published - flips <= Published
        BY <1>1
      <4> QED
        BY <1>1, <4>1, PublishedInOrder
    <3> QED
      BY <1>2, <1>4, <3>1, <3>2 DEF NotOlder
  <2> QED
    BY <2>1, <2>2
<1> QED
  BY <1>6, <1>7, <1>8, <1>9, <1>10, <1>11 DEF IInv

\* The invariant is inductive: one case for each kind of step.
LEMMA IInvHolds == Spec => []IInv
<1>1. ASSUME IInv, [Next]_vars PROVE IInv'
  <2>1. CASE TickStores
    BY <1>1, <2>1, TickStoresHolds
  <2>2. CASE CarryHistory
    BY <1>1, <2>2, CarryHistoryHolds
  <2>3. CASE CopySnapshot
    BY <1>1, <2>3, CopySnapshotHolds
  <2>4. CASE AppendToGraphs
    BY <1>1, <2>4, AppendToGraphsHolds
  <2>5. CASE Publish
    BY <1>1, <2>5, PublishHolds
  <2>6. CASE BeginFrame
    BY <1>1, <2>6, BeginFrameHolds
  <2>7. CASE DrawSection
    BY <1>1, <2>7, DrawSectionHolds
  <2>8. CASE \/ Poll \/ CheckQuit \/ NoTick \/ ControllerTick \/ Leave \/ Join
             \/ \E r \in Requests : TakeRequest(r) \/ ServeRequest(r)
             \/ StartTui \/ ReadKey \/ SwitchLayout \/ EndTui \/ Interrupt
             \/ UNCHANGED vars
    BY <1>1, <2>8, QuietSteps
  <2> QED
    BY <1>1, <2>1, <2>2, <2>3, <2>4, <2>5, <2>6, <2>7, <2>8
       DEF Next, EngineNext, TuiNext, Stopped
<1> QED
  BY <1>1, InitHolds, PTL DEF Spec

\* Type correctness: the engine writes into the buffers that exist, the ring
\* indices of the graphs stay inside the ring, and the TUI draws a section its
\* layout has.
THEOREM ScreenTypeCorrect == Spec => []TypeOK
<1>1. IInv => TypeOK
  BY DEF IInv, Typed
<1> QED
  BY <1>1, IInvHolds, PTL

\* The graphs are carried from the front buffer to the back one before the new
\* point is appended (the slow path in main), so that the chart in front shows
\* the last points published, in order, none lost and none doubled, for rings of
\* any length and any number of publications.
THEOREM ChartsInOrder == Spec => []GraphInOrder
<1>1. IInv => GraphInOrder
  <2> SUFFICES ASSUME IInv PROVE GraphInOrder
    OBVIOUS
  <2>1. points \in Seq(Versions)
        /\ Holds(snapshots[active_idx].graph, Len(points), points)
    BY DEF IInv, Typed, TypeOK, FrontWhole, Published
  <2> QED
    BY <2>1, ChartShows, Zenon DEF GraphInOrder
<1> QED
  BY <1>1, IInvHolds, PTL

\* A frame drawn before the engine comes round to its buffer again shows one
\* slow path only, and what ticks store no older, whatever the layout; the
\* double buffer without a lock gives this much and no more.
THEOREM FramesWhole == Spec => []FrameWhole
<1>1. IInv => FrameWhole
  <2> SUFFICES ASSUME IInv, tui.pc \in {"draw", "key"}, InTime
               PROVE  /\ Cardinality(frame.slow) <= 1
                      /\ \A h \in frame.hot, s \in frame.slow : h >= s
    BY DEF FrameWhole
  <2> DEFINE v == P(Published - flips)
  <2>1. /\ \A s \in frame.slow : s = v
        /\ \A h \in frame.hot : h >= v
    BY DEF IInv, FrameOfBuffer
  <2>2. frame.slow = {} \/ frame.slow = {v}
    BY <2>1
  <2>3. Cardinality({}) = 0 /\ Cardinality({v}) = 1
    BY FS_EmptySet, FS_Singleton
  <2> HIDE DEF v
  <2>4. Cardinality(frame.slow) <= 1
    BY <2>2, <2>3
  <2> QED
    BY <2>1, <2>4
<1> QED
  BY <1>1, IInvHolds, PTL

\* The screen never goes back in time: a frame that replaces one drawn in time
\* shows no older slow path. Action property: it needs what the buffers in front
\* and behind hold when the frame is begun, and that the rings' last points
\* advance with them.
THEOREM FramesInOrder == Spec => FramesNeverGoBack
<1> DEFINE Newer == shown.inTime => \A v \in shown.slow, w \in shown'.slow : w >= v
<1>1. IInv /\ [Next]_vars => [Newer]_shown
  <2> SUFFICES ASSUME IInv, [Next]_vars, shown' # shown, shown.inTime
               PROVE  \A v \in shown.slow, w \in shown'.slow : w >= v
    OBVIOUS
  <2>1. DrawSection
    BY DEF Next, EngineNext, TuiNext, vars, engineVars, screenVars, sharedVars,
           Poll, CheckQuit, TakeRequest, ServeRequest, TickStores, NoTick,
           ControllerTick, CarryHistory, CopySnapshot, AppendToGraphs, Publish,
           Leave, Join, StartTui, BeginFrame, ReadKey, SwitchLayout, EndTui,
           Interrupt, Stopped
  <2>2. shown'.slow = frame'.slow
    BY <2>1 DEF DrawSection
  <2> QED
    BY <2>1, <2>2, SectionNotOlder
<1> QED
  BY <1>1, IInvHolds, PTL DEF Spec, FramesNeverGoBack
=============================================================================
