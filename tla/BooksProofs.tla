----------------------------- MODULE BooksProofs ----------------------------
(***************************************************************************)
(* Proofs about the amounts of the paper engine: the sums over positions   *)
(* and over rows of the log, the books and the trade log.                  *)
(***************************************************************************)
EXTENDS Books, SequenceTheorems, FiniteSetTheorems, WellFoundedInduction, TLAPS

PositionSet == [entry_price : Prices \cup {0}, quantity : Nat,
                paid : Nat, lot : 0 .. MaxBuys]
Exits == [position_index : Slots, exit_price : Prices,
          reason : Reasons, lot : 1 .. MaxBuys]
BookSet == [balance : Nat, realized_pnl : Int, total_fees : Nat,
            wins : Nat, losses : Nat, total_buys : Nat,
            gross_wins : Nat, gross_losses : Int]
Rings == [records : [0 .. LogCap - 1 -> Rows],
          head : 0 .. LogCap - 1, count : 0 .. LogCap]

\* What is held was bought.
HeldWasBought == \A i \in active_bitmap : positions[i].lot \in 1 .. MaxBuys

BooksInv == TypeOK /\ HeldWasBought /\ ProfitSplits /\ LogIsJournal

\* The part of the invariant that is about money, and about the log.
Split(b) == b.gross_wins - b.gross_losses = b.realized_pnl
Logged == csv \o Buffered(trade_buf) = journal

-----------------------------------------------------------------------------
(* The ring. *)

\* The slots of the ring: the k-th record from the oldest.
LEMMA RingIndex ==
  ASSUME NEW h \in 0 .. LogCap - 1, NEW n \in 0 .. LogCap, NEW k \in 1 .. n
  PROVE  /\ (h - n + LogCap) % LogCap \in 0 .. LogCap - 1
         /\ (((h - n + LogCap) % LogCap) + k - 1) % LogCap
              = IF h - n + k - 1 >= 0 THEN h - n + k - 1
                ELSE h - n + k - 1 + LogCap
         /\ (((h - n + LogCap) % LogCap) + k - 1) % LogCap \in 0 .. LogCap - 1
<1>1. LogCap \in Nat \ {0}
  BY BooksAssumption
<1> DEFINE a == h - n + LogCap
<1>2. a \in Nat /\ a < 2 * LogCap
  BY <1>1
<1>3. CASE a < LogCap
  <2>1. a % LogCap = a
    BY <1>1, <1>2, <1>3
  <2>2. a + k - 1 \in Nat /\ a + k - 1 < 2 * LogCap
    BY <1>1, <1>3
  <2> DEFINE b == a + k - 1
  <2>3. b < LogCap => b % LogCap = b
    BY <1>1, <2>2
  <2>4. b >= LogCap => b % LogCap = b - LogCap
    BY <1>1, <2>2
  <2>5. ((a % LogCap) + k - 1) % LogCap = b % LogCap
    BY <2>1
  <2> HIDE DEF b
  <2>6. b = h - n + k - 1 + LogCap /\ b \in Nat /\ b < 2 * LogCap
    BY <1>1, <2>2 DEF b
  <2>7. b % LogCap = IF h - n + k - 1 >= 0 THEN h - n + k - 1
                     ELSE h - n + k - 1 + LogCap
    BY <1>1, <2>3, <2>4, <2>6
  <2>8. b % LogCap \in 0 .. LogCap - 1
    BY <1>1, <2>3, <2>4, <2>6
  <2>9. a % LogCap \in 0 .. LogCap - 1
    BY <1>1, <1>2, <1>3, <2>1
  <2> QED
    BY <2>5, <2>7, <2>8, <2>9
<1>4. CASE a >= LogCap
  <2>1. a % LogCap = a - LogCap
    BY <1>1, <1>2, <1>4
  <2>2. h - n + k - 1 \in Nat /\ h - n + k - 1 < LogCap
    BY <1>1, <1>4
  <2> DEFINE b == h - n + k - 1
  <2>3. b % LogCap = b
    BY <1>1, <2>2
  <2>4. (a % LogCap) + k - 1 = b
    BY <1>1, <2>1
  <2>5. a % LogCap \in 0 .. LogCap - 1
    BY <1>1, <1>2, <1>4, <2>1
  <2> QED
    BY <1>1, <2>2, <2>3, <2>4, <2>5
<1> QED
  BY <1>1, <1>2, <1>3, <1>4

\* What waits in the ring is a sequence of rows.
LEMMA BufferedFacts ==
  ASSUME NEW buf \in Rings
  PROVE  /\ Buffered(buf) \in Seq(Rows)
         /\ Len(Buffered(buf)) = buf.count
         /\ \A k \in 1 .. buf.count :
              Buffered(buf)[k] =
                buf.records[(((buf.head - buf.count + LogCap) % LogCap) + k - 1) % LogCap]
<1>1. buf.head \in 0 .. LogCap - 1 /\ buf.count \in 0 .. LogCap
      /\ buf.records \in [0 .. LogCap - 1 -> Rows] /\ buf.count \in Nat
  BY BooksAssumption DEF Rings
<1> DEFINE start == (buf.head - buf.count + LogCap) % LogCap
           at(k) == buf.records[(start + k - 1) % LogCap]
<1>2. \A k \in 1 .. buf.count : (start + k - 1) % LogCap \in 0 .. LogCap - 1
  BY <1>1, RingIndex
<1>3. Buffered(buf) = [k \in 1 .. buf.count |-> at(k)]
  BY DEF Buffered
<1>4. \A k \in 1 .. buf.count : at(k) \in Rows
  BY <1>1, <1>2
<1> HIDE DEF at
<1>5. Buffered(buf) \in Seq(Rows) /\ Len(Buffered(buf)) = buf.count
  BY <1>1, <1>3, <1>4
<1>6. \A k \in 1 .. buf.count : Buffered(buf)[k] = at(k)
  BY <1>3
<1> QED
  BY <1>5, <1>6 DEF at

\* A push into a ring with room puts the row after those that wait.
LEMMA PushFacts ==
  ASSUME NEW buf \in Rings, NEW row \in Rows
  PROVE  /\ Push(buf, row) \in Rings
         /\ buf.count < LogCap =>
              Buffered(Push(buf, row)) = Append(Buffered(buf), row)
<1>1. LogCap \in Nat \ {0}
  BY BooksAssumption
<1>2. buf.head \in 0 .. LogCap - 1 /\ buf.count \in 0 .. LogCap
      /\ buf.records \in [0 .. LogCap - 1 -> Rows]
  BY DEF Rings
<1>3. CASE buf.count >= LogCap
  BY <1>1, <1>2, <1>3 DEF Push
<1>4. CASE buf.count < LogCap
  <2> DEFINE next == (buf.head + 1) % LogCap
             new  == [records |-> [buf.records EXCEPT ![buf.head] = row],
                      head |-> next, count |-> buf.count + 1]
  <2>1. Push(buf, row) = new
    BY <1>1, <1>2, <1>4 DEF Push
  <2>2. next = IF buf.head + 1 < LogCap THEN buf.head + 1 ELSE 0
    <3>1. buf.head + 1 < LogCap => next = buf.head + 1
      BY <1>1, <1>2
    <3>2. buf.head + 1 = LogCap => next = 0
      BY <1>1, <1>2
    <3> QED
      BY <1>1, <1>2, <3>1, <3>2
  <2> HIDE DEF next
  <2>3. next \in 0 .. LogCap - 1
    BY <1>1, <1>2, <2>2
  <2>4. new \in Rings
    BY <1>1, <1>2, <1>4, <2>3 DEF Rings
  <2>5. /\ new.head = next /\ new.count = buf.count + 1
        /\ new.records = [buf.records EXCEPT ![buf.head] = row]
    OBVIOUS
  <2> HIDE DEF new
  <2> DEFINE s == Buffered(buf)
             t == Buffered(new)
             old(k) == (((buf.head - buf.count + LogCap) % LogCap) + k - 1) % LogCap
             now(k) == (((new.head - new.count + LogCap) % LogCap) + k - 1) % LogCap
  <2>6. /\ s \in Seq(Rows) /\ Len(s) = buf.count
        /\ \A k \in 1 .. buf.count : s[k] = buf.records[old(k)]
        /\ t \in Seq(Rows) /\ Len(t) = buf.count + 1
        /\ \A k \in 1 .. buf.count + 1 : t[k] = new.records[now(k)]
    BY <2>4, <2>5, BufferedFacts
  <2>7. ASSUME NEW k \in 1 .. buf.count
        PROVE  old(k) = (IF buf.head - buf.count + k - 1 >= 0
                         THEN buf.head - buf.count + k - 1
                         ELSE buf.head - buf.count + k - 1 + LogCap)
               /\ old(k) \in 0 .. LogCap - 1
    BY <1>2, RingIndex
  <2>8. ASSUME NEW k \in 1 .. buf.count + 1
        PROVE  now(k) = (IF new.head - new.count + k - 1 >= 0
                         THEN new.head - new.count + k - 1
                         ELSE new.head - new.count + k - 1 + LogCap)
    <3>1. new.head \in 0 .. LogCap - 1 /\ new.count \in 0 .. LogCap
          /\ k \in 1 .. new.count
      BY <1>1, <1>2, <1>4, <2>3, <2>5
    <3> QED
      BY <3>1, RingIndex
  <2> HIDE DEF s, t, old, now
  \* The row goes where the oldest is not, and where the new last one is.
  <2>9. ASSUME NEW k \in 1 .. buf.count
        PROVE  now(k) = old(k) /\ old(k) # buf.head
    <3>1. k \in 1 .. buf.count + 1
      BY <1>1, <1>2
    <3>2. buf.head - buf.count \in Int /\ new.head \in Int /\ new.count \in Int
      BY <1>1, <1>2, <2>3, <2>5
    <3>3. /\ buf.head \in 0 .. LogCap - 1 /\ buf.count \in 0 .. LogCap - 1
          /\ new.count = buf.count + 1
          /\ new.head = IF buf.head + 1 < LogCap THEN buf.head + 1 ELSE 0
      BY <1>1, <1>2, <1>4, <2>2, <2>5
    <3>4. now(k) = IF new.head - new.count + k - 1 >= 0
                   THEN new.head - new.count + k - 1
                   ELSE new.head - new.count + k - 1 + LogCap
      BY <2>8, <3>1
    <3>5. CASE buf.head + 1 < LogCap
      BY <1>1, <2>7, <3>3, <3>4, <3>5
    <3>6. CASE buf.head + 1 = LogCap
      BY <1>1, <2>7, <3>3, <3>4, <3>6
    <3> QED
      BY <1>1, <3>3, <3>5, <3>6
  <2>10. now(buf.count + 1) = buf.head
    <3> DEFINE last == buf.count + 1
    <3>1. last \in 1 .. buf.count + 1 /\ new.count = last
      BY <1>1, <1>2, <2>5
    <3>2. now(last) = IF new.head - new.count + last - 1 >= 0
                      THEN new.head - new.count + last - 1
                      ELSE new.head - new.count + last - 1 + LogCap
      BY <2>8, <3>1
    <3> HIDE DEF last
    <3>3. new.head - new.count + last - 1 = new.head - 1
      BY <1>1, <1>2, <2>3, <2>5, <3>1
    <3>4. new.head = IF buf.head + 1 < LogCap THEN buf.head + 1 ELSE 0
      BY <2>2, <2>5
    <3>5. now(last) = buf.head
      BY <1>1, <1>2, <3>2, <3>3, <3>4
    <3> QED
      BY <3>5 DEF last
  <2>11. \A k \in 1 .. buf.count : t[k] = s[k]
    <3> SUFFICES ASSUME NEW k \in 1 .. buf.count PROVE t[k] = s[k]
      OBVIOUS
    <3>1. k \in 1 .. buf.count + 1
      BY <1>1, <1>2
    <3>2. t[k] = new.records[old(k)] /\ s[k] = buf.records[old(k)]
      BY <2>6, <2>9, <3>1
    <3>3. old(k) \in 0 .. LogCap - 1 /\ old(k) # buf.head
      BY <2>7, <2>9
    <3> QED
      BY <1>2, <2>5, <3>2, <3>3
  <2>12. t[buf.count + 1] = row
    <3>1. buf.count + 1 \in 1 .. buf.count + 1
      BY <1>1, <1>2
    <3> QED
      BY <1>2, <2>5, <2>6, <2>10, <3>1
  <2>13. t = Append(s, row)
    <3>1. /\ Append(s, row) \in Seq(Rows) /\ Len(Append(s, row)) = buf.count + 1
          /\ \A k \in 1 .. buf.count : Append(s, row)[k] = s[k]
          /\ Append(s, row)[buf.count + 1] = row
      BY <2>6
    <3>2. \A k \in 1 .. buf.count + 1 : t[k] = Append(s, row)[k]
      BY <1>1, <1>2, <2>11, <2>12, <3>1
    <3> QED
      BY <2>6, <3>1, <3>2, SeqEqual
  <2> QED
    BY <2>1, <2>4, <2>13 DEF s, t
<1> QED
  BY <1>1, <1>2, <1>3, <1>4

-----------------------------------------------------------------------------
(* The log. *)

\* Logging a row keeps file and ring together the journal.
LEMMA LogFacts ==
  ASSUME BooksInv, pc # "close", NEW row \in Rows, Log(row)
  PROVE  /\ trade_buf' \in Rings /\ csv' \in Seq(Rows)
         /\ journal' \in Seq(Rows) /\ dropped' \in BOOLEAN
         /\ Logged'
<1>1. /\ trade_buf \in Rings /\ csv \in Seq(Rows) /\ journal \in Seq(Rows)
      /\ dropped \in BOOLEAN
  BY DEF BooksInv, TypeOK, Rings
<1>2. csv \o Buffered(trade_buf) = journal
  BY DEF BooksInv, LogIsJournal
<1>3. csv' = csv /\ trade_buf' = Push(trade_buf, row)
  BY DEF Log
<1>4. trade_buf' \in Rings
  BY <1>1, <1>3, PushFacts
<1>5. LogCap \in Nat /\ trade_buf.count \in Int
  BY <1>1, BooksAssumption DEF Rings
<1>6. CASE trade_buf.count < LogCap
  <2>1. journal' = Append(journal, row) /\ dropped' = dropped
    BY <1>6 DEF Log
  <2>2. Buffered(trade_buf') = Append(Buffered(trade_buf), row)
    BY <1>1, <1>3, <1>6, PushFacts
  <2>3. Buffered(trade_buf) \in Seq(Rows)
    BY <1>1, BufferedFacts
  <2>4. \A a, b \in Seq(Rows) : Append(a \o b, row) = a \o Append(b, row)
    <3> SUFFICES ASSUME NEW a \in Seq(Rows), NEW b \in Seq(Rows)
                 PROVE  Append(a \o b, row) = a \o Append(b, row)
      OBVIOUS
    <3>1. /\ a \o b \in Seq(Rows) /\ Append(b, row) \in Seq(Rows)
          /\ Len(a) \in Nat /\ Len(b) \in Nat
      OBVIOUS
    <3>2. /\ Append(a \o b, row) \in Seq(Rows)
          /\ a \o Append(b, row) \in Seq(Rows)
          /\ Len(Append(a \o b, row)) = Len(a) + Len(b) + 1
          /\ Len(a \o Append(b, row)) = Len(a) + Len(b) + 1
      BY <3>1
    <3>3. \A k \in 1 .. Len(a) + Len(b) + 1 :
            Append(a \o b, row)[k] = (a \o Append(b, row))[k]
      BY <3>1
    <3> QED
      BY <3>2, <3>3, SeqEqual
  <2>5. csv' \o Buffered(trade_buf') = journal'
    BY <1>1, <1>2, <1>3, <2>1, <2>2, <2>3, <2>4
  <2> QED
    BY <1>1, <1>3, <1>4, <2>1, <2>5 DEF Logged
<1>7. CASE trade_buf.count >= LogCap
  <2>1. journal' = journal /\ dropped' = TRUE
    BY <1>5, <1>7 DEF Log
  <2>2. trade_buf' = trade_buf
    BY <1>3, <1>7 DEF Push
  <2> QED
    BY <1>1, <1>2, <1>3, <1>4, <2>1, <2>2 DEF Logged
<1> QED
  BY <1>5, <1>6, <1>7

\* An empty ring holds no record, at whatever place its head is.
LEMMA EmptyBuffered ==
  ASSUME NEW buf \in Rings, buf.count = 0
  PROVE  Buffered(buf) = <<>>
<1>1. Buffered(buf) \in Seq(Rows) /\ Len(Buffered(buf)) = 0
  BY BufferedFacts
<1> QED
  BY <1>1

\* The ring the session starts with is a ring and holds nothing.
LEMMA EmptyRingFacts ==
  MaxBuys \in Nat => EmptyRing \in Rings /\ Buffered(EmptyRing) = <<>>
<1> SUFFICES ASSUME MaxBuys \in Nat
             PROVE  EmptyRing \in Rings /\ Buffered(EmptyRing) = <<>>
  OBVIOUS
<1>1. NoRow \in Rows
  BY DEF NoRow, Row, Rows
<1>2. EmptyRing \in Rings /\ EmptyRing.count = 0
  BY <1>1, BooksAssumption DEF EmptyRing, Rings
<1> QED
  BY <1>2, EmptyBuffered

-----------------------------------------------------------------------------
(* The money. *)

\* A percentage of an amount is part of it.
LEMMA PortionFacts ==
  ASSUME NEW x \in Nat, NEW rate \in 0 .. 100
  PROVE  Portion(x, rate) \in Nat /\ Portion(x, rate) <= x
<1>1. x * rate \in Nat /\ x * rate <= x * 100
  OBVIOUS
<1> QED
  BY <1>1 DEF Portion

\* A fee is part of what it is taken from.
LEMMA FeeFacts ==
  ASSUME TypeOK, NEW x \in Nat
  PROVE  Fee(x) \in Nat /\ Fee(x) <= x
<1>1. fee_rate \in 0 .. 100
  BY BooksAssumption DEF TypeOK
<1> QED
  BY <1>1, PortionFacts DEF Fee

\* The amounts of a sale.
LEMMA SaleFacts ==
  ASSUME TypeOK, NEW i \in Slots, NEW at \in Prices
  PROVE  /\ Sale(positions[i], at).net \in Nat
         /\ Sale(positions[i], at).fee \in Nat
         /\ Sale(positions[i], at).pnl \in Int
         /\ positions[i].lot \in 0 .. MaxBuys
<1> DEFINE pos == positions[i]
           gross == at * pos.quantity
<1>1. pos \in PositionSet
  BY DEF TypeOK, PositionSet
<1>2. /\ pos.quantity \in Nat /\ pos.entry_price \in Nat /\ at \in Nat
      /\ pos.lot \in 0 .. MaxBuys
  <2>1. pos.quantity \in Nat /\ pos.entry_price \in Prices \cup {0}
        /\ pos.lot \in 0 .. MaxBuys
    BY <1>1 DEF PositionSet
  <2>2. \A p \in Prices : p \in Nat
    BY BooksAssumption
  <2>3. at \in Nat
    BY <2>2
  <2>4. pos.entry_price \in Nat
    BY <2>1, <2>2
  <2> QED
    BY <2>1, <2>3, <2>4
<1>3. gross \in Nat /\ Cost(pos) \in Nat
  BY <1>2 DEF Cost
<1>4. /\ Sale(pos, at).net = gross - Fee(gross)
      /\ Sale(pos, at).fee = Fee(gross)
      /\ Sale(pos, at).pnl = (gross - Fee(gross)) - (Cost(pos) + Fee(Cost(pos)))
  BY DEF Sale
<1> HIDE DEF pos, gross
<1>5. Fee(gross) \in Nat /\ Fee(gross) <= gross /\ Fee(Cost(pos)) \in Nat
  BY <1>3, FeeFacts
<1>6. Sale(pos, at).net \in Nat /\ Sale(pos, at).fee \in Nat
      /\ Sale(pos, at).pnl \in Int
  BY <1>3, <1>4, <1>5
<1> QED
  BY <1>2, <1>6 DEF pos

\* Every way to book a sale keeps the amounts what they are; a take profit, a
\* stop loss and a time exit also keep the two sums apart by the profit.
LEMMA BookedFacts ==
  ASSUME books \in BookSet, NEW sale, sale.net \in Nat, sale.fee \in Nat,
         sale.pnl \in Int
  PROVE  /\ \A reason \in Reasons :
              /\ ExitBooked(sale, reason) \in BookSet
              /\ Split(books) => Split(ExitBooked(sale, reason))
         /\ TimeExitBooked(sale) \in BookSet
         /\ Split(books) => Split(TimeExitBooked(sale))
         /\ ForcedCloseBooked(sale) \in BookSet
<1>1. /\ books.balance \in Nat /\ books.realized_pnl \in Int
      /\ books.total_fees \in Nat /\ books.wins \in Nat /\ books.losses \in Nat
      /\ books.total_buys \in Nat /\ books.gross_wins \in Nat
      /\ books.gross_losses \in Int
  BY DEF BookSet
<1> DEFINE cash   == Cash(sale)
           b0     == books.balance + sale.net
           profit == books.realized_pnl + sale.pnl
           fees   == books.total_fees + sale.fee
<1>2. b0 \in Nat /\ profit \in Int /\ fees \in Nat
  BY <1>1
<1>3. cash = [books EXCEPT !.balance = b0, !.realized_pnl = profit,
                           !.total_fees = fees]
  BY DEF Cash
<1> HIDE DEF cash, b0, profit, fees
<1>4. /\ cash \in BookSet /\ cash.realized_pnl = profit
      /\ cash.gross_wins = books.gross_wins
      /\ cash.gross_losses = books.gross_losses
      /\ cash.wins = books.wins /\ cash.losses = books.losses
  BY <1>2, <1>3 DEF BookSet
<1>5. /\ Gain(sale.pnl) \in Nat /\ Loss(sale.pnl) \in Nat
      /\ Gain(sale.pnl) - Loss(sale.pnl) = sale.pnl
  BY DEF Gain, Loss
<1> DEFINE lost == cash.losses + 1
<1>6. lost \in Nat
  BY <1>1, <1>4
<1>7. ASSUME NEW reason \in Reasons
      PROVE  /\ ExitBooked(sale, reason) \in BookSet
             /\ Split(books) => Split(ExitBooked(sale, reason))
  <2> DEFINE b  == ExitBooked(sale, reason)
             w  == cash.wins + (IF reason = "TP" THEN 1 ELSE 0)
             l  == cash.losses + (IF reason = "SL" THEN 1 ELSE 0)
             gw == cash.gross_wins + Gain(sale.pnl)
             gl == cash.gross_losses + Loss(sale.pnl)
  <2>1. w \in Nat /\ l \in Nat /\ gw \in Nat /\ gl \in Int
    BY <1>1, <1>4, <1>5
  <2>2. b = [cash EXCEPT !.wins = w, !.losses = l, !.gross_wins = gw,
                         !.gross_losses = gl]
    BY DEF ExitBooked, cash
  <2>3. gw = books.gross_wins + Gain(sale.pnl)
        /\ gl = books.gross_losses + Loss(sale.pnl)
    BY <1>4
  <2> HIDE DEF b, w, l, gw, gl
  <2>4. /\ b \in BookSet /\ b.realized_pnl = profit
        /\ b.gross_wins = gw /\ b.gross_losses = gl
    BY <1>4, <2>1, <2>2 DEF BookSet
  <2>5. Split(books) => Split(b)
    BY <1>1, <1>5, <2>3, <2>4 DEF Split, profit
  <2> QED
    BY <2>4, <2>5 DEF b
<1>8. /\ TimeExitBooked(sale) \in BookSet
      /\ Split(books) => Split(TimeExitBooked(sale))
  <2> DEFINE b  == TimeExitBooked(sale)
             gl == cash.gross_losses - sale.pnl
  <2>1. gl \in Int /\ gl = books.gross_losses - sale.pnl
    BY <1>1, <1>4
  <2>2. b = [cash EXCEPT !.losses = lost, !.gross_losses = gl]
    BY DEF TimeExitBooked, cash
  <2> HIDE DEF b, gl, lost
  <2>3. /\ b \in BookSet /\ b.realized_pnl = profit
        /\ b.gross_wins = books.gross_wins /\ b.gross_losses = gl
    BY <1>4, <1>6, <2>1, <2>2 DEF BookSet
  <2>4. Split(books) => Split(b)
    BY <1>1, <2>1, <2>3 DEF Split, profit
  <2> QED
    BY <2>3, <2>4 DEF b
<1>9. ForcedCloseBooked(sale) \in BookSet
  <2>1. ForcedCloseBooked(sale) = [cash EXCEPT !.losses = lost]
    BY DEF ForcedCloseBooked, cash
  <2> HIDE DEF lost
  <2> QED
    BY <1>4, <1>6, <2>1 DEF BookSet
<1> QED
  BY <1>7, <1>8, <1>9

-----------------------------------------------------------------------------
(* The steps. *)

\* The assumptions on the constants, one by one.
LEMMA Constants ==
  /\ NSlots \in Nat \ {0} /\ BufCap \in Nat \ {0} /\ LogCap \in Nat \ {0}
  /\ MaxBuys \in Nat /\ Starting \in Nat /\ Risk \in 0 .. 100
  /\ \A p \in Prices : p \in Nat /\ p > 0
<1>1. \A n \in {NSlots, BufCap, LogCap} : n \in Nat \ {0}
  BY BooksAssumption
<1>2. NSlots \in Nat \ {0} /\ BufCap \in Nat \ {0} /\ LogCap \in Nat \ {0}
  BY <1>1
<1>3. MaxBuys \in Nat /\ Starting \in Nat /\ Risk \in 0 .. 100
  BY BooksAssumption
<1>4. ASSUME NEW p \in Prices PROVE p \in Nat /\ p > 0
  <2>1. p \in Nat \ {0}
    BY BooksAssumption
  <2> QED
    BY <2>1
<1> QED
  BY <1>2, <1>3, <1>4

\* The books, positions and log of the start.
LEMMA StartFacts ==
  /\ InitialBooks \in BookSet /\ Split(InitialBooks)
  /\ NoPosition \in PositionSet
  /\ EmptyRing \in Rings /\ <<>> \o Buffered(EmptyRing) = <<>>
<1>1. InitialBooks \in BookSet /\ Split(InitialBooks)
  BY Constants DEF InitialBooks, BookSet, Split
<1>2. NoPosition \in PositionSet
  BY Constants DEF NoPosition, PositionSet
<1>3. EmptyRing \in Rings /\ Buffered(EmptyRing) = <<>>
  BY Constants, EmptyRingFacts
<1> QED
  BY <1>1, <1>2, <1>3

\* The invariant holds at the start.
LEMMA InitHolds == Init => BooksInv
<1> SUFFICES ASSUME Init PROVE BooksInv
  OBVIOUS
<1>1. 1 \in 1 .. MaxBuys + 1 /\ 0 <= BufCap
  BY Constants
<1>2. TypeOK
  <2>1. /\ <<>> \in Seq(Exits) /\ <<>> \in Seq(Rows) /\ Len(<<>>) = 0
    OBVIOUS
  <2>2. /\ exit_buf \in Seq(Exits) /\ Len(exit_buf) <= BufCap
        /\ csv \in Seq(Rows) /\ journal \in Seq(Rows)
    BY <1>1, <2>1 DEF Init
  <2>3. positions \in [Slots -> PositionSet] /\ trade_buf \in Rings
        /\ books \in BookSet /\ active_bitmap \subseteq Slots
    BY StartFacts DEF Init
  <2>4. /\ pc \in {"run", "drain", "time_exit", "close"} /\ price \in Prices
        /\ fee_rate \in FeeRates /\ start_rate \in FeeRates
        /\ file_open \in BOOLEAN /\ dropped \in BOOLEAN /\ exact \in BOOLEAN
        /\ next_lot \in 1 .. MaxBuys + 1
    BY <1>1 DEF Init
  <2> QED
    BY <2>2, <2>3, <2>4 DEF TypeOK, BookSet, PositionSet, Rings, Exits
<1>3. ProfitSplits /\ LogIsJournal /\ HeldWasBought
  BY StartFacts DEF Init, ProfitSplits, LogIsJournal, HeldWasBought, Split
<1> QED
  BY <1>2, <1>3 DEF BooksInv

\* Between purchases and sales nothing moves in books and log.
LEMMA QuietHolds ==
  ASSUME BooksInv,
         \/ \E p \in Prices : NewPrice(p)
         \/ \E rate \in FeeRates : HotReload(rate)
         \/ SlowPath \/ DrainDone \/ SessionEnds
         \/ UNCHANGED vars
  PROVE  BooksInv'
<1>1. UNCHANGED <<books, trade_buf, csv, journal, dropped, slotVars, exact,
                  start_rate, file_open>>
      /\ (pc # "close" \/ pc' = pc)
  BY DEF NewPrice, HotReload, SlowPath, DrainDone, SessionEnds, vars, logVars,
         rateVars, marketVars
<1>2. /\ pc' \in {"run", "drain", "time_exit", "close"} /\ price' \in Prices
      /\ fee_rate' \in FeeRates
  BY DEF BooksInv, TypeOK, NewPrice, HotReload, SlowPath, DrainDone,
         SessionEnds, vars, marketVars, rateVars
<1>3. TypeOK'
  BY <1>1, <1>2 DEF BooksInv, TypeOK, slotVars
<1>4. HeldWasBought'
  BY <1>1 DEF BooksInv, HeldWasBought, slotVars
<1>5. ProfitSplits' /\ LogIsJournal'
  BY <1>1 DEF BooksInv, ProfitSplits, LogIsJournal, Buffered
<1> QED
  BY <1>3, <1>4, <1>5 DEF BooksInv

\* The exit gate keeps it.
LEMMA HitHolds ==
  ASSUME BooksInv, NEW i \in Slots, NEW reason \in Reasons, Hit(i, reason)
  PROVE  BooksInv'
<1> DEFINE rec == [position_index |-> i, exit_price |-> price,
                   reason |-> reason, lot |-> positions[i].lot]
<1>1. UNCHANGED <<pc, price, positions, next_lot, books, rateVars, logVars, exact>>
  BY DEF Hit, marketVars
<1>2. rec \in Exits
  BY DEF Hit, Exits, BooksInv, TypeOK, HeldWasBought
<1>3. exit_buf' = Append(exit_buf, rec) /\ Len(exit_buf) < BufCap
  BY DEF Hit
<1> HIDE DEF rec
<1>4. exit_buf \in Seq(Exits)
  BY DEF BooksInv, TypeOK, Exits
<1>5. exit_buf' \in Seq(Exits) /\ Len(exit_buf') <= BufCap
  BY <1>2, <1>3, <1>4, Constants
<1>6. active_bitmap' \subseteq active_bitmap
  BY DEF Hit
<1>7. TypeOK'
  BY <1>1, <1>5, <1>6 DEF BooksInv, TypeOK, rateVars, logVars, Exits
<1>8. HeldWasBought'
  BY <1>1, <1>6 DEF BooksInv, HeldWasBought
<1>9. ProfitSplits' /\ LogIsJournal'
  BY <1>1 DEF BooksInv, ProfitSplits, LogIsJournal, Buffered, logVars
<1> QED
  BY <1>7, <1>8, <1>9 DEF BooksInv

\* A purchase keeps it.
LEMMA BuyHolds ==
  ASSUME BooksInv, NEW p \in Prices, Buy(p)
  PROVE  BooksInv'
<1> DEFINE sized == Portion(books.balance, Risk) \div p
           cost  == p * sized
           fee   == Fee(cost)
           left  == books.balance - (cost + fee)
           fees  == books.total_fees + fee
           buys  == books.total_buys + 1
           row   == Row("BUY", next_lot, fee, left)
           new   == [entry_price |-> p, quantity |-> sized, paid |-> fee,
                     lot |-> next_lot]
<1>1. books \in BookSet /\ TypeOK /\ pc = "run"
  BY DEF BooksInv, TypeOK, BookSet, Buy
<1>2. /\ books.balance \in Nat /\ books.total_fees \in Nat
      /\ books.total_buys \in Nat
  BY <1>1 DEF BookSet
<1>3. sized \in Nat /\ cost \in Nat
  <2>1. Portion(books.balance, Risk) \in Nat
    BY <1>2, Constants, PortionFacts
  <2>2. p \in Nat /\ p > 0
    BY Constants
  <2> HIDE DEF sized
  <2>3. sized \in Nat
    BY <2>1, <2>2 DEF sized
  <2> QED
    BY <2>2, <2>3
<1> HIDE DEF cost
<1>4. fee \in Nat
  BY <1>1, <1>3, FeeFacts
<1>5. books.balance >= cost + fee /\ next_lot \in 1 .. MaxBuys
  BY <1>1, Constants DEF Buy, Affords, cost, TypeOK
<1>6. books' = [books EXCEPT !.balance = left, !.total_fees = fees,
                             !.total_buys = buys]
  BY DEF Buy, cost
<1> HIDE DEF fee
<1>7. left \in Nat /\ fees \in Nat /\ buys \in Nat
  BY <1>2, <1>3, <1>4, <1>5
<1>8. PICK slot \in Slots :
        /\ active_bitmap' = active_bitmap \cup {slot}
        /\ positions' = [positions EXCEPT ![slot] = new]
  BY DEF Buy, cost, fee
<1>9. Log(Row("BUY", next_lot, fee, books'.balance)) /\ next_lot' = next_lot + 1
  BY DEF Buy, cost, fee
<1>10. UNCHANGED <<pc, price, exit_buf, rateVars, exact>>
  BY DEF Buy, marketVars
<1> HIDE DEF sized, left, fees, buys
<1>11. /\ books' \in BookSet /\ books'.balance = left
       /\ books'.realized_pnl = books.realized_pnl
       /\ books'.gross_wins = books.gross_wins
       /\ books'.gross_losses = books.gross_losses
  BY <1>1, <1>6, <1>7 DEF BookSet
<1>12. row \in Rows
  BY <1>4, <1>5, <1>7 DEF Row, Rows
<1>13. Log(row)
  BY <1>9, <1>11
<1>14. new \in PositionSet
  BY <1>3, <1>4, <1>5 DEF PositionSet
<1>15. new.lot = next_lot
  OBVIOUS
<1> HIDE DEF row, new
<1>16. /\ trade_buf' \in Rings /\ csv' \in Seq(Rows) /\ journal' \in Seq(Rows)
       /\ dropped' \in BOOLEAN /\ Logged'
  BY <1>1, <1>12, <1>13, LogFacts
<1>17. /\ positions' \in [Slots -> PositionSet]
       /\ positions'[slot] = new
       /\ \A i \in active_bitmap \ {slot} : positions'[i] = positions[i]
       /\ active_bitmap' \subseteq Slots
  BY <1>1, <1>8, <1>14 DEF TypeOK, PositionSet
<1>18. next_lot' \in 1 .. MaxBuys + 1
  BY <1>5, <1>9, Constants
<1>19. TypeOK'
  BY <1>1, <1>10, <1>11, <1>16, <1>17, <1>18
     DEF TypeOK, BookSet, Rings, PositionSet, rateVars
<1>20. HeldWasBought'
  BY <1>5, <1>8, <1>15, <1>17 DEF BooksInv, HeldWasBought
<1>21. ProfitSplits'
  BY <1>10, <1>11 DEF BooksInv, ProfitSplits
<1>22. LogIsJournal'
  BY <1>16 DEF Logged, LogIsJournal
<1> QED
  BY <1>19, <1>20, <1>21, <1>22 DEF BooksInv

\* A sale that is booked and logged, of the position in slot i.
LEMMA SoldFacts ==
  ASSUME BooksInv, pc # "close", NEW i \in Slots, NEW at \in Prices,
         \/ \E reason \in Reasons : books' = ExitBooked(Sale(positions[i], at), reason)
         \/ books' = TimeExitBooked(Sale(positions[i], at)),
         Log(Row("SELL", positions[i].lot, Sale(positions[i], at).fee,
                 books'.balance))
  PROVE  /\ books' \in BookSet /\ Split(books')
         /\ trade_buf' \in Rings /\ csv' \in Seq(Rows) /\ journal' \in Seq(Rows)
         /\ dropped' \in BOOLEAN /\ Logged'
<1> DEFINE sale == Sale(positions[i], at)
           row  == Row("SELL", positions[i].lot, sale.fee, books'.balance)
<1>1. books \in BookSet /\ TypeOK /\ Split(books)
  BY DEF BooksInv, TypeOK, BookSet, ProfitSplits, Split
<1>2. /\ sale.net \in Nat /\ sale.fee \in Nat /\ sale.pnl \in Int
      /\ positions[i].lot \in 0 .. MaxBuys
  BY <1>1, SaleFacts
<1>3. \/ \E reason \in Reasons : books' = ExitBooked(sale, reason)
      \/ books' = TimeExitBooked(sale)
  OBVIOUS
<1>4. Log(row)
  OBVIOUS
<1> HIDE DEF sale
<1>5. books' \in BookSet /\ Split(books')
  BY <1>1, <1>2, <1>3, BookedFacts
<1>6. books'.balance \in Nat
  BY <1>5 DEF BookSet
<1>7. row \in Rows
  BY <1>2, <1>6 DEF Row, Rows
<1> HIDE DEF row
<1>8. /\ trade_buf' \in Rings /\ csv' \in Seq(Rows) /\ journal' \in Seq(Rows)
      /\ dropped' \in BOOLEAN /\ Logged'
  BY <1>4, <1>7, LogFacts
<1> QED
  BY <1>5, <1>8

\* Booking an exit keeps it.
LEMMA DrainExitHolds ==
  ASSUME BooksInv, DrainExit
  PROVE  BooksInv'
<1> DEFINE rec == Head(exit_buf)
           i   == rec.position_index
<1>1. exit_buf \in Seq(Exits) /\ exit_buf # <<>> /\ pc = "drain"
  BY DEF BooksInv, TypeOK, Exits, DrainExit
<1>2. rec \in Exits
  BY <1>1
<1>3. i \in Slots /\ rec.exit_price \in Prices /\ rec.reason \in Reasons
  BY <1>2 DEF Exits
<1>4. /\ books' = ExitBooked(Sale(positions[i], rec.exit_price), rec.reason)
      /\ Log(Row("SELL", positions[i].lot, Sale(positions[i], rec.exit_price).fee,
                 books'.balance))
  BY DEF DrainExit
<1>5. /\ exit_buf' = Tail(exit_buf) /\ exact' \in BOOLEAN
      /\ UNCHANGED <<pc, price, active_bitmap, positions, rateVars, next_lot>>
  BY DEF DrainExit, marketVars
<1> HIDE DEF rec, i
<1>6. /\ books' \in BookSet /\ Split(books')
      /\ trade_buf' \in Rings /\ csv' \in Seq(Rows) /\ journal' \in Seq(Rows)
      /\ dropped' \in BOOLEAN /\ Logged'
  BY <1>1, <1>3, <1>4, SoldFacts
<1>7. exit_buf' \in Seq(Exits) /\ Len(exit_buf') <= BufCap
  <2>1. exit_buf' \in Seq(Exits) /\ Len(exit_buf') = Len(exit_buf) - 1
    BY <1>1, <1>5, HeadTailProperties
  <2>2. Len(exit_buf) <= BufCap /\ Len(exit_buf) \in Nat
    BY <1>1 DEF BooksInv, TypeOK
  <2> QED
    BY <2>1, <2>2, Constants
<1>8. TypeOK'
  BY <1>5, <1>6, <1>7 DEF BooksInv, TypeOK, BookSet, Rings, Exits, rateVars
<1>9. HeldWasBought'
  BY <1>5 DEF BooksInv, HeldWasBought
<1>10. ProfitSplits' /\ LogIsJournal'
  BY <1>6 DEF ProfitSplits, LogIsJournal, Split, Logged
<1> QED
  BY <1>8, <1>9, <1>10 DEF BooksInv

\* An exit by time keeps it.
LEMMA TimeExitHolds ==
  ASSUME BooksInv, NEW i \in Slots, TimeExit(i)
  PROVE  BooksInv'
<1>1. price \in Prices /\ pc = "time_exit"
  BY DEF BooksInv, TypeOK, TimeExit
<1>2. /\ books' = TimeExitBooked(Sale(positions[i], price))
      /\ Log(Row("SELL", positions[i].lot, Sale(positions[i], price).fee,
                 books'.balance))
  BY DEF TimeExit
<1>3. /\ active_bitmap' \subseteq active_bitmap /\ exact' \in BOOLEAN
      /\ UNCHANGED <<pc, price, positions, exit_buf, rateVars, next_lot>>
  BY DEF TimeExit, marketVars
<1>4. /\ books' \in BookSet /\ Split(books')
      /\ trade_buf' \in Rings /\ csv' \in Seq(Rows) /\ journal' \in Seq(Rows)
      /\ dropped' \in BOOLEAN /\ Logged'
  BY <1>1, <1>2, SoldFacts
<1>5. TypeOK'
  BY <1>3, <1>4 DEF BooksInv, TypeOK, BookSet, Rings, rateVars
<1>6. HeldWasBought'
  BY <1>3 DEF BooksInv, HeldWasBought
<1>7. ProfitSplits' /\ LogIsJournal'
  BY <1>4 DEF ProfitSplits, LogIsJournal, Split, Logged
<1> QED
  BY <1>5, <1>6, <1>7 DEF BooksInv

\* Writing the log keeps it.
LEMMA DrainLogHolds ==
  ASSUME BooksInv, DrainLog
  PROVE  BooksInv'
<1>1. /\ trade_buf \in Rings /\ csv \in Seq(Rows) /\ journal \in Seq(Rows)
      /\ csv \o Buffered(trade_buf) = journal /\ pc = "time_exit"
  BY DEF BooksInv, TypeOK, LogIsJournal, DrainLog, Rings
<1>2. trade_buf' \in Rings /\ csv' \in Seq(Rows) /\ Logged'
  <2>1. CASE file_open
    <3>1. csv' = csv \o Buffered(trade_buf) /\ journal' = journal
          /\ trade_buf' = [trade_buf EXCEPT !.count = 0]
      BY <2>1 DEF DrainLog
    <3>2. trade_buf' \in Rings /\ trade_buf'.count = 0
      <4>1. 0 \in 0 .. LogCap
        BY Constants
      <4>2. \A buf \in Rings : [buf EXCEPT !.count = 0] \in Rings
                               /\ [buf EXCEPT !.count = 0].count = 0
        BY <4>1 DEF Rings
      <4> QED
        BY <1>1, <3>1, <4>2
    <3>3. Buffered(trade_buf') = <<>>
      BY <3>2, EmptyBuffered
    <3>4. csv' = journal
      BY <1>1, <3>1
    <3>5. csv' \o Buffered(trade_buf') = journal'
      <4>1. csv' \o <<>> = csv'
        BY <1>1, <3>4, ConcatEmptySeq
      <4> QED
        BY <3>1, <3>3, <3>4, <4>1
    <3> QED
      BY <1>1, <3>1, <3>2, <3>4, <3>5 DEF Logged, Buffered
  <2>2. CASE ~file_open
    BY <1>1, <2>2 DEF DrainLog, Logged, Buffered
  <2> QED
    BY <2>1, <2>2
<1>3. /\ pc' = "run"
      /\ UNCHANGED <<price, slotVars, books, rateVars, journal, dropped, exact>>
  BY DEF DrainLog
<1>4. TypeOK'
  BY <1>2, <1>3 DEF BooksInv, TypeOK, Rings, slotVars, rateVars
<1>5. HeldWasBought' /\ ProfitSplits'
  BY <1>1, <1>3 DEF BooksInv, HeldWasBought, ProfitSplits, slotVars
<1>6. LogIsJournal'
  BY <1>2 DEF Logged, LogIsJournal
<1> QED
  BY <1>4, <1>5, <1>6 DEF BooksInv

\* Closing by force keeps it.
LEMMA ForceCloseHolds ==
  ASSUME BooksInv, NEW i \in Slots, ForceClose(i)
  PROVE  BooksInv'
<1> DEFINE sale == Sale(positions[i], price)
           row  == Row("SELL", positions[i].lot, 0, books'.balance)
<1>1. books \in BookSet /\ price \in Prices /\ TypeOK /\ csv \in Seq(Rows)
  BY DEF BooksInv, TypeOK, BookSet
<1>2. /\ sale.net \in Nat /\ sale.fee \in Nat /\ sale.pnl \in Int
      /\ positions[i].lot \in 0 .. MaxBuys
  BY <1>1, SaleFacts
<1>3. books' = ForcedCloseBooked(sale) /\ pc = "close"
      /\ csv' = (IF file_open THEN Append(csv, row) ELSE csv)
  BY DEF ForceClose
<1>4. /\ active_bitmap' \subseteq active_bitmap /\ exact' \in BOOLEAN
      /\ UNCHANGED <<pc, price, positions, exit_buf, rateVars, trade_buf,
                     journal, dropped, next_lot>>
  BY DEF ForceClose, marketVars
<1> HIDE DEF sale
<1>5. books' \in BookSet
  BY <1>1, <1>2, <1>3, BookedFacts
<1>6. books'.balance \in Nat
  BY <1>5 DEF BookSet
<1>7. row \in Rows
  BY <1>2, <1>6 DEF Row, Rows
<1> HIDE DEF row
<1>8. csv' \in Seq(Rows)
  BY <1>1, <1>3, <1>7
<1>9. TypeOK'
  BY <1>4, <1>5, <1>8 DEF BooksInv, TypeOK, BookSet, rateVars
<1>10. HeldWasBought'
  BY <1>4 DEF BooksInv, HeldWasBought
<1>11. ProfitSplits' /\ LogIsJournal'
  BY <1>3, <1>4 DEF ProfitSplits, LogIsJournal
<1> QED
  BY <1>9, <1>10, <1>11 DEF BooksInv

\* The next session keeps it.
LEMMA NewSessionHolds ==
  ASSUME BooksInv, NewSession
  PROVE  BooksInv'
<1>1. /\ pc' = "run" /\ active_bitmap' = {}
      /\ positions' = [i \in Slots |-> NoPosition]
      /\ exit_buf' = <<>> /\ books' = InitialBooks /\ fee_rate' = start_rate
      /\ trade_buf' = EmptyRing /\ csv' = <<>> /\ journal' = <<>>
      /\ dropped' = FALSE /\ exact' = TRUE
      /\ UNCHANGED <<price, start_rate, file_open, next_lot>>
  BY DEF NewSession
<1>2. 0 <= BufCap
  BY Constants
<1>3. TypeOK'
  <2>1. /\ <<>> \in Seq(Exits) /\ <<>> \in Seq(Rows) /\ Len(<<>>) = 0
    OBVIOUS
  <2>2. /\ exit_buf' \in Seq(Exits) /\ Len(exit_buf') <= BufCap
        /\ csv' \in Seq(Rows) /\ journal' \in Seq(Rows)
    BY <1>1, <1>2, <2>1
  <2>3. /\ positions' \in [Slots -> PositionSet] /\ trade_buf' \in Rings
        /\ books' \in BookSet /\ active_bitmap' \subseteq Slots
    BY <1>1, StartFacts
  <2>4. /\ pc' \in {"run", "drain", "time_exit", "close"} /\ price' \in Prices
        /\ fee_rate' \in FeeRates /\ start_rate' \in FeeRates
        /\ file_open' \in BOOLEAN /\ dropped' \in BOOLEAN /\ exact' \in BOOLEAN
        /\ next_lot' \in 1 .. MaxBuys + 1
    BY <1>1 DEF BooksInv, TypeOK
  <2> QED
    BY <2>2, <2>3, <2>4 DEF TypeOK, BookSet, PositionSet, Rings, Exits
<1>4. HeldWasBought'
  BY <1>1 DEF HeldWasBought
<1>5. ProfitSplits'
  BY <1>1, StartFacts DEF ProfitSplits, Split
<1>6. Buffered(trade_buf)' = Buffered(EmptyRing)
  BY <1>1 DEF Buffered
<1>7. LogIsJournal'
  BY <1>1, <1>6, StartFacts DEF LogIsJournal
<1> QED
  BY <1>3, <1>4, <1>5, <1>7 DEF BooksInv

\* So it holds throughout.
LEMMA BooksInvHolds == Spec => []BooksInv
<1>1. ASSUME BooksInv, [Next]_vars PROVE BooksInv'
  <2>1. CASE \/ \E p \in Prices : NewPrice(p)
             \/ \E rate \in FeeRates : HotReload(rate)
             \/ SlowPath \/ DrainDone \/ SessionEnds
             \/ UNCHANGED vars
    BY <1>1, <2>1, QuietHolds
  <2>2. CASE \E p \in Prices : Buy(p)
    BY <1>1, <2>2, BuyHolds
  <2>3. CASE \E i \in Slots, reason \in Reasons : Hit(i, reason)
    BY <1>1, <2>3, HitHolds
  <2>4. CASE DrainExit
    BY <1>1, <2>4, DrainExitHolds
  <2>5. CASE \E i \in Slots : TimeExit(i)
    BY <1>1, <2>5, TimeExitHolds
  <2>6. CASE DrainLog
    BY <1>1, <2>6, DrainLogHolds
  <2>7. CASE \E i \in Slots : ForceClose(i)
    BY <1>1, <2>7, ForceCloseHolds
  <2>8. CASE NewSession
    BY <1>1, <2>8, NewSessionHolds
  <2> QED
    BY <1>1, <2>1, <2>2, <2>3, <2>4, <2>5, <2>6, <2>7, <2>8
       DEF Next, SlowPaths, Boundary
<1> QED
  BY <1>1, InitHolds, PTL DEF Spec

-----------------------------------------------------------------------------
(* Sums over finite sets. *)

(* Induction over the subsets of a finite set, in the form of a smallest   *)
(* counterexample.                                                         *)
LEMMA SmallestSubset ==
  ASSUME NEW S, IsFiniteSet(S), NEW Bad, Bad \subseteq SUBSET S, Bad # {}
  PROVE  \E T \in Bad : \A U \in Bad : U \subseteq T => U = T
<1>1. IsWellFoundedOn(StrictSubsetOrdering(S), FiniteSubsetsOf(S))
  BY FS_StrictSubsetOrderingWellFounded
<1>2. Bad \subseteq FiniteSubsetsOf(S)
  BY FS_FiniteSubsetsOfFinite
<1>3. PICK T \in Bad : \A U \in Bad : ~(<<U, T>> \in StrictSubsetOrdering(S))
  BY <1>1, <1>2, WFMin, Zenon
<1>4. \A U \in Bad : U \subseteq T /\ U # T => <<U, T>> \in StrictSubsetOrdering(S)
  BY DEF StrictSubsetOrdering
<1>5. \A U \in Bad : U \subseteq T => U = T
  BY <1>3, <1>4
<1> QED  BY <1>5

Pick(S) == CHOOSE x \in S : TRUE
Step(g, f, s) == IF s = {} THEN 0 ELSE f[Pick(s)] + g[s \ {Pick(s)}]
Sums(g, f, S) == g = [s \in SUBSET S |-> Step(g, f, s)]

\* Two functions that sum as the definition says agree where both are defined.
LEMMA SumsUnique ==
  ASSUME NEW f, NEW S, IsFiniteSet(S), NEW T, IsFiniteSet(T), NEW g, NEW h,
         Sums(g, f, S), Sums(h, f, T)
  PROVE  \A s \in SUBSET (S \cap T) : g[s] = h[s]
<1> DEFINE Bad == {s \in SUBSET (S \cap T) : g[s] # h[s]}
<1> SUFFICES ASSUME Bad # {} PROVE FALSE
  OBVIOUS
<1>1. IsFiniteSet(S \cap T)
  BY FS_Intersection
<1>2. Bad \subseteq SUBSET (S \cap T)
  OBVIOUS
<1>3. PICK s \in Bad : \A u \in Bad : u \subseteq s => u = s
  <2> HIDE DEF Bad
  <2> QED  BY <1>1, <1>2, SmallestSubset
<1>4. s \in SUBSET S /\ s \in SUBSET T /\ g[s] # h[s]
  OBVIOUS
<1>5. g[s] = Step(g, f, s) /\ h[s] = Step(h, f, s)
  BY <1>4 DEF Sums
<1>6. s # {}
  BY <1>4, <1>5 DEF Step
<1>7. Pick(s) \in s
  BY <1>6 DEF Pick
<1>8. g[s \ {Pick(s)}] = h[s \ {Pick(s)}]
  <2>1. s \ {Pick(s)} \subseteq s /\ s \ {Pick(s)} # s
    BY <1>7
  <2>2. s \ {Pick(s)} \in SUBSET (S \cap T)
    BY <1>4
  <2> QED  BY <1>3, <2>1, <2>2
<1> QED  BY <1>4, <1>5, <1>6, <1>8 DEF Step

\* There is such a function on every finite set.
LEMMA SumsExist ==
  ASSUME NEW f, NEW S, IsFiniteSet(S)
  PROVE  \E g : Sums(g, f, S)
<1> DEFINE Bad == {T \in SUBSET S : ~ \E g : Sums(g, f, T)}
<1> SUFFICES ASSUME Bad # {} PROVE FALSE
  OBVIOUS
<1>1. PICK T \in Bad : \A U \in Bad : U \subseteq T => U = T
  <2>1. Bad \subseteq SUBSET S
    OBVIOUS
  <2> HIDE DEF Bad
  <2> QED  BY <2>1, SmallestSubset
<1>2. T \in SUBSET S /\ ~ \E g : Sums(g, f, T)
  OBVIOUS
<1> DEFINE of(U) == CHOOSE g : Sums(g, f, U)
           at(s) == IF s = {} THEN 0
                    ELSE f[Pick(s)] + of(s \ {Pick(s)})[s \ {Pick(s)}]
           g == [s \in SUBSET T |-> at(s)]
<1>3. \A U \in SUBSET T : U # T => Sums(of(U), f, U)
  <2> TAKE U \in SUBSET T
  <2> HAVE U # T
  <2>1. U \in SUBSET S /\ U \notin Bad
    BY <1>1, <1>2
  <2>2. \E h : Sums(h, f, U)
    BY <2>1
  <2> HIDE DEF Bad
  <2> QED  BY <2>2
<1> HIDE DEF of, Bad
<1>4. \A s \in SUBSET T : s # T => at(s) = of(s)[s]
  <2> TAKE s \in SUBSET T
  <2> HAVE s # T
  <2>1. Sums(of(s), f, s)
    BY <1>3
  <2>2. of(s)[s] = Step(of(s), f, s)
    BY <2>1 DEF Sums
  <2>3. CASE s = {}
    BY <2>2, <2>3 DEF Step
  <2>4. CASE s # {}
    <3> DEFINE r == s \ {Pick(s)}
    <3>1. Pick(s) \in s
      BY <2>4 DEF Pick
    <3>2. r \in SUBSET T /\ r # T /\ r \subseteq s
      BY <3>1
    <3>3. Sums(of(r), f, r)
      BY <1>3, <3>2
    <3>4. IsFiniteSet(s) /\ IsFiniteSet(r)
      BY <1>2, <3>2, FS_Subset
    <3>5. r \in SUBSET (r \cap s)
      BY <3>2
    <3>6. of(r)[r] = of(s)[r]
      <4> HIDE DEF r
      <4> QED  BY <2>1, <3>3, <3>4, <3>5, SumsUnique
    <3> QED  BY <2>2, <2>4, <3>6 DEF Step
  <2> QED  BY <2>3, <2>4
<1>5. \A s \in SUBSET T : at(s) = Step(g, f, s)
  <2> TAKE s \in SUBSET T
  <2>1. CASE s = {}
    BY <2>1 DEF Step
  <2>2. CASE s # {}
    <3> DEFINE r == s \ {Pick(s)}
    <3>1. Pick(s) \in s
      BY <2>2 DEF Pick
    <3>2. r \in SUBSET T /\ r # T
      BY <3>1
    <3>3. g[r] = of(r)[r]
      BY <1>4, <3>2
    <3> QED  BY <2>2, <3>3 DEF Step
  <2> QED  BY <2>1, <2>2
<1>6. Sums(g, f, T)
  BY <1>5 DEF Sums
<1> QED  BY <1>2, <1>6

\* The community modules' sum is the value of such a function.
LEMMA SumIs ==
  ASSUME NEW f, NEW S
  PROVE  SumFunctionOnSet(f, S) = (CHOOSE g : Sums(g, f, S))[S]
BY DEF SumFunctionOnSet, FoldFunctionOnSet, MapThenFoldSet, Sums, Step, Pick

\* A sum over a finite set is the sum over one element less, plus that one's.
LEMMA SumFirst ==
  ASSUME NEW f, NEW S, IsFiniteSet(S)
  PROVE  SumFunctionOnSet(f, S) =
           IF S = {} THEN 0
           ELSE f[Pick(S)] + SumFunctionOnSet(f, S \ {Pick(S)})
<1> DEFINE r == S \ {Pick(S)}
           g == CHOOSE h : Sums(h, f, S)
           k == CHOOSE h : Sums(h, f, r)
<1>1. IsFiniteSet(r)
  BY FS_Difference
<1>2. Sums(g, f, S) /\ Sums(k, f, r)
  <2>1. \E h : Sums(h, f, S)
    BY SumsExist
  <2>2. \E h : Sums(h, f, r)
    <3> HIDE DEF r
    <3> QED  BY <1>1, SumsExist
  <2> HIDE DEF r
  <2> QED  BY <2>1, <2>2
<1>3. g[S] = Step(g, f, S)
  <2> HIDE DEF g
  <2> QED  BY <1>2 DEF Sums
<1>4. g[r] = k[r]
  <2>1. r \in SUBSET (S \cap r)
    OBVIOUS
  <2> HIDE DEF r, g, k
  <2> QED  BY <1>1, <1>2, <2>1, SumsUnique
<1>5. SumFunctionOnSet(f, S) = g[S] /\ SumFunctionOnSet(f, r) = k[r]
  BY SumIs
<1> HIDE DEF g, k
<1> QED  BY <1>3, <1>4, <1>5 DEF Step

\* The sum of integers is an integer, and the element may be any.
LEMMA SumOfIntegers ==
  ASSUME NEW f, NEW S, IsFiniteSet(S), \A x \in S : f[x] \in Int
  PROVE  SumFunctionOnSet(f, S) \in Int
<1> DEFINE Bad == {T \in SUBSET S : SumFunctionOnSet(f, T) \notin Int}
<1> SUFFICES ASSUME Bad # {} PROVE FALSE
  OBVIOUS
<1>1. PICK T \in Bad : \A U \in Bad : U \subseteq T => U = T
  <2>1. Bad \subseteq SUBSET S
    OBVIOUS
  <2> HIDE DEF Bad
  <2> QED  BY <2>1, SmallestSubset
<1>2. T \in SUBSET S /\ SumFunctionOnSet(f, T) \notin Int /\ IsFiniteSet(T)
  BY FS_Subset
<1>3. T # {}
  <2>1. T = {} => SumFunctionOnSet(f, T) = 0
    BY <1>2, SumFirst
  <2> QED  BY <1>2, <2>1
<1>4. Pick(T) \in T
  BY <1>3 DEF Pick
<1>5. SumFunctionOnSet(f, T \ {Pick(T)}) \in Int
  <2>1. T \ {Pick(T)} \subseteq T /\ T \ {Pick(T)} # T
    BY <1>4
  <2>2. T \ {Pick(T)} \in SUBSET S
    BY <1>2
  <2> QED  BY <1>1, <2>1, <2>2
<1>6. SumFunctionOnSet(f, T) = f[Pick(T)] + SumFunctionOnSet(f, T \ {Pick(T)})
  BY <1>2, <1>3, SumFirst
<1> QED  BY <1>2, <1>4, <1>5, <1>6

\* A sum over a finite set, one element taken out.
LEMMA SumRemove ==
  ASSUME NEW f, NEW S, IsFiniteSet(S), \A x \in S : f[x] \in Int, NEW y \in S
  PROVE  SumFunctionOnSet(f, S) = f[y] + SumFunctionOnSet(f, S \ {y})
<1> DEFINE Sum(T) == SumFunctionOnSet(f, T)
           Good(T) == \A z \in T : Sum(T) = f[z] + Sum(T \ {z})
           Bad == {T \in SUBSET S : ~Good(T)}
<1> SUFFICES ASSUME Bad # {} PROVE FALSE
  <2>1. S \notin Bad => Good(S)
    OBVIOUS
  <2> HIDE DEF Bad
  <2> QED  BY <2>1
<1>1. PICK T \in Bad : \A U \in Bad : U \subseteq T => U = T
  <2>1. Bad \subseteq SUBSET S
    OBVIOUS
  <2> HIDE DEF Bad
  <2> QED  BY <2>1, SmallestSubset
<1>2. PICK z \in T : T \in SUBSET S /\ Sum(T) # f[z] + Sum(T \ {z})
  OBVIOUS
<1>3. \A U \in SUBSET T : U # T => Good(U)
  BY <1>1, <1>2
<1> DEFINE x == Pick(T)
<1>4. x \in T
  BY <1>2 DEF Pick
<1> HIDE DEF x, Good, Bad
<1>5. Sum(T) = f[x] + Sum(T \ {x})
  <2>1. IsFiniteSet(T) /\ T # {}
    BY <1>2, FS_Subset
  <2> QED  BY <2>1, SumFirst DEF x
<1>6. x # z
  BY <1>2, <1>5
<1> DEFINE rx == T \ {x}  rz == T \ {z}  both == T \ {x, z}
<1>7. Sum(rx) = f[z] + Sum(both)
  <2>1. rx \in SUBSET T /\ rx # T /\ z \in rx /\ rx \ {z} = both
    BY <1>2, <1>4, <1>6
  <2>2. Good(rx)
    BY <1>3, <2>1
  <2> QED  BY <2>1, <2>2 DEF Good
<1>8. Sum(rz) = f[x] + Sum(both)
  <2>1. rz \in SUBSET T /\ rz # T /\ x \in rz /\ rz \ {x} = both
    BY <1>2, <1>4, <1>6
  <2>2. Good(rz)
    BY <1>3, <2>1
  <2> QED  BY <2>1, <2>2 DEF Good
<1>9. f[x] \in Int /\ f[z] \in Int /\ Sum(both) \in Int
  <2>1. both \in SUBSET S /\ T \in SUBSET S
    BY <1>2
  <2>2. IsFiniteSet(both)
    BY <2>1, FS_Subset
  <2>3. Sum(both) \in Int
    BY <2>1, <2>2, SumOfIntegers
  <2> QED  BY <1>2, <1>4, <2>3
<1> HIDE DEF Sum
<1> QED  BY <1>2, <1>5, <1>7, <1>8, <1>9

\* Sums of functions that agree on the set are the same.
LEMMA SumSame ==
  ASSUME NEW f, NEW h, NEW S, IsFiniteSet(S), \A x \in S : f[x] = h[x]
  PROVE  SumFunctionOnSet(f, S) = SumFunctionOnSet(h, S)
<1> DEFINE Bad == {T \in SUBSET S : SumFunctionOnSet(f, T) # SumFunctionOnSet(h, T)}
<1> SUFFICES ASSUME Bad # {} PROVE FALSE
  OBVIOUS
<1>1. PICK T \in Bad : \A U \in Bad : U \subseteq T => U = T
  <2>1. Bad \subseteq SUBSET S
    OBVIOUS
  <2> HIDE DEF Bad
  <2> QED  BY <2>1, SmallestSubset
<1>2. T \in SUBSET S /\ SumFunctionOnSet(f, T) # SumFunctionOnSet(h, T)
  OBVIOUS
<1>3. IsFiniteSet(T)
  BY <1>2, FS_Subset
<1>4. T # {}
  <2>1. T = {} => SumFunctionOnSet(f, T) = 0 /\ SumFunctionOnSet(h, T) = 0
    BY <1>3, SumFirst
  <2> QED  BY <1>2, <2>1
<1>5. Pick(T) \in T
  BY <1>4 DEF Pick
<1> DEFINE r == T \ {Pick(T)}
<1>6. SumFunctionOnSet(f, r) = SumFunctionOnSet(h, r)
  <2>1. r \subseteq T /\ r # T /\ r \in SUBSET S
    BY <1>2, <1>5
  <2> QED  BY <1>1, <2>1
<1>7. /\ SumFunctionOnSet(f, T) = f[Pick(T)] + SumFunctionOnSet(f, r)
      /\ SumFunctionOnSet(h, T) = h[Pick(T)] + SumFunctionOnSet(h, r)
  BY <1>3, <1>4, SumFirst
<1> QED  BY <1>2, <1>5, <1>6, <1>7

-----------------------------------------------------------------------------
(* The cash against profit and purchases. *)

\* No two of the lots that are held or wait are the same, and all were bought.
LotsApart ==
  /\ \A i \in active_bitmap : positions[i].lot < next_lot
  /\ \A i, j \in active_bitmap : positions[i].lot = positions[j].lot => i = j
  /\ \A k \in DOMAIN exit_buf :
       /\ exit_buf[k].lot < next_lot
       /\ \A i \in active_bitmap : positions[i].lot # exit_buf[k].lot
       /\ \A m \in DOMAIN exit_buf : exit_buf[m].lot = exit_buf[k].lot => m = k

CashInv == BooksInv /\ LotsApart /\ CashExplained /\ LogAddsUp

\* The purchases that cash is explained by.
Explained(S) == books.balance = Starting + books.realized_pnl - Invested(S)

Unbooked == active_bitmap \cup Pending

\* There are finitely many slots.
LEMMA SlotsFinite == IsFiniteSet(Slots)
BY Constants, FS_Interval DEF Slots

\* What a position cost is a number.
LEMMA CostFacts ==
  ASSUME NEW pos \in PositionSet
  PROVE  Cost(pos) + pos.paid \in Nat /\ pos.lot \in Nat
<1>1. /\ pos.entry_price \in Nat /\ pos.quantity \in Nat
      /\ pos.paid \in Nat /\ pos.lot \in Nat
  BY Constants DEF PositionSet
<1>2. pos.entry_price * pos.quantity \in Nat
  BY <1>1
<1> QED
  BY <1>1, <1>2 DEF Cost

\* What was paid for each slot is a number.
LEMMA PaidForType ==
  ASSUME TypeOK
  PROVE  \A i \in Slots : PaidFor[i] \in Nat /\ positions[i].lot \in Nat
<1> TAKE i \in Slots
<1>1. positions[i] \in PositionSet
  BY DEF TypeOK, PositionSet
<1>2. PaidFor[i] = Cost(positions[i]) + positions[i].paid
  BY DEF PaidFor
<1> QED
  BY <1>1, <1>2, CostFacts

\* What is invested in some slots, one of them taken out.
LEMMA InvestedFacts ==
  ASSUME TypeOK, NEW S, S \subseteq Slots
  PROVE  /\ Invested(S) \in Int
         /\ \A i \in S : Invested(S) = PaidFor[i] + Invested(S \ {i})
<1>1. IsFiniteSet(S)
  BY SlotsFinite, FS_Subset
<1>2. \A i \in S : PaidFor[i] \in Int
  BY PaidForType
<1> QED
  BY <1>1, <1>2, SumOfIntegers, SumRemove DEF Invested

\* The exits not yet booked are records of slots.
LEMMA PendingFacts ==
  ASSUME TypeOK
  PROVE  Unbooked \subseteq Slots /\ DOMAIN exit_buf = 1 .. Len(exit_buf)
         /\ \A k \in DOMAIN exit_buf : exit_buf[k] \in Exits
<1>1. exit_buf \in Seq(Exits) /\ active_bitmap \subseteq Slots
  BY DEF TypeOK, Exits
<1>2. \A k \in DOMAIN exit_buf : exit_buf[k] \in Exits
  BY <1>1
<1>3. \A k \in DOMAIN exit_buf : exit_buf[k].position_index \in Slots
  BY <1>2 DEF Exits
<1> QED
  BY <1>1, <1>2, <1>3 DEF Unbooked, Pending

\* A record whose slot still names its lot names a slot that is free: the slot
\* would hold another lot otherwise.
LEMMA MatchedHold ==
  ASSUME LotsApart,
         \A k \in DOMAIN exit_buf :
           positions[exit_buf[k].position_index].lot = exit_buf[k].lot
  PROVE  RecordsHold
BY DEF LotsApart, RecordsHold

\* A sale moves balance and profit apart by what the purchase cost, at the
\* fee rate of the day.
LEMMA SaleExplained ==
  ASSUME CashInv, NEW i \in Slots, NEW at \in Prices,
         \/ \E reason \in Reasons : books' = ExitBooked(Sale(positions[i], at), reason)
         \/ books' = TimeExitBooked(Sale(positions[i], at))
         \/ books' = ForcedCloseBooked(Sale(positions[i], at)),
         positions[i].paid = Fee(Cost(positions[i])),
         NEW S, S \subseteq Slots, i \in S, Explained(S)
  PROVE  books'.balance = Starting + books'.realized_pnl - Invested(S \ {i})
<1> DEFINE sale == Sale(positions[i], at)
<1>1. TypeOK /\ books \in BookSet
  BY DEF CashInv, BooksInv, TypeOK, BookSet
<1>2. /\ sale.net \in Nat /\ sale.fee \in Nat /\ sale.pnl \in Int
  BY <1>1, SaleFacts
<1>3. PaidFor[i] \in Nat /\ PaidFor[i] = Cost(positions[i]) + Fee(Cost(positions[i]))
  BY <1>1, PaidForType DEF PaidFor
<1>4. sale.pnl = sale.net - PaidFor[i]
  BY <1>3 DEF Sale
<1>5. /\ books'.balance = books.balance + sale.net
      /\ books'.realized_pnl = books.realized_pnl + sale.pnl
  <2>1. books.balance \in Nat /\ books.realized_pnl \in Int
    BY <1>1 DEF BookSet
  <2>2. /\ Cash(sale) \in BookSet
        /\ Cash(sale).balance = books.balance + sale.net
        /\ Cash(sale).realized_pnl = books.realized_pnl + sale.pnl
    <3> DEFINE b0     == books.balance + sale.net
               profit == books.realized_pnl + sale.pnl
               fees   == books.total_fees + sale.fee
    <3>1. b0 \in Nat /\ profit \in Int /\ fees \in Nat
      BY <1>1, <1>2 DEF BookSet
    <3>2. Cash(sale) = [books EXCEPT !.balance = b0, !.realized_pnl = profit,
                                     !.total_fees = fees]
      BY DEF Cash
    <3> HIDE DEF b0, profit, fees
    <3>3. Cash(sale) \in BookSet /\ Cash(sale).balance = b0
          /\ Cash(sale).realized_pnl = profit
      BY <1>1, <3>1, <3>2 DEF BookSet
    <3> QED
      BY <3>3 DEF b0, profit
  <2> HIDE DEF sale
  <2>3. \/ \E reason \in Reasons : books' = ExitBooked(sale, reason)
        \/ books' = TimeExitBooked(sale)
        \/ books' = ForcedCloseBooked(sale)
    BY DEF sale
  <2>4. /\ \A reason \in Reasons :
             /\ ExitBooked(sale, reason).balance = Cash(sale).balance
             /\ ExitBooked(sale, reason).realized_pnl = Cash(sale).realized_pnl
        /\ TimeExitBooked(sale).balance = Cash(sale).balance
        /\ TimeExitBooked(sale).realized_pnl = Cash(sale).realized_pnl
        /\ ForcedCloseBooked(sale).balance = Cash(sale).balance
        /\ ForcedCloseBooked(sale).realized_pnl = Cash(sale).realized_pnl
    BY <2>2 DEF ExitBooked, TimeExitBooked, ForcedCloseBooked, BookSet
  <2> QED
    BY <2>2, <2>3, <2>4
<1> HIDE DEF sale
<1>6. /\ Invested(S) \in Int /\ Invested(S) = PaidFor[i] + Invested(S \ {i})
      /\ Invested(S \ {i}) \in Int
  BY <1>1, InvestedFacts
<1>7. books.balance \in Nat /\ books.realized_pnl \in Int /\ Starting \in Nat
  BY <1>1, Constants DEF BookSet
<1>8. books.balance = Starting + books.realized_pnl - Invested(S)
  BY DEF Explained
<1> QED
  BY <1>2, <1>3, <1>4, <1>5, <1>6, <1>7, <1>8

\* Where nothing is bought, sold or recorded nothing changes.
LEMMA CashQuiet ==
  ASSUME CashInv,
         UNCHANGED <<books, positions, active_bitmap, exit_buf, next_lot, exact>>
  PROVE  LotsApart' /\ CashExplained'
<1>1. LotsApart'
  BY DEF CashInv, LotsApart
<1>2. CashExplained'
  BY DEF CashInv, CashExplained, RecordsHold, Invested, PaidFor, Pending
<1> QED
  BY <1>1, <1>2

\* The exit gate moves no money.
LEMMA CashHit ==
  ASSUME CashInv, NEW i \in Slots, NEW reason \in Reasons, Hit(i, reason)
  PROVE  LotsApart' /\ CashExplained'
<1> DEFINE rec == [position_index |-> i, exit_price |-> price,
                   reason |-> reason, lot |-> positions[i].lot]
<1>1. /\ UNCHANGED <<positions, next_lot, books, exact>>
      /\ i \in active_bitmap /\ active_bitmap' = active_bitmap \ {i}
      /\ exit_buf' = Append(exit_buf, rec)
  BY DEF Hit
<1>2. /\ exit_buf \in Seq(Exits) /\ TypeOK
      /\ LotsApart /\ CashExplained /\ active_bitmap \subseteq Slots
  BY DEF CashInv, BooksInv, TypeOK, Exits
<1>3. rec.position_index = i /\ rec.lot = positions[i].lot /\ rec \in Exits
  BY <1>1 DEF Hit, Exits, CashInv, BooksInv, TypeOK, HeldWasBought
<1> HIDE DEF rec
<1> DEFINE n == Len(exit_buf)
<1>4. /\ n \in Nat /\ DOMAIN exit_buf = 1 .. n /\ DOMAIN exit_buf' = 1 .. n + 1
      /\ \A k \in 1 .. n : exit_buf'[k] = exit_buf[k]
      /\ exit_buf'[n + 1] = rec
  BY <1>1, <1>2, <1>3, AppendProperties
<1> HIDE DEF n
<1>5. LotsApart'
  BY <1>1, <1>2, <1>3, <1>4 DEF LotsApart
<1>6. CashExplained'
  <2> SUFFICES ASSUME exact', RecordsHold'
               PROVE  Explained(Unbooked)'
    BY DEF CashExplained, Explained, Unbooked
  <2>1. \A k \in DOMAIN exit_buf :
          positions[exit_buf[k].position_index].lot = exit_buf[k].lot
    BY <1>1, <1>4 DEF RecordsHold
  <2>2. Explained(Unbooked)
    BY <1>1, <1>2, <2>1, MatchedHold DEF CashExplained, Explained, Unbooked
  <2>3. Pending' = Pending \cup {i}
    BY <1>3, <1>4 DEF Pending
  <2>4. Unbooked' = Unbooked
    BY <1>1, <2>3 DEF Unbooked
  <2> QED
    BY <1>1, <2>2, <2>4 DEF Explained, Invested, PaidFor
<1> QED
  BY <1>5, <1>6

\* A purchase turns cash into a position.
LEMMA CashBuy ==
  ASSUME CashInv, BooksInv', NEW p \in Prices, Buy(p)
  PROVE  LotsApart' /\ CashExplained'
<1> DEFINE sized == Portion(books.balance, Risk) \div p
           cost  == p * sized
           new   == [entry_price |-> p, quantity |-> sized, paid |-> Fee(cost),
                     lot |-> next_lot]
<1>1. PICK slot \in Slots :
        /\ slot \notin active_bitmap
        /\ active_bitmap' = active_bitmap \cup {slot}
        /\ positions' = [positions EXCEPT ![slot] = new]
  BY DEF Buy, IsLowest
<1>2. /\ TypeOK /\ TypeOK' /\ LotsApart /\ CashExplained
      /\ active_bitmap \subseteq Slots
      /\ positions \in [Slots -> PositionSet]
      /\ positions' \in [Slots -> PositionSet]
  BY DEF CashInv, BooksInv, TypeOK, PositionSet
<1>3. /\ books' = [books EXCEPT !.balance = @ - (cost + Fee(cost)),
                                !.total_fees = @ + Fee(cost),
                                !.total_buys = @ + 1]
      /\ next_lot' = next_lot + 1 /\ UNCHANGED <<exit_buf, exact>>
  BY DEF Buy
<1>4. /\ positions'[slot] = new /\ new.lot = next_lot
      /\ \A i \in Slots \ {slot} : positions'[i] = positions[i]
  BY <1>1, <1>2
<1>5. PaidFor'[slot] = cost + Fee(cost) /\ cost + Fee(cost) \in Nat
  <2>1. Cost(positions'[slot]) = cost /\ positions'[slot].paid = Fee(cost)
    BY <1>4 DEF Cost
  <2>2. PaidFor' = [i \in Slots |-> Cost(positions'[i]) + positions'[i].paid]
    BY DEF PaidFor, Cost
  <2>3. positions'[slot] \in PositionSet
    BY <1>2
  <2>4. Cost(positions'[slot]) + positions'[slot].paid \in Nat
    BY <2>3, CostFacts
  <2> HIDE DEF cost, new
  <2> QED
    BY <2>1, <2>2, <2>4
<1>6. books'.balance = books.balance - (cost + Fee(cost))
      /\ books'.realized_pnl = books.realized_pnl
  BY <1>2, <1>3 DEF TypeOK
<1> HIDE DEF cost, new
<1>7. \A k \in DOMAIN exit_buf : exit_buf[k].position_index \in Slots
  BY <1>2, PendingFacts DEF Exits
<1>8. LotsApart'
  <2>1. next_lot \in Nat /\ \A i \in Slots : positions[i].lot \in Nat
    <3>1. next_lot \in Nat
      BY <1>2, Constants DEF TypeOK
    <3> QED
      BY <1>2, <3>1, PaidForType
  <2>2. \A k \in DOMAIN exit_buf : exit_buf[k].lot \in Nat
    BY <1>2, PendingFacts DEF Exits
  <2>3. \A i \in active_bitmap' :
          IF i = slot THEN positions'[i].lot = next_lot
          ELSE i \in active_bitmap /\ positions'[i].lot = positions[i].lot
    BY <1>1, <1>2, <1>4
  <2>4. \A i \in active_bitmap : positions[i].lot < next_lot
    BY <1>2 DEF LotsApart
  <2>5. \A i \in active_bitmap' : positions'[i].lot < next_lot'
    BY <1>2, <1>3, <2>1, <2>3, <2>4
  <2>6. \A i, j \in active_bitmap' : positions'[i].lot = positions'[j].lot => i = j
    BY <1>2, <2>1, <2>3, <2>4 DEF LotsApart
  <2>7. \A k \in DOMAIN exit_buf' :
          /\ exit_buf'[k].lot < next_lot'
          /\ \A i \in active_bitmap' : positions'[i].lot # exit_buf'[k].lot
          /\ \A m \in DOMAIN exit_buf' : exit_buf'[m].lot = exit_buf'[k].lot => m = k
    BY <1>2, <1>3, <2>1, <2>2, <2>3, <2>4 DEF LotsApart
  <2> QED
    BY <2>5, <2>6, <2>7 DEF LotsApart
<1>9. CashExplained'
  <2> SUFFICES ASSUME exact', RecordsHold'
               PROVE  Explained(Unbooked)'
    BY DEF CashExplained, Explained, Unbooked
  <2>1. \A k \in DOMAIN exit_buf :
          /\ exit_buf[k].position_index # slot
          /\ positions[exit_buf[k].position_index].lot = exit_buf[k].lot
    BY <1>1, <1>2, <1>3, <1>4, <1>7 DEF RecordsHold
  <2>2. Explained(Unbooked)
    BY <1>2, <1>3, <2>1, MatchedHold DEF CashExplained, Explained, Unbooked
  <2>3. Unbooked' = Unbooked \cup {slot} /\ slot \notin Unbooked
    BY <1>1, <1>3, <2>1 DEF Unbooked, Pending
  <2>4. Unbooked \subseteq Slots /\ Unbooked' \subseteq Slots
    BY <1>1, <1>2, <2>3, PendingFacts
  <2>5. SumFunctionOnSet(PaidFor', Unbooked) = SumFunctionOnSet(PaidFor, Unbooked)
    <3>1. IsFiniteSet(Unbooked)
      BY <2>4, SlotsFinite, FS_Subset
    <3>2. \A i \in Unbooked : PaidFor'[i] = PaidFor[i]
      BY <1>4, <2>3, <2>4 DEF PaidFor, Cost
    <3> QED
      BY <3>1, <3>2, SumSame
  <2>6. SumFunctionOnSet(PaidFor', Unbooked')
          = PaidFor'[slot] + SumFunctionOnSet(PaidFor', Unbooked)
    <3>1. IsFiniteSet(Unbooked')
      BY <2>4, SlotsFinite, FS_Subset
    <3>2. \A i \in Unbooked' : PaidFor'[i] \in Int
      <4>1. \A i \in Slots : positions'[i] \in PositionSet
        BY <1>2
      <4>2. \A i \in Slots : PaidFor'[i] = Cost(positions'[i]) + positions'[i].paid
        BY DEF PaidFor, Cost
      <4> QED
        BY <2>4, <4>1, <4>2, CostFacts
    <3>3. slot \in Unbooked' /\ Unbooked' \ {slot} = Unbooked
      BY <2>3
    <3> QED
      BY <3>1, <3>2, <3>3, SumRemove
  <2>7. /\ Invested(Unbooked) \in Int /\ cost + Fee(cost) \in Int
        /\ books.balance \in Int /\ books.realized_pnl \in Int /\ Starting \in Int
    <3>1. Invested(Unbooked) \in Int
      BY <1>2, <2>4, InvestedFacts
    <3> QED
      BY <1>2, <1>5, <3>1, Constants DEF TypeOK
  <2>8. Invested(Unbooked)' = cost + Fee(cost) + Invested(Unbooked)
    BY <1>5, <2>5, <2>6 DEF Invested
  <2> QED
    BY <1>6, <2>2, <2>7, <2>8 DEF Explained
<1> QED
  BY <1>8, <1>9

\* Booking an exit turns a position into cash.
LEMMA CashDrainExit ==
  ASSUME CashInv, DrainExit
  PROVE  LotsApart' /\ CashExplained'
<1> DEFINE rec == Head(exit_buf)
           i   == rec.position_index
           n   == Len(exit_buf)
<1>1. /\ exit_buf \in Seq(Exits) /\ exit_buf # <<>> /\ TypeOK
      /\ LotsApart /\ CashExplained /\ active_bitmap \subseteq Slots
  BY DEF CashInv, BooksInv, TypeOK, Exits, DrainExit
<1>2. /\ n \in Nat /\ n > 0 /\ DOMAIN exit_buf = 1 .. n
      /\ DOMAIN exit_buf' = 1 .. n - 1
      /\ \A k \in 1 .. n - 1 : exit_buf'[k] = exit_buf[k + 1]
      /\ rec = exit_buf[1] /\ rec \in Exits
  <2>1. n \in Nat /\ n > 0 /\ DOMAIN exit_buf = 1 .. n
    BY <1>1
  <2>2. exit_buf' = Tail(exit_buf)
    BY DEF DrainExit
  <2>3. /\ exit_buf' \in Seq(Exits) /\ Len(exit_buf') = n - 1 /\ rec \in Exits
        /\ \A k \in 1 .. n - 1 : exit_buf'[k] = exit_buf[k + 1]
    BY <1>1, <2>2, HeadTailProperties
  <2>4. DOMAIN exit_buf' = 1 .. n - 1
    BY <2>3
  <2>5. rec = exit_buf[1]
    BY <1>1
  <2> QED
    BY <2>1, <2>3, <2>4, <2>5
<1>3. i \in Slots /\ rec.exit_price \in Prices /\ rec.reason \in Reasons
  BY <1>2 DEF Exits
<1>4. /\ books' = ExitBooked(Sale(positions[i], rec.exit_price), rec.reason)
      /\ exact' = (exact /\ SameTerms(positions[i], rec.lot))
      /\ UNCHANGED <<active_bitmap, positions, next_lot>>
  BY DEF DrainExit
<1> HIDE DEF rec, n
<1>5. LotsApart'
  <2>1. \A k \in DOMAIN exit_buf' : k + 1 \in DOMAIN exit_buf
                                     /\ exit_buf'[k] = exit_buf[k + 1] /\ k \in Int
    BY <1>2
  <2> QED
    BY <1>1, <1>4, <2>1 DEF LotsApart
<1>6. CashExplained'
  <2> SUFFICES ASSUME exact', RecordsHold'
               PROVE  Explained(Unbooked)'
    BY DEF CashExplained, Explained, Unbooked
  <2>1. exact /\ positions[i].lot = rec.lot
        /\ positions[i].paid = Fee(Cost(positions[i]))
    BY <1>4 DEF SameTerms
  <2>2. \A k \in DOMAIN exit_buf :
          k = 1 \/ (k - 1 \in DOMAIN exit_buf' /\ exit_buf[k] = exit_buf'[k - 1])
    BY <1>2
  <2>3. \A k \in DOMAIN exit_buf :
          positions[exit_buf[k].position_index].lot = exit_buf[k].lot
    BY <1>2, <1>4, <2>1, <2>2 DEF RecordsHold
  <2>4. RecordsHold
    BY <1>1, <2>3, MatchedHold
  <2>5. Explained(Unbooked)
    BY <1>1, <2>1, <2>4 DEF CashExplained, Explained, Unbooked
  <2>6. i \in Unbooked /\ Unbooked \subseteq Slots
    <3>1. 1 \in DOMAIN exit_buf
      BY <1>2
    <3> QED
      BY <1>1, <1>2, <3>1, PendingFacts DEF Unbooked, Pending
  <2>7. i \notin active_bitmap /\ i \notin Pending'
    <3>1. 1 \in DOMAIN exit_buf
      BY <1>2
    <3>2. i \notin active_bitmap
      BY <1>2, <2>4, <3>1 DEF RecordsHold
    <3>3. ASSUME NEW k \in DOMAIN exit_buf', exit_buf'[k].position_index = i
          PROVE  FALSE
      <4>1. k + 1 \in DOMAIN exit_buf /\ exit_buf'[k] = exit_buf[k + 1] /\ k + 1 # 1
        BY <1>2
      <4>2. exit_buf[k + 1].lot = exit_buf[1].lot
        BY <1>2, <2>1, <2>3, <3>3, <4>1
      <4> QED
        BY <1>1, <3>1, <4>1, <4>2 DEF LotsApart
    <3> QED
      BY <3>2, <3>3 DEF Pending
  <2>8. Pending = Pending' \cup {i}
    <3>1. \A k \in DOMAIN exit_buf' : k + 1 \in DOMAIN exit_buf
                                       /\ exit_buf'[k] = exit_buf[k + 1]
      BY <1>2
    <3>2. 1 \in DOMAIN exit_buf /\ exit_buf[1].position_index = i
      BY <1>2
    <3> QED
      BY <2>2, <3>1, <3>2 DEF Pending
  <2>9. Unbooked' = Unbooked \ {i}
    BY <1>4, <2>7, <2>8 DEF Unbooked
  <2> HIDE DEF i
  <2>10. books'.balance = Starting + books'.realized_pnl - Invested(Unbooked \ {i})
    BY <1>3, <1>4, <2>1, <2>5, <2>6, SaleExplained
  <2> QED
    BY <1>4, <2>9, <2>10 DEF Explained, Invested, PaidFor, Cost
<1> QED
  BY <1>5, <1>6

\* A time exit and a forced close sell a position that is held, at once.
LEMMA CashSoldAtOnce ==
  ASSUME CashInv, NEW i \in Slots, TimeExit(i) \/ ForceClose(i)
  PROVE  LotsApart' /\ CashExplained'
<1>1. /\ TypeOK /\ LotsApart /\ CashExplained /\ price \in Prices
      /\ active_bitmap \subseteq Slots
  BY DEF CashInv, BooksInv, TypeOK
<1>2. /\ books' = TimeExitBooked(Sale(positions[i], price))
         \/ books' = ForcedCloseBooked(Sale(positions[i], price))
      /\ i \in active_bitmap /\ active_bitmap' = active_bitmap \ {i}
      /\ exact' = (exact /\ SameTerms(positions[i], positions[i].lot))
      /\ UNCHANGED <<positions, exit_buf, next_lot>>
  BY DEF TimeExit, ForceClose
<1>3. LotsApart'
  BY <1>1, <1>2 DEF LotsApart
<1>4. CashExplained'
  <2> SUFFICES ASSUME exact', RecordsHold'
               PROVE  Explained(Unbooked)'
    BY DEF CashExplained, Explained, Unbooked
  <2>1. exact /\ positions[i].paid = Fee(Cost(positions[i]))
    BY <1>2 DEF SameTerms
  <2>2. RecordsHold
    BY <1>1, <1>2, MatchedHold DEF RecordsHold
  <2>3. Explained(Unbooked)
    BY <1>1, <2>1, <2>2 DEF CashExplained, Explained, Unbooked
  <2>4. i \in Unbooked /\ Unbooked \subseteq Slots
    BY <1>1, <1>2, PendingFacts DEF Unbooked
  <2>5. i \notin Pending /\ Unbooked' = Unbooked \ {i}
    BY <1>2, <2>2 DEF Unbooked, Pending, RecordsHold
  <2>6. books'.balance = Starting + books'.realized_pnl - Invested(Unbooked \ {i})
    BY <1>1, <1>2, <2>1, <2>3, <2>4, SaleExplained
  <2> QED
    BY <1>2, <2>5, <2>6 DEF Explained, Invested, PaidFor, Cost
<1> QED
  BY <1>3, <1>4

\* With nothing held and nothing waiting, nothing is invested.
LEMMA NothingInvested ==
  active_bitmap = {} /\ exit_buf = <<>> /\ books = InitialBooks
    => LotsApart /\ CashExplained
<1> SUFFICES ASSUME active_bitmap = {}, exit_buf = <<>>, books = InitialBooks
             PROVE  LotsApart /\ CashExplained
  OBVIOUS
<1>1. DOMAIN exit_buf = {}
  OBVIOUS
<1>2. LotsApart /\ active_bitmap \cup Pending = {}
  BY <1>1 DEF LotsApart, Pending
<1>3. Invested({}) = 0
  BY FS_EmptySet, SumFirst DEF Invested
<1>4. books.balance = Starting /\ books.realized_pnl = 0
  BY DEF InitialBooks
<1>5. Invested(active_bitmap \cup Pending) = 0
  BY <1>2, <1>3
<1>6. books.balance
        = Starting + books.realized_pnl - Invested(active_bitmap \cup Pending)
  BY <1>4, <1>5, Constants
<1>7. CashExplained
  BY <1>6 DEF CashExplained
<1> QED
  BY <1>2, <1>7

-----------------------------------------------------------------------------
(* The log against the books. *)

Fees(s) == SumFunction([k \in DOMAIN s |-> s[k].fee])

\* An empty log holds no fees.
LEMMA EmptyFees == Fees(<<>>) = 0
<1>1. DOMAIN <<>> = {} /\ DOMAIN [k \in DOMAIN <<>> |-> <<>>[k].fee] = {}
  OBVIOUS
<1> QED
  BY <1>1, FS_EmptySet, SumFirst DEF Fees, SumFunction

\* The fees of a log, the last row apart.
LEMMA FeesFacts ==
  ASSUME NEW s \in Seq(Rows), NEW row \in Rows
  PROVE  Fees(Append(s, row)) = Fees(s) + row.fee
<1> DEFINE n == Len(s)
           t == Append(s, row)
           f == [k \in DOMAIN s |-> s[k].fee]
           g == [k \in DOMAIN t |-> t[k].fee]
<1>2. /\ n \in Nat /\ DOMAIN s = 1 .. n /\ DOMAIN t = 1 .. n + 1
      /\ \A k \in 1 .. n : t[k] = s[k] /\ t[k] \in Rows
      /\ t[n + 1] = row
  BY AppendProperties
<1> HIDE DEF n, t
<1>3. IsFiniteSet(1 .. n) /\ IsFiniteSet(1 .. n + 1)
  BY <1>2, FS_Interval
<1>4. \A k \in 1 .. n + 1 : g[k] = t[k].fee /\ g[k] \in Int
  <2>1. \A k \in 1 .. n + 1 : t[k] \in Rows
    BY <1>2
  <2> QED
    BY <1>2, <2>1 DEF Rows
<1>5. \A k \in 1 .. n : g[k] = f[k]
  BY <1>2
<1>6. DOMAIN f = 1 .. n /\ DOMAIN g = 1 .. n + 1
  BY <1>2
<1>7. Fees(s) = SumFunctionOnSet(f, 1 .. n)
      /\ Fees(t) = SumFunctionOnSet(g, 1 .. n + 1)
  BY <1>6 DEF Fees, SumFunction
<1> HIDE DEF f, g
<1>8. n + 1 \in 1 .. n + 1 /\ (1 .. n + 1) \ {n + 1} = 1 .. n
  BY <1>2
<1>9. SumFunctionOnSet(g, 1 .. n + 1) = g[n + 1] + SumFunctionOnSet(g, 1 .. n)
  <2>1. \A k \in 1 .. n + 1 : g[k] \in Int
    BY <1>4
  <2>2. SumFunctionOnSet(g, 1 .. n + 1)
          = g[n + 1] + SumFunctionOnSet(g, (1 .. n + 1) \ {n + 1})
    BY <1>3, <1>8, <2>1, SumRemove
  <2> QED
    BY <1>8, <2>2
<1>10. SumFunctionOnSet(g, 1 .. n) = SumFunctionOnSet(f, 1 .. n)
  BY <1>3, <1>5, SumSame
<1>11. SumFunctionOnSet(g, 1 .. n) \in Int
  BY <1>2, <1>3, <1>4, SumOfIntegers
<1>12. g[n + 1] = row.fee /\ g[n + 1] \in Int
  BY <1>2, <1>4, <1>8
<1>13. Fees(t) = Fees(s) + row.fee
  BY <1>7, <1>9, <1>10, <1>11, <1>12
<1> QED
  BY <1>13 DEF t

\* A row that states the fee just added and the balance just reached keeps the
\* log in step with the books.
LEMMA LoggedAddsUp ==
  ASSUME CashInv, pc # "close", NEW row \in Rows, Log(row),
         books'.total_fees = books.total_fees + row.fee,
         row.balance = books'.balance
  PROVE  LogAddsUp'
<1>1. journal \in Seq(Rows) /\ LogAddsUp
  BY DEF CashInv, BooksInv, TypeOK
<1>2. CASE trade_buf.count < LogCap
  <2>1. journal' = Append(journal, row) /\ dropped' = dropped
    BY <1>2 DEF Log
  <2>2. LoggedFees' = Fees(Append(journal, row)) /\ LoggedFees = Fees(journal)
    BY <2>1 DEF LoggedFees, Fees
  <2>3. journal'[Len(journal')] = row
    BY <1>1, <2>1, AppendProperties
  <2>4. LoggedFees' = LoggedFees + row.fee
    BY <1>1, <2>2, FeesFacts
  <2> QED
    BY <1>1, <2>1, <2>3, <2>4 DEF LogAddsUp
<1>3. CASE ~(trade_buf.count < LogCap)
  BY <1>3 DEF Log, LogAddsUp
<1> QED
  BY <1>2, <1>3

\* What a purchase costs is a number.
LEMMA SizedFacts ==
  ASSUME TypeOK, NEW p \in Prices
  PROVE  p * (Portion(books.balance, Risk) \div p) \in Nat
<1> DEFINE amount == Portion(books.balance, Risk)
<1>1. amount \in Nat
  <2>1. books.balance \in Nat
    BY DEF TypeOK
  <2> QED
    BY <2>1, Constants, PortionFacts
<1>2. p \in Nat /\ p > 0
  BY Constants
<1> HIDE DEF amount
<1>3. amount \div p \in Nat
  BY <1>1, <1>2
<1> QED
  BY <1>2, <1>3 DEF amount

\* A purchase and its row agree.
LEMMA LogBuy ==
  ASSUME CashInv, BooksInv', NEW p \in Prices, Buy(p)
  PROVE  LogAddsUp'
<1> DEFINE cost == p * (Portion(books.balance, Risk) \div p)
           row  == Row("BUY", next_lot, Fee(cost), books'.balance)
<1>1. Log(row) /\ pc = "run" /\ next_lot <= MaxBuys
      /\ books' = [books EXCEPT !.balance = @ - (cost + Fee(cost)),
                                !.total_fees = @ + Fee(cost),
                                !.total_buys = @ + 1]
  BY DEF Buy
<1>2. books \in BookSet /\ books' \in BookSet /\ TypeOK
  BY DEF CashInv, BooksInv, TypeOK, BookSet
<1>3. books'.total_fees = books.total_fees + Fee(cost)
  BY <1>1, <1>2 DEF BookSet
<1>4. Fee(cost) \in Nat
  BY <1>2, SizedFacts, FeeFacts
<1> HIDE DEF cost
<1>5. next_lot \in 0 .. MaxBuys
  BY <1>1, <1>2, Constants DEF TypeOK
<1>6. row \in Rows /\ row.fee = Fee(cost) /\ row.balance = books'.balance
  BY <1>2, <1>4, <1>5 DEF Row, Rows, BookSet
<1> HIDE DEF row
<1> QED
  BY <1>1, <1>3, <1>6, LoggedAddsUp

\* A sale and its row agree.
LEMMA LogSold ==
  ASSUME CashInv, BooksInv', pc # "close", NEW i \in Slots, NEW at \in Prices,
         \/ \E reason \in Reasons : books' = ExitBooked(Sale(positions[i], at), reason)
         \/ books' = TimeExitBooked(Sale(positions[i], at)),
         Log(Row("SELL", positions[i].lot, Sale(positions[i], at).fee,
                 books'.balance))
  PROVE  LogAddsUp'
<1> DEFINE sale == Sale(positions[i], at)
           row  == Row("SELL", positions[i].lot, sale.fee, books'.balance)
<1>1. books \in BookSet /\ books' \in BookSet /\ TypeOK
  BY DEF CashInv, BooksInv, TypeOK, BookSet
<1>2. sale.fee \in Nat /\ positions[i].lot \in 0 .. MaxBuys
  BY <1>1, SaleFacts
<1>3. row \in Rows /\ row.fee = sale.fee /\ row.balance = books'.balance
      /\ Log(row)
  BY <1>1, <1>2 DEF Row, Rows, BookSet
<1> HIDE DEF row
<1>4. books'.total_fees = books.total_fees + sale.fee
  BY <1>1 DEF ExitBooked, TimeExitBooked, Cash, BookSet
<1> QED
  BY <1>3, <1>4, LoggedAddsUp

-----------------------------------------------------------------------------
\* Every step keeps the sums.
LEMMA CashStep == CashInv /\ BooksInv' /\ [Next]_vars => CashInv'
<1> SUFFICES ASSUME CashInv, BooksInv', [Next]_vars
             PROVE  LotsApart' /\ CashExplained' /\ LogAddsUp'
  BY DEF CashInv
<1>1. CASE \/ \E p \in Prices : NewPrice(p)
           \/ \E rate \in FeeRates : HotReload(rate)
           \/ SlowPath \/ DrainDone \/ DrainLog \/ SessionEnds
           \/ UNCHANGED vars
  <2>1. UNCHANGED <<books, positions, active_bitmap, exit_buf, next_lot, exact>>
        /\ UNCHANGED <<journal, dropped>> /\ (pc' = "close" \/ pc # "close")
    BY <1>1 DEF NewPrice, HotReload, SlowPath, DrainDone, DrainLog, SessionEnds,
                vars, slotVars, logVars, marketVars
  <2>2. LogAddsUp'
    BY <2>1 DEF CashInv, LogAddsUp, LoggedFees
  <2> QED
    BY <2>1, <2>2, CashQuiet
<1>2. CASE \E p \in Prices : Buy(p)
  BY <1>2, CashBuy, LogBuy
<1>3. CASE \E i \in Slots, reason \in Reasons : Hit(i, reason)
  <2>1. PICK i \in Slots, reason \in Reasons : Hit(i, reason)
    BY <1>3
  <2>2. UNCHANGED <<books, journal, dropped, pc>>
    BY <2>1 DEF Hit, logVars, marketVars
  <2>3. LogAddsUp'
    BY <2>2 DEF CashInv, LogAddsUp, LoggedFees
  <2> QED
    BY <2>1, <2>3, CashHit
<1>4. CASE DrainExit
  <2> DEFINE rec == Head(exit_buf)
  <2>0. exit_buf \in Seq(Exits) /\ exit_buf # <<>>
    BY <1>4 DEF DrainExit, CashInv, BooksInv, TypeOK, Exits
  <2>1. rec \in Exits
    BY <2>0
  <2>2. /\ rec.position_index \in Slots /\ rec.exit_price \in Prices
        /\ rec.reason \in Reasons
    BY <2>1 DEF Exits
  <2>3. /\ pc # "close"
        /\ books' = ExitBooked(Sale(positions[rec.position_index], rec.exit_price),
                               rec.reason)
        /\ Log(Row("SELL", positions[rec.position_index].lot,
                   Sale(positions[rec.position_index], rec.exit_price).fee,
                   books'.balance))
    BY <1>4 DEF DrainExit
  <2> HIDE DEF rec
  <2>4. LogAddsUp'
    BY <2>2, <2>3, LogSold
  <2> QED
    BY <1>4, <2>4, CashDrainExit
<1>5. CASE \E i \in Slots : TimeExit(i)
  <2>1. PICK i \in Slots : TimeExit(i)
    BY <1>5
  <2>2. /\ pc # "close" /\ books' = TimeExitBooked(Sale(positions[i], price))
        /\ Log(Row("SELL", positions[i].lot, Sale(positions[i], price).fee,
                   books'.balance))
    BY <2>1 DEF TimeExit
  <2>3. price \in Prices
    BY DEF CashInv, BooksInv, TypeOK
  <2>4. LogAddsUp'
    BY <2>2, <2>3, LogSold
  <2> QED
    BY <2>1, <2>4, CashSoldAtOnce
<1>6. CASE \E i \in Slots : ForceClose(i)
  <2>1. PICK i \in Slots : ForceClose(i)
    BY <1>6
  <2>2. LogAddsUp'
    BY <2>1 DEF ForceClose, marketVars, LogAddsUp
  <2> QED
    BY <2>1, <2>2, CashSoldAtOnce
<1>7. CASE NewSession
  <2>1. /\ active_bitmap' = {} /\ exit_buf' = <<>> /\ books' = InitialBooks
        /\ journal' = <<>>
    BY <1>7 DEF NewSession
  <2>2. LotsApart' /\ CashExplained'
    <3>1. (active_bitmap = {} /\ exit_buf = <<>> /\ books = InitialBooks)'
      BY <2>1
    <3> QED
      BY <3>1, NothingInvested, PTL
  <2>3. LogAddsUp'
    BY <2>1, EmptyFees DEF LogAddsUp, LoggedFees, Fees, InitialBooks
  <2> QED
    BY <2>2, <2>3
<1> QED
  BY <1>1, <1>2, <1>3, <1>4, <1>5, <1>6, <1>7 DEF Next, SlowPaths, Boundary

\* So they hold throughout.
LEMMA CashInvHolds == Spec => []CashInv
<1>1. Init => LotsApart /\ CashExplained /\ LogAddsUp
  <2> SUFFICES ASSUME Init PROVE LotsApart /\ CashExplained /\ LogAddsUp
    OBVIOUS
  <2>1. active_bitmap = {} /\ exit_buf = <<>> /\ books = InitialBooks
        /\ journal = <<>>
    BY DEF Init
  <2>2. LogAddsUp
    BY <2>1, EmptyFees DEF LogAddsUp, LoggedFees, Fees, InitialBooks
  <2> QED
    BY <2>1, <2>2, NothingInvested
<1>2. Init => CashInv
  BY <1>1, InitHolds DEF CashInv
<1> QED
  BY <1>2, CashStep, BooksInvHolds, PTL DEF Spec

-----------------------------------------------------------------------------
(* Theorems. *)

\* The type invariant, the balance that never falls below zero included: each
\* purchase is checked against what the ones before it in the tick have left.
THEOREM MoneyTypeCorrect == Spec => []TypeOK
BY BooksInvHolds, PTL DEF BooksInv

\* The two sums that DrainExits keeps by sign, and the time exit by fiat,
\* differ by the realized profit.
THEOREM ProfitIsSplit == Spec => []ProfitSplits
BY BooksInvHolds, PTL DEF BooksInv

\* File and ring are the session's trades in order, for rings of any size and
\* any number of wraps and overflows.
THEOREM LogIsTheJournal == Spec => []LogIsJournal
BY BooksInvHolds, PTL DEF BooksInv
\* Whatever was bought, sold by any of the three exits and reloaded, what is
\* missing from the balance is what the open positions were bought for.
THEOREM CashIsExplained == Spec => []CashExplained
BY CashInvHolds, PTL DEF CashInv

\* The fees of the rows add up to the fees of the books, and the last row tells
\* the balance, while no row was dropped.
THEOREM LogIsTheBooks == Spec => []LogAddsUp
BY CashInvHolds, PTL DEF CashInv
=============================================================================
