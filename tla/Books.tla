------------------------------- MODULE Books -------------------------------
(***************************************************************************)
(* The money of the paper engine and the log of its trades: what a         *)
(* purchase takes from the balance, what a take profit, a stop loss, a     *)
(* time exit and a forced close give back, how profit, fees, wins and      *)
(* losses are kept beside it, and the ring buffer between these places and *)
(* the order-history file.                                                 *)
(*                                                                         *)
(* Control is PortfolioController's; here a tick is reduced to what moves  *)
(* money.  Amounts are integers of the smallest unit, rates are per cent,  *)
(* and a product with a rate is truncated as FPN_Mul truncates it.         *)
(***************************************************************************)
EXTENDS Integers, Sequences, Functions

CONSTANTS
  NSlots,    \* position slots (16 in the code)
  BufCap,    \* records of the exit buffer (16)
  LogCap,    \* TRADE_LOG_BUF_SIZE (64)
  Prices,    \* prices of trades; slippage_pct is zero
  FeeRates,  \* fee_rate of the configurations, per cent
  Starting,  \* starting_balance
  Risk,      \* risk_pct
  MinGain,   \* min_hold_gain_pct
  MaxBuys    \* bound of the model: purchases

ASSUME BooksAssumption ==
  /\ {NSlots, BufCap, LogCap} \subseteq Nat \ {0}
  /\ Prices \subseteq Nat \ {0} /\ Prices # {}
  /\ FeeRates \subseteq 0 .. 100
  /\ Starting \in Nat /\ Risk \in 0 .. 100
  /\ MinGain \in Nat /\ MaxBuys \in Nat

VARIABLES
  pc,            \* where the engine is
  price,         \* the last trade's price
  active_bitmap, \* slots in use
  positions,     \* [entry_price, quantity], history: fee paid and lot
  exit_buf,      \* exits not drained yet
  books,         \* the controller's amounts and counts
  fee_rate,      \* config.fee_rate
  start_rate,    \* the same in the configuration read at the start
  file_open,     \* the order history could be opened
  trade_buf,     \* the ring: [records, head, count]
  csv,           \* rows written in this session
  journal,       \* history: trades logged in this session, in order
  dropped,       \* history: a trade of this session met a full ring
  exact,         \* history: every exit was booked for its own purchase, at
                 \* the fee rate the purchase paid
  next_lot       \* history: the next purchase's number

marketVars == <<pc, price>>
slotVars   == <<active_bitmap, positions, exit_buf, next_lot>>
rateVars   == <<fee_rate, start_rate, file_open>>
logVars    == <<trade_buf, csv, journal, dropped>>
vars == <<marketVars, slotVars, books, rateVars, logVars, exact>>

Slots   == 0 .. NSlots - 1
Reasons == {"TP", "SL"}

\* FPN_Mul by a rate.
Portion(x, rate) == (x * rate) \div 100
Fee(x) == Portion(x, fee_rate)
Cost(pos) == pos.entry_price * pos.quantity
IsLowest(i, S) == i \in S /\ \A j \in S : i <= j

NoPosition == [entry_price |-> 0, quantity |-> 0, paid |-> 0, lot |-> 0]

Row(side, lot, fee, balance) ==
  [side |-> side, lot |-> lot, fee |-> fee, balance |-> balance]
NoRow == Row("SELL", 0, 0, 0)

-----------------------------------------------------------------------------
(* The trade log's ring buffer. *)

EmptyRing == [records |-> [i \in 0 .. LogCap - 1 |-> NoRow],
              head |-> 0, count |-> 0]

\* Slip: a full ring overwrites its oldest record.
PushOverwrites(buf, row) ==
  [records |-> [buf.records EXCEPT ![buf.head] = row],
   head    |-> (buf.head + 1) % LogCap,
   count   |-> IF buf.count < LogCap THEN buf.count + 1 ELSE buf.count]

\* A record that meets a full ring is dropped.
Push(buf, row) ==
  IF buf.count >= LogCap THEN buf
  ELSE [records |-> [buf.records EXCEPT ![buf.head] = row],
        head    |-> (buf.head + 1) % LogCap,
        count   |-> buf.count + 1]

\* The records a drain writes, the oldest first.
Buffered(buf) ==
  LET start == (buf.head - buf.count + LogCap) % LogCap
  IN  [i \in 1 .. buf.count |-> buf.records[(start + i - 1) % LogCap]]

\* A trade is logged: pushed, and entered in the journal if there was room.
Log(row) ==
  /\ trade_buf' = Push(trade_buf, row)
  /\ IF trade_buf.count < LogCap
     THEN journal' = Append(journal, row) /\ UNCHANGED dropped
     ELSE dropped' = TRUE /\ UNCHANGED journal
  /\ UNCHANGED csv

-----------------------------------------------------------------------------
(* The amounts of a sale. *)

Gain(n) == IF n > 0 THEN n ELSE 0
Loss(n) == IF n < 0 THEN 0 - n ELSE 0

\* The entry fee is computed again, at today's rate.
Sale(pos, at) ==
  LET gross_proceeds == at * pos.quantity
      exit_fee       == Fee(gross_proceeds)
      net_proceeds   == gross_proceeds - exit_fee
      total_cost     == Cost(pos) + Fee(Cost(pos))
  IN  [net |-> net_proceeds, fee |-> exit_fee, pnl |-> net_proceeds - total_cost]

\* Slip: the proceeds are booked before the fee.
CashGross(sale) ==
  [books EXCEPT !.balance      = @ + sale.net + sale.fee,
                !.realized_pnl = @ + sale.pnl,
                !.total_fees   = @ + sale.fee]

\* What every way to sell does to balance, profit and fees.
Cash(sale) ==
  [books EXCEPT !.balance      = @ + sale.net,
                !.realized_pnl = @ + sale.pnl,
                !.total_fees   = @ + sale.fee]

\* Counted by its reason, booked by its sign.
ExitBooked(sale, reason) ==
  [Cash(sale) EXCEPT
     !.wins   = @ + (IF reason = "TP" THEN 1 ELSE 0),
     !.losses = @ + (IF reason = "SL" THEN 1 ELSE 0),
     !.gross_wins   = @ + Gain(sale.pnl),
     !.gross_losses = @ + Loss(sale.pnl)]

\* Slip: the fee is added up in the other places only.
TimeExitFeeForgotten(sale) ==
  [Cash(sale) EXCEPT !.total_fees = books.total_fees,
                     !.losses = @ + 1, !.gross_losses = @ - sale.pnl]

\* A loss by definition, whatever the sign.
TimeExitBooked(sale) ==
  [Cash(sale) EXCEPT !.losses = @ + 1, !.gross_losses = @ - sale.pnl]

\* A loss, with its amount in neither of the two sums.
ForcedCloseBooked(sale) == [Cash(sale) EXCEPT !.losses = @ + 1]

\* The purchase booked is the one that left, and paid today's fee.
SameTerms(pos, lot) == pos.lot = lot /\ pos.paid = Fee(Cost(pos))

-----------------------------------------------------------------------------
InitialBooks ==
  [balance |-> Starting, realized_pnl |-> 0, total_fees |-> 0,
   wins |-> 0, losses |-> 0, total_buys |-> 0,
   gross_wins |-> 0, gross_losses |-> 0]

Init ==
  /\ pc = "run" /\ price \in Prices
  /\ active_bitmap = {} /\ positions = [i \in Slots |-> NoPosition]
  /\ exit_buf = <<>> /\ books = InitialBooks
  /\ start_rate \in FeeRates /\ fee_rate = start_rate
  /\ file_open \in BOOLEAN
  /\ trade_buf = EmptyRing /\ csv = <<>>
  /\ journal = <<>> /\ dropped = FALSE /\ exact = TRUE /\ next_lot = 1

-----------------------------------------------------------------------------
(* Between two slow paths. *)

NewPrice(p) ==
  /\ pc = "run"
  /\ price' = p
  /\ UNCHANGED <<pc, slotVars, books, rateVars, logVars, exact>>

\* PositionExitGate at a hit: the record points at the slot.
Hit(i, reason) ==
  /\ pc = "run" /\ i \in active_bitmap /\ Len(exit_buf) < BufCap
  /\ active_bitmap' = active_bitmap \ {i}
  /\ exit_buf' = Append(exit_buf, [position_index |-> i, exit_price |-> price,
                                   reason |-> reason, lot |-> positions[i].lot])
  /\ UNCHANGED <<marketVars, positions, books, rateVars, logVars, exact,
                 next_lot>>

\* The balance covers a purchase and its fee.
Affords(cost) == books.balance >= cost + Fee(cost)

\* The fill loop of the tick, for a fill that spacing, exposure and drawdown
\* admit: sized from the balance, paid with its fee, put in the lowest free
\* slot, logged.
Buy(fill_price) ==
  LET sized_qty == Portion(books.balance, Risk) \div fill_price
      cost      == fill_price * sized_qty
  IN  /\ pc = "run" /\ next_lot <= MaxBuys
      /\ active_bitmap # Slots
      /\ \A i \in active_bitmap : positions[i].entry_price # fill_price
      /\ Affords(cost)
      /\ \E slot \in Slots :
             /\ IsLowest(slot, Slots \ active_bitmap)
             /\ active_bitmap' = active_bitmap \cup {slot}
             /\ positions' = [positions EXCEPT ![slot] =
                  [entry_price |-> fill_price, quantity |-> sized_qty,
                   paid |-> Fee(cost), lot |-> next_lot]]
      /\ books' = [books EXCEPT !.balance    = @ - (cost + Fee(cost)),
                                !.total_fees = @ + Fee(cost),
                                !.total_buys = @ + 1]
      /\ Log(Row("BUY", next_lot, Fee(cost), books'.balance))
      /\ next_lot' = next_lot + 1
      /\ UNCHANGED <<marketVars, exit_buf, rateVars, exact>>

\* The key r: open positions keep the fee they paid, the books will not.
HotReload(rate) ==
  /\ pc = "run"
  /\ fee_rate' = rate
  /\ UNCHANGED <<marketVars, slotVars, books, start_rate, file_open, logVars,
                 exact>>

-----------------------------------------------------------------------------
(* The slow path: drain the exits, close by time, write the log. *)

SlowPath ==
  /\ pc = "run"
  /\ pc' = "drain"
  /\ UNCHANGED <<price, slotVars, books, rateVars, logVars, exact>>

\* One record of DrainExits, with the slot as it is now.
DrainExit ==
  /\ pc = "drain" /\ exit_buf # <<>>
  /\ LET rec  == Head(exit_buf)
         pos  == positions[rec.position_index]
         sale == Sale(pos, rec.exit_price)
     IN  /\ books' = ExitBooked(sale, rec.reason)
         /\ Log(Row("SELL", pos.lot, sale.fee, books'.balance))
         /\ exact' = (exact /\ SameTerms(pos, rec.lot))
  /\ exit_buf' = Tail(exit_buf)
  /\ UNCHANGED <<marketVars, active_bitmap, positions, rateVars, next_lot>>

DrainDone ==
  /\ pc = "drain" /\ exit_buf = <<>>
  /\ pc' = "time_exit"
  /\ UNCHANGED <<price, slotVars, books, rateVars, logVars, exact>>

LowGain(pos) == (price - pos.entry_price) * 100 < MinGain * pos.entry_price

\* A position held too long, without the minimum gain, is sold at the last
\* price.  How long it was held is left open.
TimeExit(i) ==
  LET sale == Sale(positions[i], price)
  IN  /\ pc = "time_exit" /\ i \in active_bitmap /\ LowGain(positions[i])
      /\ books' = TimeExitBooked(sale)
      /\ Log(Row("SELL", positions[i].lot, sale.fee, books'.balance))
      /\ active_bitmap' = active_bitmap \ {i}
      /\ exact' = (exact /\ SameTerms(positions[i], positions[i].lot))
      /\ UNCHANGED <<marketVars, positions, exit_buf, rateVars, next_lot>>

\* TradeLogBuffer_Drain; without a file the records stay where they are.
DrainLog ==
  /\ pc = "time_exit"
  /\ pc' = "run"
  /\ IF file_open
     THEN /\ csv' = csv \o Buffered(trade_buf)
          /\ trade_buf' = [trade_buf EXCEPT !.count = 0]
     ELSE UNCHANGED <<csv, trade_buf>>
  /\ UNCHANGED <<price, slotVars, books, rateVars, journal, dropped, exact>>

-----------------------------------------------------------------------------
(* The session boundary. *)

SessionEnds ==
  /\ pc = "run"
  /\ pc' = "close"
  /\ UNCHANGED <<price, slotVars, books, rateVars, logVars, exact>>

\* engine_force_close_all: the row goes straight to the file, past what the
\* ring holds, and without its fee.
ForceClose(i) ==
  LET sale == Sale(positions[i], price)
  IN  /\ pc = "close" /\ i \in active_bitmap
      /\ books' = ForcedCloseBooked(sale)
      /\ csv' = IF file_open
                THEN Append(csv, Row("SELL", positions[i].lot, 0, books'.balance))
                ELSE csv
      /\ active_bitmap' = active_bitmap \ {i}
      /\ exact' = (exact /\ SameTerms(positions[i], positions[i].lot))
      /\ UNCHANGED <<marketVars, positions, exit_buf, rateVars, trade_buf,
                     journal, dropped, next_lot>>

\* PortfolioController_Init: everything in memory starts again, the records
\* still in the ring included.
NewSession ==
  /\ pc = "close" /\ active_bitmap = {}
  /\ pc' = "run"
  /\ positions' = [i \in Slots |-> NoPosition]
  /\ exit_buf' = <<>> /\ books' = InitialBooks
  /\ fee_rate' = start_rate
  /\ trade_buf' = EmptyRing /\ csv' = <<>> /\ journal' = <<>>
  /\ dropped' = FALSE /\ exact' = TRUE
  /\ UNCHANGED <<price, active_bitmap, start_rate, file_open, next_lot>>

-----------------------------------------------------------------------------
SlowPaths ==
  \/ SlowPath \/ DrainExit \/ DrainDone
  \/ \E i \in Slots : TimeExit(i)
  \/ DrainLog

Boundary == (\E i \in Slots : ForceClose(i)) \/ NewSession

Next ==
  \/ \E p \in Prices : NewPrice(p) \/ Buy(p)
  \/ \E i \in Slots, reason \in Reasons : Hit(i, reason)
  \/ \E rate \in FeeRates : HotReload(rate)
  \/ SlowPaths
  \/ SessionEnds \/ Boundary

Spec == Init /\ [][Next]_vars

-----------------------------------------------------------------------------
(* Properties. *)

Rows == [side : {"BUY", "SELL"}, lot : 0 .. MaxBuys, fee : Nat, balance : Nat]

\* Everything stays in its type; the balance in particular never falls below
\* zero, with any number of purchases between two sales.
TypeOK ==
  /\ pc \in {"run", "drain", "time_exit", "close"}
  /\ price \in Prices
  /\ active_bitmap \subseteq Slots
  /\ positions \in [Slots -> [entry_price : Prices \cup {0}, quantity : Nat,
                              paid : Nat, lot : 0 .. MaxBuys]]
  /\ exit_buf \in Seq([position_index : Slots, exit_price : Prices,
                       reason : Reasons, lot : 1 .. MaxBuys])
  /\ Len(exit_buf) <= BufCap
  /\ books \in [balance : Nat, realized_pnl : Int, total_fees : Nat,
                wins : Nat, losses : Nat, total_buys : Nat,
                gross_wins : Nat, gross_losses : Int]
  /\ fee_rate \in FeeRates /\ start_rate \in FeeRates
  /\ file_open \in BOOLEAN
  /\ trade_buf \in [records : [0 .. LogCap - 1 -> Rows],
                    head : 0 .. LogCap - 1, count : 0 .. LogCap]
  /\ csv \in Seq(Rows) /\ journal \in Seq(Rows)
  /\ dropped \in BOOLEAN /\ exact \in BOOLEAN
  /\ next_lot \in 1 .. MaxBuys + 1

Pending == {exit_buf[k].position_index : k \in DOMAIN exit_buf}
RecordsHold ==
  \A k \in DOMAIN exit_buf :
    /\ positions[exit_buf[k].position_index].lot = exit_buf[k].lot
    /\ exit_buf[k].position_index \notin active_bitmap
PaidFor == [i \in Slots |-> Cost(positions[i]) + positions[i].paid]
Invested(S) == SumFunctionOnSet(PaidFor, S)

\* The balance is the starting balance, plus the realized profit, less what is
\* invested in the positions held and in the exits not booked yet.  Balance
\* and profit are kept by five functions that never look at each other; they
\* agree unless an exit was booked for another purchase or at another fee rate.
CashExplained ==
  exact /\ RecordsHold =>
    books.balance = Starting + books.realized_pnl
                      - Invested(active_bitmap \cup Pending)

\* The two sums that the statistics divide are the realized profit, although
\* wins and losses are counted by the reason of the exit and amounts by sign.
ProfitSplits ==
  pc # "close" => books.gross_wins - books.gross_losses = books.realized_pnl

\* File and ring together are the trades logged in this session, in order,
\* none twice and none overwritten, however often the ring wraps and overflows.
LogIsJournal ==
  pc # "close" => csv \o Buffered(trade_buf) = journal

LoggedFees == SumFunction([k \in DOMAIN journal |-> journal[k].fee])

\* The log can be audited: unless a record was dropped, its fees add up to the
\* fees in the books and its last balance is the balance.
LogAddsUp ==
  pc # "close" /\ ~dropped =>
    /\ LoggedFees = books.total_fees
    /\ journal # <<>> => journal[Len(journal)].balance = books.balance
=============================================================================
