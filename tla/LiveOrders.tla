----------------------------- MODULE LiveOrders ------------------------------
(***************************************************************************)
(* Live trading: the market orders main.cpp sends for what the paper       *)
(* engine has just done, how BinanceOrderAPI.hpp retries them, and how     *)
(* live_position_bitmap is kept in step with the exchange.                 *)
(*                                                                         *)
(* Each position is one unit of BTC.  An answer can get lost after the     *)
(* exchange has executed the order; the retry is then a second order.      *)
(***************************************************************************)
EXTENDS Naturals, FiniteSets

CONSTANTS
  NSlots,     \* positions the portfolio holds
  Retries,    \* attempts after the first (3 in the code)
  MaxBtc      \* bound on the BTC of the account

ASSUME LiveAssumption ==
  NSlots \in Nat \ {0} /\ Retries \in Nat /\ MaxBtc \in Nat

Slots == 0 .. NSlots - 1

VARIABLES
  pc,             \* where the engine thread is
  state,          \* WARMUP or ACTIVE
  max_positions,  \* the configured cap: 1 sells the whole balance on an exit
  active,         \* portfolio.active_bitmap
  live,           \* live_position_bitmap: slots with a real order behind them
  pending,        \* slots in the exit buffer
  saved,          \* saved_exit_slots of this tick
  fills,          \* slots filled in this tick (total_buys > buys_before)
  young,          \* slots with entry_ticks = total_ticks
  ahead,          \* restored slots whose entry tick the clock has not reached
  slow,           \* tick_count = 0 after this tick
  walk,           \* slots a loop over a bitmap or over saved exits has to visit
  order,          \* the request on its way
  btc,            \* the account's BTC
  drift,          \* history: how engine and account may have parted
  missed,         \* history: orphans of the last query, if it failed
  reused          \* history: slots filled in this tick while their bit was set

paper == <<state, max_positions, active, pending, ahead>>
tick  == <<saved, fills, young, slow, walk>>
real  == <<live, btc>>
past  == <<drift, missed, reused>>
vars  == <<pc, paper, tick, real, order, past>>

\* The account may hold BTC no live bit stands for, or a live bit lack its BTC.
Drifts == {"surplus", "shortfall"}

NoOrder == [side |-> "NONE", bits |-> {}, qty |-> 0, left |-> 0, then |-> "loop"]

Orphans == live \ active

-----------------------------------------------------------------------------
\* The snapshot can hold any positions and the account any amount: the process
\* may have been down for long.
Init ==
  /\ pc = "startup" /\ state = "WARMUP"
  /\ max_positions \in 1 .. NSlots
  /\ active \in SUBSET Slots /\ ahead = active
  /\ btc \in 0 .. MaxBtc
  /\ live = {} /\ pending = {} /\ saved = {} /\ fills = {} /\ young = {}
  /\ slow = FALSE /\ walk = {} /\ order = NoOrder
  /\ drift = {} /\ missed = {} /\ reused = {}

\* binance_retry_request begins.
Send(side, bits, qty, then) ==
  /\ order' = [side |-> side, bits |-> bits, qty |-> qty, left |-> Retries,
               then |-> then]
  /\ pc' = "order"

\* The balances cannot be had: the start is given up.
StartFails ==
  /\ pc = "startup" /\ pc' = "stopped"
  /\ UNCHANGED <<paper, tick, real, order, past>>

\* Some BTC and some positions: they are taken to be each other.
StartMatched ==
  /\ pc = "startup" /\ btc > 0 /\ active # {}
  /\ live' = active /\ pc' = "loop"
  /\ drift' = IF btc > Cardinality(active) THEN {"surplus"}
              ELSE IF btc < Cardinality(active) THEN {"shortfall"} ELSE {}
  /\ UNCHANGED <<paper, tick, btc, order, missed, reused>>

\* No BTC: the snapshot's positions are stale.
StartCleared ==
  /\ pc = "startup" /\ btc = 0
  /\ active' = {} /\ pc' = "loop"
  /\ UNCHANGED <<state, max_positions, pending, ahead, tick, real, order, past>>

\* BTC without positions is sold, if there is enough of it.
StartSwept ==
  /\ pc = "startup" /\ btc > 0 /\ active = {}
  /\ \/ Send("SELL", {}, btc, "loop") /\ UNCHANGED drift
     \/ pc' = "loop" /\ drift' = {"surplus"} /\ UNCHANGED order
  /\ UNCHANGED <<paper, tick, real, missed, reused>>

-----------------------------------------------------------------------------
\* Slip: a purchase counts whatever the answer.
AnsweredYes(filled) ==
  /\ live' = IF order.side = "SELL" THEN live \ order.bits ELSE live \cup order.bits
  /\ pc' = order.then /\ order' = NoOrder

\* What an answer, or the last missing one, does in the caller.  A sell clears
\* its bits whether or not it was filled.
Answered(filled) ==
  /\ live' = IF order.side = "SELL" THEN live \ order.bits
             ELSE IF filled THEN live \cup order.bits ELSE live
  /\ pc' = order.then /\ order' = NoOrder

\* A bit cleared without a sale, or set a second time, leaves BTC behind.
Parted(filled) ==
  IF \/ order.side = "SELL" /\ ~filled
     \/ order.side = "BUY" /\ filled /\ order.bits \subseteq live
  THEN {"surplus"} ELSE {}

\* An order executed without an answer.
Unknown == IF order.side = "BUY" THEN {"surplus"} ELSE {"shortfall"}

\* The exchange executes the order if it can.
Execute ==
  \/ order.side = "BUY" /\ btc + order.qty <= MaxBtc /\ btc' = btc + order.qty
  \/ order.side = "SELL" /\ order.qty <= btc /\ btc' = btc - order.qty

\* HTTP 200.
Filled ==
  /\ pc = "order" /\ Execute
  /\ Answered(TRUE) /\ drift' = drift \cup Parted(TRUE)
  /\ UNCHANGED <<paper, tick, missed, reused>>

\* A client error: no retry.
Refused ==
  /\ pc = "order"
  /\ Answered(FALSE) /\ drift' = drift \cup Parted(FALSE)
  /\ UNCHANGED <<paper, tick, btc, missed, reused>>

\* No answer, a server error or a rate limit, whether the exchange executed the
\* order or not: the same order again, as long as attempts are left.
Unanswered ==
  /\ pc = "order"
  /\ \/ Execute /\ drift' = drift \cup Unknown
     \/ UNCHANGED <<btc, drift>>
  /\ order.left > 0
  /\ order' = [order EXCEPT !.left = @ - 1]
  /\ UNCHANGED <<pc, paper, tick, live, missed, reused>>

\* The last attempt goes unanswered too.
GiveUp ==
  /\ pc = "order" /\ order.left = 0
  /\ \/ Execute /\ drift' = drift \cup Parted(FALSE) \cup Unknown
     \/ UNCHANGED btc /\ drift' = drift \cup Parted(FALSE)
  /\ Answered(FALSE)
  /\ UNCHANGED <<paper, tick, missed, reused>>

-----------------------------------------------------------------------------
\* PositionExitGate, in the burst and in the engine tick.
ExitGate(s) ==
  /\ pc = "loop" /\ s \in active
  /\ active' = active \ {s} /\ pending' = pending \cup {s}
  /\ UNCHANGED <<pc, state, max_positions, ahead, tick, real, order, past>>

\* The operator reloads the configuration.
HotReload ==
  /\ pc = "loop" /\ max_positions' \in (1 .. NSlots) \ {max_positions}
  /\ UNCHANGED <<pc, state, active, pending, ahead, tick, real, order, past>>

\* BTC leaves the account by other hands.
SoldOutside ==
  /\ pc \notin {"startup", "stopped"} /\ btc > 0
  /\ btc' \in 0 .. btc - 1 /\ drift' = drift \cup {"shortfall"}
  /\ UNCHANGED <<pc, paper, tick, live, order, missed, reused>>

\* Slip: the bits are cleared and nothing is sold.
SessionForgets ==
  /\ pc = "loop" /\ pc' = "close" /\ live' = {}
  /\ UNCHANGED <<paper, tick, btc, order, past>>

\* The end of a session sells the whole balance; a failed query reads as none.
SessionEnds ==
  /\ pc = "loop"
  /\ \/ btc > 0 /\ Send("SELL", live, btc, "close") /\ UNCHANGED <<live, drift>>
     \/ /\ pc' = "close" /\ live' = {}
        /\ drift' = IF btc > 0 THEN drift \cup {"surplus"} ELSE drift
        /\ UNCHANGED order
  /\ UNCHANGED <<paper, tick, btc, missed, reused>>

\* engine_force_close_all, then PortfolioController_Init.
NewSession ==
  /\ pc = "close" /\ pc' = "loop"
  /\ active' = {} /\ pending' = {} /\ ahead' = {} /\ state' = "WARMUP"
  /\ missed' = {}
  /\ UNCHANGED <<max_positions, tick, real, order, drift, reused>>

-----------------------------------------------------------------------------
\* main copies the pending exits before the controller can drain them.
\* total_ticks moves on, and may reach the entry tick of a restored position.
SaveExits ==
  /\ pc = "loop" /\ pc' = "tick"
  /\ saved' = pending
  /\ \E reached \in SUBSET ahead :
       young' = reached \cap active /\ ahead' = ahead \ reached
  /\ UNCHANGED <<state, max_positions, active, pending, fills, slow, walk, real,
                 order, past>>

\* Warmup drains every tick and buys nothing.
WarmupTick ==
  /\ pc = "tick" /\ state = "WARMUP"
  /\ pending' = {} /\ slow' \in BOOLEAN /\ state' \in {"WARMUP", "ACTIVE"}
  /\ pc' = "sells"
  /\ UNCHANGED <<max_positions, active, ahead, saved, fills, young, walk, real,
                 order, past>>

\* A fill takes the lowest free slot.
Fill(s) ==
  /\ pc = "tick" /\ state = "ACTIVE"
  /\ Cardinality(active) < max_positions
  /\ s \in Slots \ active /\ \A free \in Slots \ active : s <= free
  /\ active' = active \cup {s} /\ ahead' = ahead \ {s}
  /\ fills' = fills \cup {s} /\ young' = young \cup {s}
  /\ reused' = IF s \in live THEN reused \cup {s} ELSE reused
  /\ UNCHANGED <<pc, state, max_positions, pending, saved, slow, walk, real,
                 order, drift, missed>>

\* Back in main: if something was filled, real orders follow, unless an exit waits
\* to be sold in the same tick.
AfterTick ==
  /\ pc' = IF fills = {} THEN "sells" ELSE "buys"
  /\ walk' = IF fills # {} /\ saved = {} THEN active' \cap young ELSE {}

\* The slow path is not due.
FastTick ==
  /\ pc = "tick" /\ state = "ACTIVE"
  /\ slow' = FALSE /\ active' = active /\ AfterTick
  /\ UNCHANGED <<state, max_positions, pending, ahead, saved, fills, young, real,
                 order, past>>

\* The slow path drains the exit buffer and may close old positions by time.
SlowTick ==
  /\ pc = "tick" /\ state = "ACTIVE"
  /\ slow' = TRUE /\ pending' = {}
  /\ \E old \in SUBSET (active \ young) : active' = active \ old
  /\ AfterTick
  /\ UNCHANGED <<state, max_positions, ahead, saved, fills, young, real, order,
                 past>>

-----------------------------------------------------------------------------
\* A real order for a position of this tick, unless it is too small.
Buy(s) ==
  /\ pc = "buys" /\ s \in walk /\ \A other \in walk : s <= other
  /\ walk' = walk \ {s}
  /\ Send("BUY", {s}, 1, "buys") \/ UNCHANGED <<pc, order>>
  /\ UNCHANGED <<paper, saved, fills, young, slow, real, past>>

\* Slip: positions without a real order are kept.
UndoNothing ==
  /\ pc = "buys" /\ walk = {} /\ pc' = "sells"
  /\ UNCHANGED <<paper, tick, real, order, past>>

\* Positions of this tick without a real order are taken back.
Undo ==
  /\ pc = "buys" /\ walk = {} /\ pc' = "sells"
  /\ active' = active \ (young \ live)
  /\ UNCHANGED <<state, max_positions, pending, ahead, tick, real, order, past>>

\* No exit of this tick was live: their bits are clear already.
NothingToSell ==
  /\ pc = "sells" /\ saved \cap live = {} /\ pc' = "slow"
  /\ UNCHANGED <<paper, tick, real, order, past>>

\* With one position at a time the whole balance goes, and so do all bits.  A failed
\* query reads as no balance.
SellAll ==
  /\ pc = "sells" /\ saved \cap live # {} /\ max_positions = 1
  /\ \/ btc > 0 /\ Send("SELL", live, btc, "slow") /\ UNCHANGED <<live, drift>>
     \/ /\ pc' = "slow" /\ live' = {}
        /\ drift' = IF btc > 0 THEN drift \cup {"surplus"} ELSE drift
        /\ UNCHANGED order
  /\ UNCHANGED <<paper, tick, btc, missed, reused>>

\* Otherwise each exit is sold by itself, in the order of the records; one that is
\* too small is not.
SellOne(s) ==
  /\ pc = "sells" /\ s \in saved \cap live /\ max_positions > 1
  /\ \/ Send("SELL", {s}, 1, "sells") /\ UNCHANGED <<live, drift>>
     \/ /\ live' = live \ {s} /\ drift' = drift \cup {"surplus"}
        /\ UNCHANGED <<pc, order>>
  /\ UNCHANGED <<paper, tick, btc, missed, reused>>

-----------------------------------------------------------------------------
\* The iteration is over.
Done ==
  /\ pc = "done" /\ pc' = "loop"
  /\ saved' = {} /\ fills' = {} /\ young' = {} /\ slow' = FALSE /\ reused' = {}
  /\ UNCHANGED <<paper, walk, real, order, drift, missed>>

NoReconciliation ==
  /\ pc = "slow" /\ ~slow /\ pc' = "done"
  /\ UNCHANGED <<paper, tick, real, order, past>>

QueryFails ==
  /\ pc = "slow" /\ slow /\ pc' = "done"
  /\ missed' = Orphans
  /\ UNCHANGED <<paper, tick, real, order, drift, reused>>

\* No BTC: whatever was held was sold by other hands.
QueryFindsNone ==
  /\ pc = "slow" /\ slow /\ btc = 0 /\ pc' = "done"
  /\ live' = {} /\ active' = {} /\ missed' = {}
  /\ UNCHANGED <<state, max_positions, pending, ahead, tick, btc, order, drift, reused>>

\* Slip: only the balance is synchronised.
QueryLooksAway ==
  /\ pc = "slow" /\ slow /\ btc > 0 /\ pc' = "done"
  /\ missed' = Orphans
  /\ UNCHANGED <<paper, tick, real, order, drift, reused>>

\* Some BTC: look for positions only the exchange knows.
QueryFindsSome ==
  /\ pc = "slow" /\ slow /\ btc > 0 /\ pc' = "orphans"
  /\ missed' = {}
  /\ UNCHANGED <<paper, tick, real, order, drift, reused>>

\* A real position whose paper one the time exit has closed is sold.
SellOrphan(s) ==
  /\ pc = "orphans" /\ s \in Orphans
  /\ \/ Send("SELL", {s}, 1, "orphans") /\ UNCHANGED <<live, drift>>
     \/ /\ live' = live \ {s} /\ drift' = drift \cup {"surplus"}
        /\ UNCHANGED <<pc, order>>
  /\ UNCHANGED <<paper, tick, btc, missed, reused>>

\* Slip: the loop stops at an orphan.
OrphansLeft ==
  /\ pc = "orphans" /\ pc' = "done"
  /\ UNCHANGED <<paper, tick, real, order, past>>

OrphansSold ==
  /\ pc = "orphans" /\ Orphans = {} /\ pc' = "done"
  /\ UNCHANGED <<paper, tick, real, order, past>>

Stopped == pc = "stopped" /\ UNCHANGED vars

-----------------------------------------------------------------------------
Startup     == StartFails \/ StartMatched \/ StartCleared \/ StartSwept
Request     == Filled \/ Refused \/ Unanswered \/ GiveUp
EngineTick  == SaveExits \/ WarmupTick \/ FastTick \/ SlowTick
               \/ \E s \in Slots : Fill(s)
Orders      == Undo \/ NothingToSell \/ SellAll
               \/ \E s \in Slots : Buy(s) \/ SellOne(s)
QueryDone   == QueryFindsNone \/ QueryFindsSome
Reconcile   == NoReconciliation \/ QueryFails \/ QueryDone \/ OrphansSold \/ Done
               \/ \E s \in Slots : SellOrphan(s)
Session     == SessionEnds \/ NewSession
Others      == HotReload \/ SoldOutside \/ \E s \in Slots : ExitGate(s)

Engine == Startup \/ Request \/ EngineTick \/ Orders \/ Reconcile \/ NewSession

Next == Engine \/ Session \/ Others \/ Stopped

\* The loop never blocks for good.  The slow path is due again and again, and a
\* query tried again and again is answered in the end.
Fairness == WF_vars(Engine) /\ SF_vars(SlowTick) /\ SF_vars(QueryDone)

Spec == Init /\ [][Next]_vars /\ Fairness

-----------------------------------------------------------------------------
TypeOK ==
  /\ pc \in {"startup", "loop", "close", "tick", "buys", "sells", "slow",
             "orphans", "order", "done", "stopped"}
  /\ state \in {"WARMUP", "ACTIVE"} /\ max_positions \in 1 .. NSlots
  /\ active \in SUBSET Slots /\ live \in SUBSET Slots
  /\ pending \in SUBSET Slots /\ saved \in SUBSET Slots
  /\ fills \in SUBSET young /\ young \in SUBSET Slots
  /\ ahead \in SUBSET Slots /\ walk \in SUBSET Slots
  /\ slow \in BOOLEAN /\ btc \in Nat
  /\ order \in [side : {"BUY", "SELL", "NONE"}, bits : SUBSET Slots, qty : Nat,
                left : 0 .. Retries,
                then : {"loop", "close", "buys", "sells", "slow", "orphans"}]
  /\ (pc = "order") <=> (order.side # "NONE")
  /\ drift \in SUBSET Drifts /\ missed \in SUBSET Slots /\ reused \in SUBSET fills

\* Each live position is backed by the account, unless a sale went unanswered, BTC
\* left by other hands, or the start matched positions with less: no refused order,
\* failed query or undo, and no reuse of a slot, makes a bit without BTC
\* (live_position_bitmap in main.cpp).
LiveIsBacked ==
  "shortfall" \notin drift => Cardinality(live) <= btc

\* The account holds no BTC that no live bit stands for, unless a purchase went
\* unanswered, a sale did not take place, a slot was bought again while its bit was
\* set, or the start found more: undo, time exit and session end forget none.
NoForgottenBtc ==
  "surplus" \notin drift /\ pc \notin {"startup", "stopped", "order"}
    => btc <= Cardinality(live)

\* A live bit without a position belongs to an exit of this burst, or to a time
\* exit no query has succeeded since (orphan detection).
OrphansAreKnown ==
  pc = "loop" => Orphans \subseteq pending \cup missed

\* A position of this tick has a real order behind it or was taken back, whatever
\* became of the order; the one exception is a slot whose last owner's bit was
\* still set when it was filled (undo of paper positions).
FillsAreBacked ==
  pc = "done" => fills \cap active \subseteq live \cup reused

\* A real position without a paper one is sold, given up, or replaced.
OrphansEnd ==
  \A s \in Slots : s \in Orphans ~> s \notin Orphans
=============================================================================
