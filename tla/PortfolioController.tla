------------------------ MODULE PortfolioController ------------------------
(***************************************************************************)
(* The paper-trading core of the engine: one thread that, on every tick,   *)
(* runs BuyGate, PositionExitGate and PortfolioController_Tick over four   *)
(* shared structures: the order pool, the portfolio bitmap, the exit       *)
(* buffer and the counters.                                                *)
(*                                                                         *)
(* The thread is sequential; pc names the function it is in, and every     *)
(* loop body of those functions is one action.  What a tick does to money  *)
(* and to the buy gate is data here: whether the gate passes, whether a    *)
(* price level is hit, whether there are funds and whether the wall clock  *)
(* forces the slow path are inputs of the actions.                         *)
(*                                                                         *)
(* A lot is one purchase.  Lots are history: the code never names them, it *)
(* finds a position by its slot, and the properties ask whether that slot  *)
(* still means the same purchase.                                          *)
(***************************************************************************)
EXTENDS Integers, Sequences, FiniteSets

CONSTANTS
  NSlots,        \* portfolio slots (16 in the code)
  PoolCap,       \* order-pool slots (64 in the code)
  BufCap,        \* exit records the buffer holds (16 in the code)
  Prices,        \* prices a trade can print
  Spacings,      \* entry spacings the rolling statistics can ask for
  Configs,       \* configurations the engine can start with or reload
  WarmupTicks,   \* ticks before trading may start
  MinSamples,    \* rolling samples before trading may start
  Window,        \* size of the rolling window (128 in the code)
  MaxAge,        \* bound of the model: a slot's age is counted up to here
  LowGain,       \* outcomes of the minimum-gain test of the time exit
  Restored,      \* portfolio bitmaps a snapshot can restore
  RestoredLag,   \* ticks by which restored entry ticks are ahead of the clock
  RestoredStats, \* purchase and exit counters a snapshot can restore
  MaxBuys        \* bound of the model: purchases made in one behaviour

Slots     == 0 .. NSlots - 1
PoolSlots == 0 .. PoolCap - 1

ASSUME SizesAssumption ==
  /\ NSlots \in Nat \ {0}
  /\ PoolCap \in Nat \ {0}
  /\ BufCap \in Nat \ {0}

\* The fields of ControllerConfig that decide control.  max_positions is clamped
\* when the file is parsed; max_hold_ticks = 0 disables the time exit.
Config == [max_positions  : 1 .. NSlots,
           poll_interval  : Nat \ {0},
           max_hold_ticks : 0 .. MaxAge]

\* The counters of a session, as a snapshot of version 7 holds them.
Stats == [total_buys : Nat, wins : Nat, losses : Nat]

ASSUME ConfigAssumption ==
  /\ Configs \subseteq Config
  /\ Prices \subseteq Nat \ {0}
  /\ Spacings \subseteq Nat
  /\ WarmupTicks \in Nat /\ MinSamples \in Nat /\ Window \in Nat
  /\ MaxAge \in Nat
  /\ LowGain \subseteq BOOLEAN
  /\ Restored \subseteq SUBSET Slots
  /\ RestoredLag \subseteq Nat
  /\ RestoredStats \subseteq Stats
  /\ MaxBuys \in Nat

VARIABLES
  pc,             \* the function the engine thread is in
  state,          \* WARMUP or ACTIVE
  price,          \* last price read from the stream, 0 before the first one
  tick_count,     \* ticks since the slow path last ran
  warmup_count,   \* warmup ticks seen
  samples,        \* samples in the rolling window
  pool,           \* order-pool bitmap
  slot_price,     \* price of each order-pool slot
  prev_bitmap,    \* the pool as the controller left it
  fills,          \* fills still to be looked at in this tick
  consumed,       \* fills this tick took from the pool
  active_bitmap,  \* portfolio bitmap
  positions,      \* data of each portfolio slot
  held,           \* total_ticks - entry_ticks of each slot, up to MaxAge
  config,         \* the configuration in force
  exit_buf,       \* exits recorded and not drained
  walk,           \* the copy of the bitmap a loop walks down
  drained,        \* records the running drain has processed
  total_buys, wins, losses,
  next_lot,       \* history: the next lot
  booked          \* history: every exit booked, and the lot whose data it used

portfolioVars == <<active_bitmap, positions, held, config>>
poolVars      == <<pool, slot_price, prev_bitmap, fills, consumed>>
exitVars      == <<exit_buf, walk, drained>>
statVars      == <<total_buys, wins, losses, next_lot, booked>>
clockVars     == <<state, price, tick_count, warmup_count, samples>>
vars == <<pc, clockVars, poolVars, portfolioVars, exitVars, statVars>>

Reasons == {"TP", "SL"}

Position   == [entry_price : Prices \cup {0}, lot : Nat]
ExitRecord == [position_index : Slots, reason : Reasons, lot : Nat]
Booking    == [lot : Nat, as : Nat]

EmptyPosition == [entry_price |-> 0, lot |-> 0]

\* __builtin_ctz of a bitmap that is not zero.
IsLowest(i, S) == i \in S /\ \A j \in S : i <= j

CountActive == Cardinality(active_bitmap)

\* Slip: index 0 is taken for "not found".
FindByPriceZeroIsNone(p) ==
  \E i \in active_bitmap \ {0} : positions[i].entry_price = p

FindByPrice(p) == \E i \in active_bitmap : positions[i].entry_price = p

Distance(p, q) == IF p < q THEN q - p ELSE p - q
TooClose(p, spacing) ==
  \E i \in active_bitmap : Distance(p, positions[i].entry_price) < spacing

\* Slip: one position too many.
HasRoomOffByOne == CountActive <= config.max_positions

HasRoom == CountActive < config.max_positions

-----------------------------------------------------------------------------
\* What a snapshot restores: the bitmap, the positions behind it, their entry
\* ticks and the counters.  total_ticks is not restored, so a restored slot has a
\* negative age.  The counters need not fit the bitmap: files older than version
\* 7 hold none and leave zeros, and a file written while exits were waiting counts
\* purchases that are neither open in it nor won nor lost.  A restored slot i
\* holds lot i + 1; the lots bought from now on start at NSlots + 1.
LoadSnapshot ==
  /\ active_bitmap \in Restored
  /\ \E entry \in [Slots -> Prices] :
       /\ \A i, j \in active_bitmap : entry[i] = entry[j] => i = j
       /\ positions = [i \in Slots |->
                         IF i \in active_bitmap
                         THEN [entry_price |-> entry[i], lot |-> i + 1]
                         ELSE EmptyPosition]
  /\ \E lag \in RestoredLag :
        held = [i \in Slots |-> IF i \in active_bitmap THEN 0 - lag ELSE 0]
  /\ \E stats \in RestoredStats :
        /\ total_buys = stats.total_buys
        /\ wins = stats.wins /\ losses = stats.losses

\* PortfolioController_Init, then LoadSnapshot.
Init ==
  /\ pc = "poll" /\ state = "WARMUP" /\ price = 0
  /\ tick_count = 0 /\ warmup_count = 0 /\ samples = 0
  /\ pool = {} /\ slot_price = [i \in PoolSlots |-> 0]
  /\ prev_bitmap = {} /\ fills = {} /\ consumed = {}
  /\ LoadSnapshot
  /\ config \in Configs
  /\ exit_buf = <<>> /\ walk = {} /\ drained = 0
  /\ next_lot = NSlots + 1 /\ booked = {}

-----------------------------------------------------------------------------
(* The main loop outside the engine tick.                                  *)

\* One frame of a burst: the price is taken and the exit gate runs on it.
ReadTick(p) ==
  /\ pc = "poll"
  /\ price' = p
  /\ walk' = active_bitmap
  /\ pc' = "burst_gate"
  /\ UNCHANGED <<state, tick_count, warmup_count, samples, poolVars,
                 portfolioVars, exit_buf, drained, statVars>>

\* The operator reloads the configuration file.
HotReload(new_cfg) ==
  /\ pc = "poll"
  /\ config' = new_cfg
  /\ UNCHANGED <<pc, clockVars, poolVars, active_bitmap, positions, held,
                 exitVars, statVars>>

\* The lowest free pool slot takes the price.  With no free slot __builtin_ctzll
\* is applied to zero: the bitmap is full already, and the price is written to
\* some slot of the pool or outside it.
PlaceFill ==
  IF pool # PoolSlots
  THEN \E i \in PoolSlots :
         /\ IsLowest(i, PoolSlots \ pool)
         /\ pool' = pool \cup {i}
         /\ slot_price' = [slot_price EXCEPT ![i] = price]
  ELSE /\ pool' = pool
       /\ \/ slot_price' = slot_price
          \/ \E i \in PoolSlots : slot_price' = [slot_price EXCEPT ![i] = price]

\* The engine tick starts, only once there has been a price.  The gate is also
\* asked during warmup, where an operator can have opened it.
BuyGate(pass) ==
  /\ pc = "poll" /\ price # 0
  /\ IF pass THEN PlaceFill ELSE UNCHANGED <<pool, slot_price>>
  /\ walk' = active_bitmap
  /\ pc' = "exit_gate"
  /\ UNCHANGED <<clockVars, prev_bitmap, fills, consumed, portfolioVars,
                 exit_buf, drained, statVars>>

-----------------------------------------------------------------------------
(* PositionExitGate: walks the bitmap it read at its start.                *)

\* One position: if a level is hit and the buffer has room, the exit is
\* recorded and the slot's bit is cleared.  The slot keeps its data.
ExitGateStep(i, hit) ==
  /\ pc \in {"burst_gate", "exit_gate"}
  /\ IsLowest(i, walk)
  /\ walk' = walk \ {i}
  /\ IF hit \in Reasons /\ Len(exit_buf) < BufCap
     THEN /\ exit_buf' = Append(exit_buf, [position_index |-> i, reason |-> hit,
                                           lot |-> positions[i].lot])
          /\ active_bitmap' = active_bitmap \ {i}
     ELSE UNCHANGED <<exit_buf, active_bitmap>>
  /\ UNCHANGED <<pc, clockVars, poolVars, positions, held, config,
                 drained, statVars>>

ExitGateReturn ==
  /\ pc \in {"burst_gate", "exit_gate"} /\ walk = {}
  /\ pc' = IF pc = "burst_gate" THEN "poll" ELSE "tick"
  /\ UNCHANGED <<clockVars, poolVars, portfolioVars, exitVars, statVars>>

-----------------------------------------------------------------------------
(* PortfolioController_Tick.                                               *)

\* Slip: only the warmup branch advances the clock.
AgeSlotsInWarmupOnly ==
  held' = [i \in Slots |-> IF state = "WARMUP" /\ held[i] < MaxAge
                           THEN held[i] + 1 ELSE held[i]]

\* total_ticks is kept as the age of each open slot, as far as the time exit
\* asks.
AgeSlots ==
  held' = [i \in Slots |-> IF i \in active_bitmap /\ held[i] < MaxAge
                           THEN held[i] + 1 ELSE held[i]]

\* RollingStats_Push, of which the core sees how full the window is.
PushSample == samples' = IF samples < Window THEN samples + 1 ELSE samples

SampleDue(time_floor) ==
  (warmup_count + 1) % config.poll_interval = 0 \/ time_floor

\* A tick of the warmup phase.  A sample is pushed every poll_interval ticks, or
\* when the wall clock asks for one; enough ticks and samples end the phase.
\* The fills in the pool are not looked at.
TickWarmup(time_floor) ==
  /\ pc = "tick" /\ state = "WARMUP"
  /\ AgeSlots
  /\ warmup_count' = warmup_count + 1
  /\ IF SampleDue(time_floor)
     THEN PushSample /\ tick_count' = 0
     ELSE samples' = samples /\ tick_count' = tick_count + 1
  /\ state' = IF warmup_count' >= WarmupTicks /\ samples' >= MinSamples
              THEN "ACTIVE" ELSE state
  /\ pc' = IF exit_buf # <<>> THEN "drain_warmup" ELSE "poll"
  /\ UNCHANGED <<price, poolVars, active_bitmap, positions, config, exitVars,
                 statVars>>

\* A tick of the active phase: the fills that are new since the last tick, or
\* none of them when the portfolio is at its cap.
TickActive ==
  /\ pc = "tick" /\ state = "ACTIVE"
  /\ AgeSlots
  /\ tick_count' = tick_count + 1
  /\ fills' = IF HasRoom THEN pool \ prev_bitmap ELSE {}
  /\ consumed' = fills'
  /\ pc' = "fills"
  /\ UNCHANGED <<state, price, warmup_count, samples, pool, slot_price,
                 prev_bitmap, active_bitmap, positions, config, exitVars,
                 statVars>>

\* The lowest free slot takes the position.
OpenPosition(p) ==
  \E s \in Slots :
    /\ IsLowest(s, Slots \ active_bitmap)
    /\ active_bitmap' = active_bitmap \cup {s}
    /\ positions' = [positions EXCEPT ![s] = [entry_price |-> p,
                                              lot |-> next_lot]]
    /\ held' = [held EXCEPT ![s] = 0]
    /\ next_lot' = next_lot + 1
    /\ total_buys' = total_buys + 1

\* One fill: the price must be new, the cap not reached, the neighbours far
\* enough, and the balance, exposure and drawdown checks (funded) must hold.
ConsumeFill(i, funded, spacing) ==
  /\ pc = "fills"
  /\ IsLowest(i, fills)
  /\ funded => next_lot <= NSlots + MaxBuys
  /\ fills' = fills \ {i}
  /\ LET p == slot_price[i]
     IN IF /\ ~FindByPrice(p) /\ HasRoom
           /\ ~TooClose(p, spacing) /\ funded
        THEN OpenPosition(p)
        ELSE UNCHANGED <<active_bitmap, positions, held, next_lot, total_buys>>
  /\ UNCHANGED <<pc, clockVars, pool, slot_price, prev_bitmap, consumed,
                 config, exitVars, wins, losses, booked>>

\* Slip: the pool is remembered before the consumed fills leave it.
FillsDoneStalePool(time_floor) ==
  /\ pc = "fills" /\ fills = {}
  /\ pool' = pool \ consumed
  /\ prev_bitmap' = pool
  /\ consumed' = {}
  /\ IF tick_count < config.poll_interval /\ ~time_floor
     THEN pc' = "poll" /\ tick_count' = tick_count
     ELSE pc' = "drain" /\ tick_count' = 0
  /\ UNCHANGED <<state, price, warmup_count, samples, slot_price, fills,
                 portfolioVars, exitVars, statVars>>

\* Slip: the tick count is reset before the slow path is due.
FillsDoneEarlyReset(time_floor) ==
  /\ pc = "fills" /\ fills = {}
  /\ pool' = pool \ consumed
  /\ prev_bitmap' = pool'
  /\ consumed' = {}
  /\ tick_count' = 0
  /\ pc' = IF tick_count < config.poll_interval /\ ~time_floor
           THEN "poll" ELSE "drain"
  /\ UNCHANGED <<state, price, warmup_count, samples, slot_price, fills,
                 portfolioVars, exitVars, statVars>>

\* The consumed fills leave the pool, what stays is remembered as seen, and
\* the slow path runs when its tick count or the wall clock says so.
FillsDone(time_floor) ==
  /\ pc = "fills" /\ fills = {}
  /\ pool' = pool \ consumed
  /\ prev_bitmap' = pool'
  /\ consumed' = {}
  /\ IF tick_count < config.poll_interval /\ ~time_floor
     THEN pc' = "poll" /\ tick_count' = tick_count
     ELSE pc' = "drain" /\ tick_count' = 0
  /\ UNCHANGED <<state, price, warmup_count, samples, slot_price, fills,
                 portfolioVars, exitVars, statVars>>

-----------------------------------------------------------------------------
(* The slow path.                                                          *)

\* DrainExits, one record: profit and loss come from the slot's present data.
DrainExit ==
  /\ pc \in {"drain_warmup", "drain"} /\ drained < Len(exit_buf)
  /\ LET rec == exit_buf[drained + 1]
     IN /\ booked' = booked \cup
                       {[lot |-> rec.lot,
                         as  |-> positions[rec.position_index].lot]}
        /\ wins' = IF rec.reason = "TP" THEN wins + 1 ELSE wins
        /\ losses' = IF rec.reason = "SL" THEN losses + 1 ELSE losses
  /\ drained' = drained + 1
  /\ UNCHANGED <<pc, clockVars, poolVars, portfolioVars, exit_buf, walk,
                 total_buys, next_lot>>

\* Slip: the drained records stay in the buffer.
DrainDoneUncleared ==
  /\ pc \in {"drain_warmup", "drain"} /\ drained = Len(exit_buf)
  /\ drained' = 0
  /\ IF pc = "drain_warmup"
     THEN pc' = "poll" /\ walk' = {}
     ELSE /\ pc' = "time_exit"
          /\ walk' = IF config.max_hold_ticks > 0 THEN active_bitmap ELSE {}
  /\ UNCHANGED <<clockVars, poolVars, portfolioVars, exit_buf, statVars>>

\* The buffer is cleared; the slow path goes on with the time-based exit.
DrainDone ==
  /\ pc \in {"drain_warmup", "drain"} /\ drained = Len(exit_buf)
  /\ exit_buf' = <<>>
  /\ drained' = 0
  /\ IF pc = "drain_warmup"
     THEN pc' = "poll" /\ walk' = {}
     ELSE /\ pc' = "time_exit"
          /\ walk' = IF config.max_hold_ticks > 0 THEN active_bitmap ELSE {}
  /\ UNCHANGED <<clockVars, poolVars, portfolioVars, statVars>>

\* Slip: the position is booked and stays in the portfolio.
TimeExitKeepsSlot(i, low_gain) ==
  /\ pc = "time_exit"
  /\ IsLowest(i, walk)
  /\ walk' = walk \ {i}
  /\ IF held[i] >= config.max_hold_ticks /\ low_gain
     THEN /\ losses' = losses + 1
          /\ booked' = booked \cup {[lot |-> positions[i].lot,
                                     as  |-> positions[i].lot]}
     ELSE UNCHANGED <<losses, booked>>
  /\ UNCHANGED <<pc, clockVars, poolVars, portfolioVars, exit_buf, drained,
                 total_buys, wins, next_lot>>

\* Slip: a time exit is not counted as a loss.
TimeExitUncounted(i, low_gain) ==
  /\ pc = "time_exit"
  /\ IsLowest(i, walk)
  /\ walk' = walk \ {i}
  /\ IF held[i] >= config.max_hold_ticks /\ low_gain
     THEN /\ active_bitmap' = active_bitmap \ {i}
          /\ booked' = booked \cup {[lot |-> positions[i].lot,
                                     as  |-> positions[i].lot]}
     ELSE UNCHANGED <<active_bitmap, booked>>
  /\ UNCHANGED <<pc, clockVars, poolVars, positions, held, config, exit_buf,
                 drained, total_buys, wins, losses, next_lot>>

\* A position held too long without the minimum gain is booked and removed.
TimeExit(i, low_gain) ==
  /\ pc = "time_exit"
  /\ IsLowest(i, walk)
  /\ walk' = walk \ {i}
  /\ IF held[i] >= config.max_hold_ticks /\ low_gain
     THEN /\ active_bitmap' = active_bitmap \ {i}
          /\ losses' = losses + 1
          /\ booked' = booked \cup {[lot |-> positions[i].lot,
                                     as  |-> positions[i].lot]}
     ELSE UNCHANGED <<active_bitmap, losses, booked>>
  /\ UNCHANGED <<pc, clockVars, poolVars, positions, held, config,
                 exit_buf, drained, total_buys, wins, next_lot>>

\* The slow path goes on to the rolling statistics.  Its last part, regime and
\* strategy, decides only when the gate passes.
SlowPathReturn ==
  /\ pc = "time_exit" /\ walk = {}
  /\ PushSample
  /\ pc' = "poll"
  /\ UNCHANGED <<state, price, tick_count, warmup_count, poolVars,
                 portfolioVars, exitVars, statVars>>

-----------------------------------------------------------------------------
PositionExitGate ==
  \/ \E i \in Slots, hit \in Reasons \cup {"none"} : ExitGateStep(i, hit)
  \/ ExitGateReturn

DrainExits == DrainExit \/ DrainDone

Tick ==
  \/ \E time_floor \in BOOLEAN : TickWarmup(time_floor)
  \/ TickActive
  \/ \E i \in PoolSlots, funded \in BOOLEAN, spacing \in Spacings :
        ConsumeFill(i, funded, spacing)
  \/ \E time_floor \in BOOLEAN : FillsDone(time_floor)
  \/ DrainExits
  \/ \E i \in Slots, low_gain \in LowGain : TimeExit(i, low_gain)
  \/ SlowPathReturn

EngineTick == \E pass \in BOOLEAN : BuyGate(pass)

Next ==
  \/ \E p \in Prices : ReadTick(p)
  \/ \E new_cfg \in Configs : HotReload(new_cfg)
  \/ EngineTick
  \/ PositionExitGate
  \/ Tick

Spec == Init /\ [][Next]_vars

\* The thread never stops inside an iteration of its loop, and the loop comes
\* round to the engine tick again and again: bursts of frames end, because
\* reading is faster than the exchange, and poll() returns on a timeout.
FairSpec ==
  Spec /\ WF_vars(PositionExitGate) /\ WF_vars(Tick) /\ SF_vars(EngineTick)

-----------------------------------------------------------------------------
(* Properties.                                                             *)

TypeOK ==
  /\ pc \in {"poll", "burst_gate", "exit_gate", "tick", "fills",
             "drain_warmup", "drain", "time_exit"}
  /\ state \in {"WARMUP", "ACTIVE"}
  /\ price \in Prices \cup {0}
  /\ tick_count \in Nat /\ warmup_count \in Nat /\ samples \in 0 .. Window
  /\ pool \in SUBSET PoolSlots
  /\ slot_price \in [PoolSlots -> Prices \cup {0}]
  /\ prev_bitmap \in SUBSET PoolSlots
  /\ fills \in SUBSET PoolSlots /\ consumed \in SUBSET PoolSlots
  /\ active_bitmap \in SUBSET Slots
  /\ positions \in [Slots -> Position]
  /\ held \in [Slots -> Int]
  /\ config \in Configs
  /\ exit_buf \in Seq(ExitRecord) /\ Len(exit_buf) <= BufCap
  /\ walk \in SUBSET Slots
  /\ drained \in 0 .. Len(exit_buf)
  /\ total_buys \in Nat /\ wins \in Nat /\ losses \in Nat
  /\ next_lot \in Nat /\ booked \in SUBSET Booking

PendingRecords == drained + 1 .. Len(exit_buf)

OpenLots    == {positions[i].lot : i \in active_bitmap}
PendingLots == {exit_buf[k].lot : k \in PendingRecords}
BookedLots  == {b.lot : b \in booked}

\* Every purchase is in exactly one place: open in one slot, recorded once in
\* the exit buffer, or booked.  The exit gate, the drain and the time exit each
\* clear one place when they fill the next, in three functions that share only
\* the bitmap and the buffer.
LotsAccounted ==
  /\ \A i, j \in active_bitmap : positions[i].lot = positions[j].lot => i = j
  /\ \A k, l \in PendingRecords : exit_buf[k].lot = exit_buf[l].lot => k = l
  /\ OpenLots \cap PendingLots = {}
  /\ OpenLots \cap BookedLots = {}
  /\ PendingLots \cap BookedLots = {}
  /\ \A l \in NSlots + 1 .. next_lot - 1 :
        l \in OpenLots \cup PendingLots \cup BookedLots

\* Purchases counted that are neither open, nor waiting in the exit buffer, nor
\* counted as won or lost: what the restored file had left out of its books, and
\* below zero for positions restored without their counters.
Unaccounted ==
  total_buys - (CountActive + (Len(exit_buf) - drained) + wins + losses)

\* A session keeps its statistics in step with the portfolio, from whatever
\* counters it was restored with: every purchase, exit, drained record and time
\* exit moves both sides alike, so what the file left out is all that is ever
\* missing.
CountersBalance == [][Unaccounted' = Unaccounted]_vars

\* A fill BuyGate places is always new to the controller: a slot it remembers
\* as seen is still occupied, so the gate cannot have reused it unseen.
NewFillVisible == prev_bitmap \subseteq pool

\* No two open positions have the same entry price, also when several fills
\* are consumed in one tick.
DistinctEntries ==
  \A i, j \in active_bitmap :
    positions[i].entry_price = positions[j].entry_price => i = j

\* A purchase never takes the portfolio above the configured cap, whatever a
\* snapshot restored and however often the cap is reloaded.
FillsRespectCap ==
  [][CountActive' > CountActive => CountActive' <= config.max_positions]_vars

\* A recorded exit is booked: the slow path comes round while the buffer is
\* not empty, in warmup as well as in trading.
ExitsEventuallyBooked == exit_buf # <<>> ~> exit_buf = <<>>

\* While the time exit is on, a position that stays open for ever is one that
\* gains: the time exit looks at it again and again and finds the minimum gain.
TrappedPositionsFreed ==
  \A i \in Slots :
    <>[](price # 0 /\ i \in active_bitmap /\ config.max_hold_ticks > 0)
      => []<><<held[i] >= config.max_hold_ticks /\ TimeExit(i, FALSE)>>_vars

\* What ExitRecord's comment says: until it is drained, a record's slot still
\* holds the data of the position that left.
RecordsKeepTheirPosition ==
  \A k \in PendingRecords :
    positions[exit_buf[k].position_index].lot = exit_buf[k].lot

\* The controller never leaves the pool without a free slot for BuyGate: it
\* frees the slots of the fills it has seen.
PoolHasRoom == prev_bitmap # PoolSlots

\* The life of a lot, as LotLedger states it.
Ledger == INSTANCE LotLedger
            WITH Lot <- 1 .. NSlots + MaxBuys,
                 open <- OpenLots, pending <- PendingLots, closed <- BookedLots

RefinesLedger == Ledger!Spec
=============================================================================
