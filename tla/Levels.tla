------------------------------- MODULE Levels -------------------------------
(***************************************************************************)
(* The two exit levels of a position.  They are set at the fill, moved by  *)
(* the regime detector when a switch changes the strategy, trailed by the  *)
(* momentum strategy on the slow path, and tested by the exit gate on      *)
(* every trade; nobody else writes them.  The property is what the four    *)
(* promise each other: a target above the stop, a reward in proportion to  *)
(* the risk, a target that pays the fees, a stop that only rises.          *)
(*                                                                         *)
(* Prices are integers, volatility is rolling.price_stddev in the same     *)
(* unit, and levels are multiples of it.  Which regime is detected and     *)
(* whether the trend holds are inputs.  A hit that meets a full exit       *)
(* buffer is not recorded: the position stays open, past its level.        *)
(***************************************************************************)
EXTENDS Integers, FiniteSets

CONSTANTS
  Slots,        \* position slots
  Prices,       \* prices of trades
  Volatilities, \* values of rolling.price_stddev
  Configs,      \* configurations that can be loaded
  Window,       \* MAX_WINDOW: samples the price feeder needs
  Buffer        \* records the exit buffer takes between two drains

\* Rates in per cent; multiples of the standard deviation.  take_profit is
\* both take_profit_pct and, times 100, a multiple; so is stop_loss.  The fee
\* floor is fee_rate times fee_floor_mult, and sl_tp_ratio is min_sl_tp_ratio.
Config == [take_profit : Nat \ {0}, stop_loss : Nat,
           momentum_tp : Nat \ {0}, momentum_sl : Nat,
           tp_trail : Nat, fee_floor : Nat, sl_tp_ratio : Nat,
           trailing : BOOLEAN]

\* FPN_Mul by a rate.
Portion(x, rate) == (x * rate) \div 100

\* The floor of the target is a positive amount: the engine takes fees.
ASSUME LevelsAssumption ==
  /\ Slots \subseteq Nat /\ IsFiniteSet(Slots)
  /\ Prices \subseteq Nat \ {0} /\ Volatilities \subseteq Nat
  /\ 0 \in Volatilities
  /\ Configs \subseteq Config
  /\ \A p \in Prices, c \in Configs : Portion(p, c.fee_floor) > 0
  /\ Window \in Nat \ {0} /\ Buffer \in Nat \ {0}

VARIABLES
  pc,            \* warmup, idle (between engine ticks), tick or slow (in one)
  price,         \* the last trade's price
  leftover,      \* a fill of the warmup still in the pool, or 0
  exits,         \* exit_buf.count: hits recorded since the last drain
  stddev,        \* rolling.price_stddev
  regime,        \* regime.current_regime; the strategy follows from it
  feeder,        \* momentum.price_feeder.count
  config,        \* config
  active_bitmap, \* slots in use
  positions,     \* levels of each slot
  trailed,       \* history: slots whose stop trails
  widened,       \* history: slots whose target a switch moved up
  tightened,     \* history: slots whose target a switch moved down
  late,          \* history: slots filled at a price of the warmup
  overdue,       \* history: slots whose target was reached with the buffer full
  ratio          \* history: sl_tp_ratio when the slot's levels were last set

marketVars  == <<pc, price, leftover, exits>>
statsVars   == <<stddev, regime, feeder, config>>
historyVars == <<trailed, widened, tightened, late, overdue, ratio>>
vars == <<marketVars, statsVars, active_bitmap, positions, historyVars>>

Regimes == {"RANGING", "TRENDING", "VOLATILE", "TRENDING_DOWN"}
Strategies == {"MEAN_REVERSION", "MOMENTUM"}
ToStrategy(r) == IF r = "TRENDING" THEN "MOMENTUM" ELSE "MEAN_REVERSION"
\* As they are numbered: RANGING, TRENDING, VOLATILE, TRENDING_DOWN.
NextRegime(r) ==
  CASE r = "RANGING"  -> "TRENDING"
    [] r = "TRENDING" -> "VOLATILE"
    [] r = "VOLATILE" -> "TRENDING_DOWN"
    [] OTHER          -> "RANGING"

Position == [entry_price : Nat, take_profit_price : Int, stop_loss_price : Int,
             original_tp : Int, entry_strategy : Strategies]
NoPosition == [entry_price |-> 0, take_profit_price |-> 0, stop_loss_price |-> 0,
               original_tp |-> 0, entry_strategy |-> "MEAN_REVERSION"]

Lower(a, b) == IF a < b THEN a ELSE b
Upper(a, b) == IF a > b THEN a ELSE b
IsLowest(i, S) == i \in S /\ \A j \in S : i <= j

-----------------------------------------------------------------------------
(* How levels are computed. *)

\* The stop is at least sl_tp_ratio of the target's distance below the entry.
Floored(pos) ==
  [pos EXCEPT !.stop_loss_price =
     Lower(@, pos.entry_price
                - Portion(pos.take_profit_price - pos.entry_price,
                          config.sl_tp_ratio))]

\* Multiples for a fill: momentum's follow the trend's R2 (per cent) and a
\* bonus of a fifth for a trend that accelerates.
TpOffset(strategy, r2, ror) ==
  IF strategy = "MOMENTUM"
  THEN Portion(Portion(stddev * config.momentum_tp, 50 + r2),
               IF ror THEN 120 ELSE 100)
  ELSE stddev * config.take_profit
SlOffset(strategy, r2) ==
  IF strategy = "MOMENTUM"
  THEN Portion(stddev * config.momentum_sl, 150 - Portion(r2, 50))
  ELSE stddev * config.stop_loss

\* Slip: the fee floor is for targets in per cent only.
FirstTargetWithoutFloor(p, strategy, r2, ror) ==
  IF stddev # 0 THEN p + TpOffset(strategy, r2, ror)
  ELSE Upper(p + Portion(p, config.take_profit), p + Portion(p, config.fee_floor))

\* Stddev levels when there are statistics, per cent when there are none; the
\* target is kept above the fees of a round trip.
FirstTarget(p, strategy, r2, ror) ==
  Upper(IF stddev # 0 THEN p + TpOffset(strategy, r2, ror)
        ELSE p + Portion(p, config.take_profit),
        p + Portion(p, config.fee_floor))
FirstStop(p, strategy, r2) ==
  IF stddev # 0 THEN p - SlOffset(strategy, r2)
  ELSE Portion(p, 100 - config.stop_loss)

\* What a fill at p puts in its slot.
Bought(p, r2, ror) ==
  LET strategy == ToStrategy(regime)
      target   == FirstTarget(p, strategy, r2, ror)
  IN  Floored([entry_price |-> p, take_profit_price |-> target,
               stop_loss_price |-> FirstStop(p, strategy, r2),
               original_tp |-> target, entry_strategy |-> strategy])

\* Regime_AdjustPositions, from ranging to trending.
Widened(pos, s) ==
  Floored([pos EXCEPT
    !.take_profit_price = Upper(@, pos.entry_price + s * config.momentum_tp),
    !.stop_loss_price   = Upper(@, pos.entry_price - s * config.momentum_sl)])

\* Slip: the target comes down to below the entry.
TightenedBelowEntry(pos, s) ==
  Floored([pos EXCEPT
    !.take_profit_price = Lower(@, pos.entry_price - s * config.take_profit),
    !.stop_loss_price   = Lower(@, pos.entry_price - s * config.stop_loss)])

\* From trending to ranging.
Tightened(pos, s) ==
  Floored([pos EXCEPT
    !.take_profit_price = Lower(@, pos.entry_price + s * config.take_profit),
    !.stop_loss_price   = Lower(@, pos.entry_price - s * config.stop_loss)])

\* From trending to trending down.
CutShort(pos, s) ==
  Floored([pos EXCEPT
    !.take_profit_price = Lower(@, pos.entry_price + s * config.momentum_tp),
    !.stop_loss_price   = Upper(@, pos.entry_price - s * config.momentum_sl)])

Widens(old, new) == old = "RANGING" /\ new = "TRENDING"
Tightens(old, new) == old = "TRENDING" /\ new \in {"RANGING", "TRENDING_DOWN"}

\* A switch adjusts the positions bought by the strategy it leaves, in a market
\* with volatility; to and from a volatile market it leaves them alone.
Adjusted(i, old, new, s) ==
  /\ Widens(old, new) \/ Tightens(old, new)
  /\ s # 0 /\ positions[i].entry_strategy = ToStrategy(old)

AfterSwitch(i, old, new, s) ==
  IF Adjusted(i, old, new, s)
  THEN CASE Widens(old, new) -> Widened(positions[i], s)
         [] new = "RANGING"  -> Tightened(positions[i], s)
         [] OTHER            -> CutShort(positions[i], s)
  ELSE positions[i]

\* Momentum_ExitAdjust: both levels follow the price upwards.
Trail(pos, s) ==
  [pos EXCEPT !.take_profit_price = Upper(@, price - s * config.tp_trail),
              !.stop_loss_price   = Upper(@, price - s * config.momentum_sl)]

-----------------------------------------------------------------------------
Init ==
  /\ pc = "warmup" /\ price \in Prices /\ leftover = 0 /\ exits = 0
  /\ stddev = 0 /\ regime = "RANGING" /\ feeder = 0 /\ config \in Configs
  /\ active_bitmap = {} /\ positions = [i \in Slots |-> NoPosition]
  /\ trailed = {} /\ widened = {} /\ tightened = {} /\ late = {}
  /\ overdue = {} /\ ratio = [i \in Slots |-> 0]

\* Only slots in S stay open, those in passed past their target; what a free
\* slot holds is not read any more.
Keep(S, passed) ==
  /\ active_bitmap' = S
  /\ positions' = [i \in Slots |-> IF i \in S THEN positions[i] ELSE NoPosition]
  /\ trailed' = trailed \cap S /\ widened' = widened \cap S
  /\ tightened' = tightened \cap S /\ late' = late \cap S
  /\ overdue' = (overdue \cup passed) \cap S
  /\ ratio' = [i \in Slots |-> IF i \in S THEN ratio[i] ELSE 0]

\* Positions whose target, or either level, is reached at price p.
AtTarget(p) == {i \in active_bitmap : p >= positions[i].take_profit_price}
AtLevel(p) ==
  AtTarget(p) \cup {i \in active_bitmap : p <= positions[i].stop_loss_price}

\* PositionExitGate at price p: hits are recorded in the order of their slots
\* until the buffer is full; those recorded are closed.
ExitGate(p) ==
  LET recorded == {i \in AtLevel(p) :
                     exits + Cardinality({j \in AtLevel(p) : j < i}) < Buffer}
  IN  /\ Keep(active_bitmap \ recorded, AtTarget(p))
      /\ exits' = Lower(exits + Cardinality(AtLevel(p)), Buffer)

\* A trade of a burst: the exit gate runs on every price of it.
Trade(p) ==
  /\ pc \in {"warmup", "idle"}
  /\ price' = p
  /\ ExitGate(p)
  /\ UNCHANGED <<pc, leftover, statsVars>>

\* The operator's key opens the gate in warmup; what it lets pass stays in the
\* pool until the warmup is over.
WarmupFill ==
  /\ pc = "warmup"
  /\ leftover' = price
  /\ UNCHANGED <<pc, price, exits, statsVars, active_bitmap, positions, historyVars>>

\* A tick of the warmup: a sample, which may be the last, and DrainExits.
WarmupPush(s) ==
  /\ pc = "warmup"
  /\ pc' \in {"warmup", "idle"} /\ stddev' = s /\ exits' = 0
  /\ UNCHANGED <<price, leftover, regime, feeder, config, active_bitmap,
                 positions, historyVars>>

\* The engine tick: the exit gate comes before PortfolioController_Tick.
EngineTick ==
  /\ pc = "idle"
  /\ pc' = "tick"
  /\ ExitGate(price)
  /\ UNCHANGED <<price, leftover, statsVars>>

\* The fill loop, for a fill that is admitted: its levels, in a free slot.
Buy(fill_price, r2, ror) ==
  /\ pc = "tick" /\ active_bitmap # Slots
  /\ fill_price \in {price, leftover} \ {0}
  /\ \E slot \in Slots :
       /\ IsLowest(slot, Slots \ active_bitmap)
       /\ active_bitmap' = active_bitmap \cup {slot}
       /\ positions' = [positions EXCEPT ![slot] = Bought(fill_price, r2, ror)]
       /\ late' = IF fill_price = leftover THEN late \cup {slot} ELSE late
       /\ ratio' = [ratio EXCEPT ![slot] = config.sl_tp_ratio]
  /\ leftover' = IF fill_price = leftover THEN 0 ELSE leftover
  /\ UNCHANGED <<pc, price, exits, statsVars, trailed, widened, tightened,
                 overdue>>

\* The fills are done; every poll_interval ticks the slow path follows, which
\* drains the exit buffer first.
FillsDone ==
  /\ pc = "tick"
  /\ pc' \in {"idle", "slow"}
  /\ exits' = IF pc' = "slow" THEN 0 ELSE exits
  /\ UNCHANGED <<price, leftover, statsVars, active_bitmap, positions,
                 historyVars>>

\* The time exit of the slow path: which position is too old is left open.
TimeExit(i) ==
  /\ pc = "slow" /\ i \in active_bitmap
  /\ Keep(active_bitmap \ {i}, {})
  /\ UNCHANGED <<marketVars, statsVars>>

\* What a switch leaves in the histories.
SwitchHistory(old, new, s) ==
  LET of == {i \in active_bitmap : Adjusted(i, old, new, s)}
  IN  /\ widened'   = IF Widens(old, new) THEN widened \cup of ELSE widened
      /\ tightened' = IF Tightens(old, new) THEN tightened \cup of ELSE tightened
      /\ ratio' = [i \in Slots |-> IF i \in of THEN config.sl_tp_ratio ELSE ratio[i]]

\* RegressionFeederX_Push.
Push(count) == Lower(count + 1, Window)

\* Slip: a position is held from its entry on.
TrailsAboveEntry(i, new, s, strong) ==
  /\ ToStrategy(new) = "MOMENTUM" /\ config.trailing /\ s # 0 /\ strong
  /\ price > positions[i].entry_price

\* Positions the momentum strategy trails: past their first target, with a
\* trend strong and consistent enough to hold them.
Trails(i, new, s, strong) ==
  /\ ToStrategy(new) = "MOMENTUM" /\ config.trailing /\ s # 0 /\ strong
  /\ price > positions[i].original_tp

\* The slow path: new statistics, the regime and its adjustment, then the
\* strategy in force: momentum feeds its regression and trails.
SlowPath(s, new, strong) ==
  /\ pc = "slow"
  /\ pc' = "idle" /\ stddev' = s /\ regime' = new /\ leftover' = 0
  /\ feeder' = IF ToStrategy(new) = "MOMENTUM" THEN Push(feeder) ELSE feeder
  /\ strong => feeder' = Window
  /\ positions' = [i \in Slots |->
       IF i \notin active_bitmap THEN positions[i]
       ELSE LET pos == AfterSwitch(i, regime, new, s)
            IN  IF Trails(i, new, s, strong) THEN Trail(pos, s) ELSE pos]
  /\ SwitchHistory(regime, new, s)
  /\ trailed' = {i \in trailed : ~Adjusted(i, regime, new, s)}
                  \cup {i \in active_bitmap : Trails(i, new, s, strong)}
  /\ UNCHANGED <<price, exits, config, active_bitmap, late, overdue>>

\* The key g: the next regime, by hand.
CycleRegime ==
  /\ pc \in {"warmup", "idle"}
  /\ LET new == NextRegime(regime)
     IN  /\ regime' = new
         /\ positions' = [i \in Slots |->
              IF i \in active_bitmap THEN AfterSwitch(i, regime, new, stddev)
              ELSE positions[i]]
         /\ SwitchHistory(regime, new, stddev)
         /\ trailed' = {i \in trailed : ~Adjusted(i, regime, new, stddev)}
  /\ UNCHANGED <<marketVars, stddev, feeder, config, active_bitmap, late,
                 overdue>>

\* The key r: other multiples and ratios; open positions keep their levels.
HotReload(cfg) ==
  /\ pc \in {"warmup", "idle"}
  /\ config' = cfg
  /\ UNCHANGED <<marketVars, stddev, regime, feeder, active_bitmap, positions,
                 historyVars>>

\* A restart after a clean stop: positions and regime come from the snapshot,
\* statistics and the feeder start again.
Restart(p, cfg) ==
  /\ pc = "idle"
  /\ pc' = "warmup" /\ price' = p /\ leftover' = 0 /\ exits' = 0
  /\ stddev' = 0 /\ feeder' = 0 /\ config' = cfg
  /\ UNCHANGED <<regime, active_bitmap, positions, historyVars>>

\* The session boundary: every position closed, everything at its start.
NewSession(cfg) ==
  /\ pc = "idle"
  /\ pc' = "warmup" /\ leftover' = 0 /\ exits' = 0
  /\ stddev' = 0 /\ regime' = "RANGING" /\ feeder' = 0 /\ config' = cfg
  /\ Keep({}, {})
  /\ UNCHANGED price

Next ==
  \/ \E p \in Prices : Trade(p)
  \/ WarmupFill
  \/ \E s \in Volatilities : WarmupPush(s)
  \/ EngineTick
  \/ \E p \in Prices, r2 \in {0, 100}, ror \in BOOLEAN : Buy(p, r2, ror)
  \/ \E i \in Slots : TimeExit(i)
  \/ FillsDone
  \/ \E s \in Volatilities, new \in Regimes, strong \in BOOLEAN :
       SlowPath(s, new, strong)
  \/ CycleRegime
  \/ \E cfg \in Configs : HotReload(cfg)
  \/ \E p \in Prices, cfg \in Configs : Restart(p, cfg)
  \/ \E cfg \in Configs : NewSession(cfg)

Spec == Init /\ [][Next]_vars

-----------------------------------------------------------------------------
(* Properties. *)

\* Everything stays in its type; the feeder never counts past its window.
TypeOK ==
  /\ pc \in {"warmup", "idle", "tick", "slow"}
  /\ price \in Prices /\ leftover \in Prices \cup {0} /\ exits \in 0 .. Buffer
  /\ stddev \in Volatilities /\ regime \in Regimes
  /\ feeder \in 0 .. Window /\ config \in Configs
  /\ active_bitmap \subseteq Slots
  /\ positions \in [Slots -> Position]
  /\ trailed \subseteq Slots /\ widened \subseteq Slots
  /\ tightened \subseteq Slots /\ late \subseteq Slots
  /\ overdue \subseteq Slots /\ ratio \in [Slots -> Nat]

\* The risk stays in proportion to the reward: unless its stop trails, a
\* position's stop is below the entry by at least the part of the target's
\* distance that min_sl_tp_ratio asked for when its levels were last set, by
\* the fill or a switch, whatever was reloaded or restarted in between.
RewardToRisk ==
  \A i \in active_bitmap \ trailed :
    LET pos == positions[i]
    IN  pos.entry_price - pos.stop_loss_price
          >= Portion(pos.take_profit_price - pos.entry_price, ratio[i])

\* The stop is below the target, so that a price decides between the two; only
\* a fill left over from the warmup, and a position whose target was reached
\* while the exit buffer was full, can be trailed past its target.
StopBelowTarget ==
  \A i \in active_bitmap \ (late \cup overdue) :
    positions[i].stop_loss_price < positions[i].take_profit_price

\* Only positions bought by mean reversion and widened by a switch are ever
\* trailed: every other one is sold by the gate at its first target, before
\* the slow path sees it past that, but for fills of the warmup and for hits
\* that the full exit buffer turned away.
OnlyWidenedTrail ==
  trailed \cap active_bitmap \subseteq widened \cup late \cup overdue

\* What the fee floor is for (COMPONENTS.md, TP fee floor): a target above the
\* entry by the fees of a round trip.  Only a switch out of trending gives that
\* up; widening, trailing, reloads and restarts keep it.
TargetPays ==
  \A i \in active_bitmap \ tightened :
    \E c \in Configs :
      positions[i].take_profit_price
        >= positions[i].entry_price + Portion(positions[i].entry_price, c.fee_floor)

\* A stop comes down only when a switch of the regime adjusts it.
StopRatchets ==
  [][\A i \in active_bitmap \cap active_bitmap' :
       positions'[i].stop_loss_price < positions[i].stop_loss_price
         => Adjusted(i, regime, regime', stddev')]_vars

\* Trailing never raises a target, because the gate has sold every position
\* whose target is not above the price: only a switch does.  Fills of the
\* warmup and hits the full exit buffer turned away are the exceptions.
TargetsRaisedBySwitch ==
  [][\A i \in (active_bitmap \cap active_bitmap') \ (late \cup overdue) :
       positions'[i].take_profit_price > positions[i].take_profit_price
         => Widens(regime, regime')]_vars
=============================================================================
