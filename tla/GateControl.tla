---------------------------- MODULE GateControl ----------------------------
(***************************************************************************)
(* Who opens and closes the buy gate.  The gate is three numbers, a price, *)
(* a volume and a direction, and "closed" is written as price zero and     *)
(* volume zero.  Six writers share it: initialisation, the end of warmup,  *)
(* the strategy dispatch of the slow path, the regime and cooldown         *)
(* overrides behind it, the operator's keys and the session's wind-down.   *)
(*                                                                         *)
(* The engine thread runs them in the order of its loop, named by pc.  The *)
(* TUI thread only raises request flags, which the engine takes with an    *)
(* atomic exchange.  A level the statistics compute is a number above the  *)
(* lowest or not: 1 stands for any price or volume that is not zero.       *)
(***************************************************************************)
EXTENDS Integers

CONSTANTS
  Configs,        \* [sl_cooldown_cycles, regime_hysteresis] that can be loaded
  Keys,           \* requests the TUI thread can raise
  Detections,     \* regimes the classifier can detect
  LongTrend,      \* outcomes of the long-window trend check
  Cold,           \* samples the classifier needs (64 in the code)
  MaxCount,       \* bound of the model: detections in a row are counted up to
  Restored,       \* regimes a snapshot can restore
  MaxHeld         \* open positions at most (16 in the code), and fills counted

Regimes == {"RANGING", "TRENDING", "VOLATILE", "TRENDING_DOWN"}
Requests == {"pause", "regime_cycle", "reload"}

Config == [sl_cooldown_cycles : Nat, regime_hysteresis : 0 .. MaxCount]

ASSUME GateAssumption ==
  /\ Configs \subseteq Config
  /\ Keys \subseteq Requests
  /\ Detections \subseteq Regimes /\ Restored \subseteq Regimes
  /\ LongTrend \subseteq BOOLEAN
  /\ Cold \in Nat \ {0} /\ MaxCount \in Nat \ {0}
  /\ MaxHeld \in Nat

VARIABLES
  pc,           \* where the engine thread is in its loop
  requests,     \* flags shared with the TUI thread
  phase,        \* the session clock: open, wind_down or boundary
  state,        \* WARMUP or ACTIVE
  samples,      \* rolling.count, up to Cold
  buy_conds,    \* [price, volume, gate_direction]
  strategy_id,  \* MEAN_REVERSION or MOMENTUM
  regime,       \* [current, proposed, count, threshold]
  cooldown,     \* sl_cooldown_counter
  config,       \* the configuration in force
  ccfg,         \* the configuration read at startup
  sl_pending,   \* the exit buffer holds a stop loss
  fills,        \* fills in the order pool the controller has not looked at
  holdings,     \* open positions
  streak        \* history: the last detection and how often in a row

sessionVars == <<requests, phase>>
regimeVars  == <<strategy_id, regime, streak>>
configVars  == <<config, ccfg>>
bookVars    == <<sl_pending, fills, holdings>>
vars == <<pc, sessionVars, state, samples, buy_conds, regimeVars, cooldown,
          configVars, bookVars>>

\* A level is zero or not; direction 0 buys below the price, 1 above it.
GateConds == [price : 0 .. 1, volume : 0 .. 1, gate_direction : 0 .. 1]
Conds(p, v, d) == [price |-> p, volume |-> v, gate_direction |-> d]
Zeroed(conds) == Conds(0, 0, conds.gate_direction)

\* What BuyGate can answer for a trade, whose price is never zero.
PricePass(conds) ==
  IF conds.price = 0 THEN {conds.gate_direction = 1} ELSE BOOLEAN
VolumePass(conds) == IF conds.volume = 0 THEN {TRUE} ELSE BOOLEAN
MayPass(conds) == TRUE \in PricePass(conds) /\ TRUE \in VolumePass(conds)

\* RANGING, TRENDING, VOLATILE, TRENDING_DOWN and back, as they are numbered.
NextRegime(r) ==
  CASE r = "RANGING"  -> "TRENDING"
    [] r = "TRENDING" -> "VOLATILE"
    [] r = "VOLATILE" -> "TRENDING_DOWN"
    [] OTHER          -> "RANGING"

ToStrategy(r) == IF r = "TRENDING" THEN "MOMENTUM" ELSE "MEAN_REVERSION"

PausedRegimes == {"VOLATILE", "TRENDING_DOWN"}

Least(a, b) == IF a < b THEN a ELSE b
\* The averages are zero until the second sample is pushed.
Level(n) == IF n < 2 THEN 0 ELSE 1

\* Price and volume from n samples; the long-window check clears the price.
MeanReversion_BuySignal(n, long_ok) ==
  Conds(IF long_ok THEN Level(n) ELSE 0, Level(n), 0)

\* Here the long-window check clears price and volume.
Momentum_BuySignal(n, long_ok) ==
  IF long_ok THEN Conds(Level(n), Level(n), 1) ELSE Conds(0, 0, 1)

BuySignal(strategy, n, long_ok) ==
  IF strategy = "MOMENTUM" THEN Momentum_BuySignal(n, long_ok)
  ELSE MeanReversion_BuySignal(n, long_ok)

-----------------------------------------------------------------------------
\* PortfolioController_Init with configuration cfg.
InitialRegime(cfg) ==
  [current |-> "RANGING", proposed |-> "RANGING", count |-> 0,
   threshold |-> cfg.regime_hysteresis]

\* A snapshot restores positions, the regime and its strategy, not the gate.
Init ==
  /\ pc = "pause" /\ requests = {} /\ phase = "open"
  /\ state = "WARMUP" /\ samples = 0
  /\ buy_conds = Conds(0, 0, 0)
  /\ ccfg \in Configs /\ config = ccfg
  /\ \E r \in Restored \cup {"RANGING"} :
        /\ regime = [InitialRegime(ccfg) EXCEPT !.current = r]
        /\ strategy_id = ToStrategy(r)
  /\ cooldown = 0 /\ sl_pending = FALSE
  /\ fills = 0 /\ holdings \in 0 .. MaxHeld
  /\ streak = [of |-> "RANGING", count |-> 0]

-----------------------------------------------------------------------------
(* The environment: the operator at the TUI thread, and the wall clock.    *)

Press(key) ==
  /\ requests' = requests \cup {key}
  /\ UNCHANGED <<pc, phase, state, samples, buy_conds, regimeVars, cooldown,
                 configVars, bookVars>>

SessionClock ==
  /\ \/ phase = "open" /\ phase' = "wind_down"
     \/ phase = "wind_down" /\ phase' = "boundary"
  /\ UNCHANGED <<pc, requests, state, samples, buy_conds, regimeVars, cooldown,
                 configVars, bookVars>>

-----------------------------------------------------------------------------
(* The engine's loop up to the engine tick.                                *)

\* A read failed: the stream is reopened and its session starts again.  With
\* the stream down the session checks answer no, as for a fresh session.
StreamLost ==
  /\ pc = "pause"
  /\ phase' = "open"
  /\ UNCHANGED <<pc, requests, state, samples, buy_conds, regimeVars, cooldown,
                 configVars, bookVars>>

\* Whether buying is paused is read off the gate's price.
TogglePause(long_ok) ==
  IF buy_conds.price = 0
  THEN buy_conds' = BuySignal(strategy_id, samples, long_ok)
  ELSE buy_conds' = Zeroed(buy_conds)

HandlePause(long_ok) ==
  /\ pc = "pause"
  /\ IF "pause" \in requests THEN TogglePause(long_ok)
     ELSE UNCHANGED buy_conds
  /\ requests' = requests \ {"pause"}
  /\ pc' = "cycle"
  /\ UNCHANGED <<phase, state, samples, regimeVars, cooldown, configVars,
                 bookVars>>

\* Slip: the regime is set and the strategy is left for the slow path.
CycleRegimeKeepsStrategy ==
  LET next == NextRegime(regime.current)
  IN /\ regime' = [regime EXCEPT !.current = next, !.proposed = next]
     /\ UNCHANGED strategy_id
     /\ buy_conds' = IF next \in PausedRegimes THEN Zeroed(buy_conds)
                     ELSE buy_conds

\* The direction of the gate and the hysteresis count stay as they were.
CycleRegime ==
  LET next == NextRegime(regime.current)
  IN /\ regime' = [regime EXCEPT !.current = next, !.proposed = next]
     /\ strategy_id' = ToStrategy(next)
     /\ buy_conds' = IF next \in PausedRegimes THEN Zeroed(buy_conds)
                     ELSE buy_conds

HandleCycle ==
  /\ pc = "cycle"
  /\ IF "regime_cycle" \in requests THEN CycleRegime
     ELSE UNCHANGED <<regime, strategy_id, buy_conds>>
  /\ requests' = requests \ {"regime_cycle"}
  /\ pc' = "reload"
  /\ UNCHANGED <<phase, state, samples, streak, cooldown, configVars, bookVars>>

HotReload(new_cfg) ==
  /\ config' = new_cfg
  /\ regime' = [regime EXCEPT !.threshold = new_cfg.regime_hysteresis]

HandleReload(new_cfg) ==
  /\ pc = "reload"
  /\ IF "reload" \in requests THEN HotReload(new_cfg)
     ELSE UNCHANGED <<config, regime>>
  /\ requests' = requests \ {"reload"}
  /\ pc' = "session"
  /\ UNCHANGED <<phase, state, samples, buy_conds, strategy_id, streak,
                 cooldown, ccfg, bookVars>>

\* The session is over: positions are closed, the stream is reopened and the
\* controller starts from the configuration read at startup.
NewSession ==
  /\ phase' = "open"
  /\ state' = "WARMUP" /\ samples' = 0
  /\ buy_conds' = Conds(0, 0, 0)
  /\ config' = ccfg /\ regime' = InitialRegime(ccfg)
  /\ strategy_id' = "MEAN_REVERSION"
  /\ cooldown' = 0 /\ sl_pending' = FALSE
  /\ fills' = 0 /\ holdings' = 0
  /\ pc' = "pause"

\* The wind-down closes the gate; at the boundary a new session starts.
Session ==
  /\ pc = "session"
  /\ IF phase = "boundary" THEN NewSession
     ELSE /\ buy_conds' = IF phase = "wind_down" THEN Zeroed(buy_conds)
                          ELSE buy_conds
          /\ pc' = "gate"
          /\ UNCHANGED <<phase, state, samples, strategy_id, regime, cooldown,
                         config, bookVars>>
  /\ UNCHANGED <<requests, ccfg, streak>>

-----------------------------------------------------------------------------
(* The engine tick.                                                        *)

\* BuyGate answers from buy_conds and leaves them alone: a trade that passes is a
\* fill in the pool.  PositionExitGate leaves some of the positions open, and one
\* of the others may go at its stop loss.
Gates(pass, stop_loss) ==
  /\ pc = "gate"
  /\ pass => MayPass(buy_conds)
  /\ fills' = IF pass THEN Least(fills + 1, MaxHeld) ELSE fills
  /\ holdings' \in 0 .. holdings
  /\ stop_loss => holdings' < holdings
  /\ sl_pending' = (sl_pending \/ stop_loss)
  /\ pc' = "tick"
  /\ UNCHANGED <<sessionVars, state, samples, buy_conds, regimeVars, cooldown,
                 configVars>>

\* The positions there can be once the fills have been looked at, each of which
\* is opened or refused.
AfterFills == Least(holdings + fills, MaxHeld)

\* A tick that reaches neither a sample nor the slow path.  While trading it
\* still looks at the fills; in warmup they wait in the pool.
TickIdle ==
  /\ pc = "tick"
  /\ IF state = "ACTIVE"
     THEN fills' = 0 /\ holdings' \in holdings .. AfterFills
     ELSE UNCHANGED <<fills, holdings>>
  /\ pc' = "pause"
  /\ UNCHANGED <<sessionVars, state, samples, buy_conds, regimeVars, cooldown,
                 configVars, sl_pending>>

\* DrainExits: a stop loss starts the cooldown.
CooldownAfterDrain ==
  IF sl_pending /\ config.sl_cooldown_cycles > 0
  THEN config.sl_cooldown_cycles ELSE cooldown

\* The end of warmup arms the gate for mean reversion, whatever the strategy.
TickWarmup(sample, done, long_ok) ==
  /\ pc = "tick" /\ state = "WARMUP"
  /\ samples' = IF sample THEN Least(samples + 1, Cold) ELSE samples
  /\ IF done
     THEN /\ state' = "ACTIVE"
          /\ buy_conds' = MeanReversion_BuySignal(samples', long_ok)
     ELSE UNCHANGED <<state, buy_conds>>
  /\ cooldown' = CooldownAfterDrain
  /\ sl_pending' = FALSE
  /\ pc' = "pause"
  /\ UNCHANGED <<sessionVars, regimeVars, configVars, fills, holdings>>

\* Slip: a new proposal inherits the count of the one before.
ClassifyInheritsCount(detected) ==
  LET count == Least(regime.count + 1, MaxCount)
  IN [current   |-> IF count >= regime.threshold THEN detected
                    ELSE regime.current,
      proposed  |-> detected,
      count     |-> count,
      threshold |-> regime.threshold]

\* Regime_Classify with enough samples: a proposal becomes current when it has
\* been detected threshold times in a row.
Classify(detected) ==
  LET count == IF detected = regime.proposed
               THEN Least(regime.count + 1, MaxCount) ELSE 1
  IN [current   |-> IF count >= regime.threshold THEN detected
                    ELSE regime.current,
      proposed  |-> detected,
      count     |-> count,
      threshold |-> regime.threshold]

Observe(detected) ==
  [of |-> detected,
   count |-> IF detected = streak.of THEN Least(streak.count + 1, MaxCount)
             ELSE 1]

\* Slip: the cooldown is set and never counted down.
CountDownForgotten(n) == n
CountDown(n) == IF n > 0 THEN n - 1 ELSE 0

\* The slow path: fills, drain, time exits, sample, classify, dispatch,
\* overrides.  A cold classifier changes nothing.
SlowPath(detected, long_ok) ==
  /\ pc = "tick" /\ state = "ACTIVE"
  /\ samples' = Least(samples + 1, Cold)
  /\ IF samples' < Cold
     THEN UNCHANGED <<regime, strategy_id, streak>>
     ELSE /\ regime' = Classify(detected)
          /\ streak' = Observe(detected)
          /\ strategy_id' = IF regime'.current # regime.current
                            THEN ToStrategy(regime'.current) ELSE strategy_id
  /\ LET conds == BuySignal(strategy_id', samples', long_ok)
     IN buy_conds' = IF \/ regime'.current \in PausedRegimes
                        \/ CooldownAfterDrain > 0
                     THEN Zeroed(conds) ELSE conds
  /\ cooldown' = CountDown(CooldownAfterDrain)
  /\ sl_pending' = FALSE
  /\ fills' = 0 /\ holdings' \in 0 .. AfterFills
  /\ pc' = "pause"
  /\ UNCHANGED <<sessionVars, state, configVars>>

-----------------------------------------------------------------------------
SlowPaths ==
  \E detected \in Detections, long_ok \in LongTrend : SlowPath(detected, long_ok)

Engine ==
  \/ \E long_ok \in LongTrend : HandlePause(long_ok)
  \/ HandleCycle
  \/ \E new_cfg \in Configs : HandleReload(new_cfg)
  \/ Session
  \/ \E pass, stop_loss \in BOOLEAN : Gates(pass, stop_loss)
  \/ TickIdle
  \/ \E sample, done \in BOOLEAN, long_ok \in LongTrend :
        TickWarmup(sample, done, long_ok)
  \/ SlowPaths

Next ==
  \/ \E key \in Keys : Press(key)
  \/ SessionClock
  \/ StreamLost
  \/ Engine

Spec == Init /\ [][Next]_vars

\* The engine thread keeps running, and its slow path, due every poll_interval
\* ticks, comes round as long as the engine trades.
FairSpec == Spec /\ WF_vars(Engine) /\ SF_vars(SlowPaths)

-----------------------------------------------------------------------------
(* Properties.                                                             *)

TypeOK ==
  /\ pc \in {"pause", "cycle", "reload", "session", "gate", "tick"}
  /\ requests \subseteq Requests
  /\ phase \in {"open", "wind_down", "boundary"}
  /\ state \in {"WARMUP", "ACTIVE"}
  /\ samples \in 0 .. Cold
  /\ buy_conds \in GateConds
  /\ strategy_id \in {"MEAN_REVERSION", "MOMENTUM"}
  /\ regime \in [current : Regimes, proposed : Regimes, count : 0 .. MaxCount,
                 threshold : 0 .. MaxCount]
  /\ cooldown \in Nat
  /\ config \in Configs /\ ccfg \in Configs
  /\ sl_pending \in BOOLEAN
  /\ fills \in 0 .. MaxHeld /\ holdings \in 0 .. MaxHeld
  /\ streak \in [of : Regimes, count : 0 .. MaxCount]

\* The strategy that sizes and labels purchases is the one the regime asks
\* for.  Four places write the two fields: initialisation, the restore, the
\* operator's cycling and the slow path.
StrategyFollowsRegime == strategy_id = ToStrategy(regime.current)

\* The classifier never switches the regime on fewer than threshold detections
\* in a row, whatever the operator cycled and reloaded in between.
HysteresisRespected ==
  [][SlowPaths /\ regime'.current # regime.current =>
       streak'.of = regime'.current /\ streak'.count >= regime.threshold]_vars

\* After a slow path in a volatile or falling market BuyGate passes nothing:
\* the zeroes close the gate because these regimes run the strategy that buys
\* below its price.
PausedRegimesCloseGate ==
  [][SlowPaths /\ regime'.current \in PausedRegimes => ~MayPass(buy_conds')]_vars

\* A gate whose price stays zero for ever, while the engine trades outside the
\* paused regimes, has one of two causes.  The long window's trend closes it again
\* and again with the cooldown over; or it is not closed at all, and trades pass it
\* again and again.  A cooldown alone does not close it for good: every stop loss
\* that restarts it takes a position, and positions only come through the gate.
\* Nor does the pause key.
BuyingResumes ==
  <>[](state = "ACTIVE" /\ buy_conds.price = 0
         /\ regime.current \notin PausedRegimes)
    => \/ []<><<cooldown = 0 /\ \E d \in Detections : SlowPath(d, FALSE)>>_vars
       \/ []<><<\E stop_loss \in BOOLEAN : Gates(TRUE, stop_loss)>>_vars

\* A price of zero closes the gate, as every writer that clears it intends.
ZeroPriceClosesGate ==
  pc = "gate" /\ buy_conds.price = 0 => ~MayPass(buy_conds)
=============================================================================
