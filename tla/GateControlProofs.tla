------------------------- MODULE GateControlProofs --------------------------
(***************************************************************************)
(* What holds of GateControl for every configuration, every classifier and *)
(* every operator.                                                         *)
(***************************************************************************)
EXTENDS GateControl, TLAPS

\* The record the classifier keeps.
RegimeState ==
  [current : Regimes, proposed : Regimes, count : 0 .. MaxCount,
   threshold : 0 .. MaxCount]

LEMMA LeastRange ==
  ASSUME NEW a \in Nat, NEW b \in Nat
  PROVE  /\ Least(a, b) \in Nat /\ Least(a, b) <= a /\ Least(a, b) <= b
         /\ \A c \in Nat : c <= a /\ c <= b => c <= Least(a, b)
  BY DEF Least

\* Buy signals are gate conditions.
LEMMA SignalType ==
  ASSUME NEW strategy, NEW n \in Nat, NEW long_ok
  PROVE  /\ BuySignal(strategy, n, long_ok) \in
              GateConds
         /\ MeanReversion_BuySignal(n, long_ok) \in
              GateConds
  BY DEF BuySignal, Momentum_BuySignal, MeanReversion_BuySignal, Conds, Level,
         Least, GateConds

LEMMA ZeroedType ==
  ASSUME buy_conds \in GateConds
  PROVE  Zeroed(buy_conds) \in GateConds
  <1>1. buy_conds.gate_direction \in 0 .. 1
    BY DEF GateConds
  <1> QED
    BY <1>1 DEF Zeroed, Conds, GateConds

LEMMA ClosedType == Conds(0, 0, 0) \in GateConds
  BY DEF Conds, GateConds

LEMMA InitialRegimeType ==
  ASSUME NEW cfg \in Configs, NEW r \in Regimes
  PROVE  /\ InitialRegime(cfg) \in RegimeState
         /\ [InitialRegime(cfg) EXCEPT !.current = r] \in RegimeState
  <1>1. cfg.regime_hysteresis \in 0 .. MaxCount
    BY GateAssumption DEF Config
  <1> QED
    BY <1>1, GateAssumption DEF InitialRegime, RegimeState, Regimes

LEMMA NextRegimeType == \A r : NextRegime(r) \in Regimes
  BY DEF NextRegime, Regimes

LEMMA StrategyType == \A r : ToStrategy(r) \in {"MEAN_REVERSION", "MOMENTUM"}
  BY DEF ToStrategy

LEMMA ClassifyType ==
  ASSUME regime \in RegimeState, NEW d \in Regimes
  PROVE  Classify(d) \in RegimeState
  BY GateAssumption DEF Classify, RegimeState, Least

LEMMA InitType == Init => TypeOK
  <1> SUFFICES ASSUME Init PROVE TypeOK
    OBVIOUS
  <1> USE GateAssumption
  <1>1. PICK r \in Restored \cup {"RANGING"} :
          /\ regime = [InitialRegime(ccfg) EXCEPT !.current = r]
          /\ strategy_id = ToStrategy(r)
    BY DEF Init
  <1>2. ccfg \in Configs /\ config = ccfg /\ r \in Regimes
    BY <1>1 DEF Init, Regimes
  <1>3. regime \in RegimeState
    BY <1>1, <1>2, InitialRegimeType
  <1>4. strategy_id \in {"MEAN_REVERSION", "MOMENTUM"}
    BY <1>1, StrategyType
  <1>5. streak \in [of : Regimes, count : 0 .. MaxCount]
    BY DEF Init, Regimes
  <1>6. buy_conds \in GateConds
    BY ClosedType DEF Init
  <1>7. /\ samples \in 0 .. Cold /\ cooldown \in Nat
        /\ fills \in 0 .. MaxHeld /\ holdings \in 0 .. MaxHeld
    BY DEF Init
  <1> QED
    BY <1>2, <1>3, <1>4, <1>5, <1>6, <1>7 DEF Init, TypeOK, RegimeState

LEMMA NextType == TypeOK /\ [Next]_vars => TypeOK'
  <1> SUFFICES ASSUME TypeOK, [Next]_vars PROVE TypeOK'
    OBVIOUS
  <1> USE GateAssumption DEF TypeOK
  <1>0. regime \in RegimeState
    BY DEF RegimeState
  <1>1. ASSUME NEW key \in Keys, Press(key) PROVE TypeOK'
    BY <1>1 DEF Press, regimeVars, configVars, bookVars
  <1>2. CASE SessionClock
    BY <1>2 DEF SessionClock, regimeVars, configVars, bookVars
  <1>3. CASE StreamLost
    BY <1>3 DEF StreamLost, regimeVars, configVars, bookVars
  <1>4. ASSUME NEW long_ok \in LongTrend, HandlePause(long_ok) PROVE TypeOK'
    <2>1. BuySignal(strategy_id, samples, long_ok) \in GateConds
      BY SignalType
    <2>2. buy_conds' \in GateConds
      BY <1>4, <2>1, ZeroedType DEF HandlePause, TogglePause
    <2> QED
      BY <1>4, <2>2 DEF HandlePause, regimeVars, configVars, bookVars
  <1>5. CASE HandleCycle
    <2> DEFINE next == NextRegime(regime.current)
    <2>1. [regime EXCEPT !.current = next, !.proposed = next] \in RegimeState
      BY <1>0, NextRegimeType DEF RegimeState
    <2>2. regime' \in RegimeState
      BY <1>0, <1>5, <2>1 DEF HandleCycle, CycleRegime
    <2>3. strategy_id' \in {"MEAN_REVERSION", "MOMENTUM"}
      BY <1>5, StrategyType DEF HandleCycle, CycleRegime
    <2>4. buy_conds' \in GateConds
      BY <1>5, ZeroedType DEF HandleCycle, CycleRegime
    <2> QED
      BY <1>5, <2>2, <2>3, <2>4 DEF HandleCycle, RegimeState, configVars, bookVars
  <1>6. ASSUME NEW new_cfg \in Configs, HandleReload(new_cfg) PROVE TypeOK'
    <2>1. regime' \in RegimeState /\ config' \in Configs
      <3>1. new_cfg.regime_hysteresis \in 0 .. MaxCount
        BY DEF Config
      <3> QED
        BY <1>0, <1>6, <3>1 DEF HandleReload, HotReload, RegimeState
    <2> QED
      BY <1>6, <2>1 DEF HandleReload, RegimeState, bookVars
  <1>7. CASE Session
    <2>1. /\ requests' = requests /\ ccfg' = ccfg /\ streak' = streak
      BY <1>7 DEF Session
    <2>2. CASE NewSession
      <3>1. InitialRegime(ccfg) \in RegimeState
        BY InitialRegimeType DEF Regimes
      <3>2. regime' \in RegimeState /\ buy_conds' \in GateConds
        BY <2>2, <3>1, ClosedType DEF NewSession
      <3>3. config' \in Configs
        BY <2>2 DEF NewSession
      <3>4. sl_pending' \in BOOLEAN
        BY <2>2, Zenon DEF NewSession
      <3>5. fills' \in 0 .. MaxHeld /\ holdings' \in 0 .. MaxHeld
        BY <2>2 DEF NewSession
      <3> QED
        BY <2>1, <2>2, <3>2, <3>3, <3>4, <3>5 DEF NewSession, RegimeState
    <2>3. CASE phase # "boundary"
      <3>1. buy_conds' \in GateConds
        BY <1>7, <2>3, ZeroedType DEF Session
      <3> QED
        BY <1>7, <2>1, <2>3, <3>1 DEF Session, NewSession, bookVars
    <2> QED
      BY <1>7, <2>2, <2>3 DEF Session
  <1>8. ASSUME NEW pass \in BOOLEAN, NEW stop_loss \in BOOLEAN,
               Gates(pass, stop_loss)
        PROVE  TypeOK'
    <2>1. fills' \in 0 .. MaxHeld /\ holdings' \in 0 .. MaxHeld
      BY <1>8 DEF Gates, Least
    <2>2. sl_pending' \in BOOLEAN
      BY <1>8, Zenon DEF Gates
    <2> QED
      BY <1>8, <2>1, <2>2 DEF Gates, sessionVars, regimeVars, configVars
  <1>a. AfterFills \in 0 .. MaxHeld
    BY DEF AfterFills, Least
  <1>9. CASE TickIdle
    <2>1. fills' \in 0 .. MaxHeld /\ holdings' \in 0 .. MaxHeld
      BY <1>9, <1>a DEF TickIdle
    <2> QED
      BY <1>9, <2>1 DEF TickIdle, sessionVars, regimeVars, configVars
  <1>10. CooldownAfterDrain \in Nat
    BY DEF CooldownAfterDrain, Config
  <1>11. ASSUME NEW sample \in BOOLEAN, NEW done \in BOOLEAN,
                NEW long_ok \in LongTrend, TickWarmup(sample, done, long_ok)
         PROVE  TypeOK'
    <2>1. samples' \in 0 .. Cold
      BY <1>11 DEF TickWarmup, Least
    <2>2. buy_conds' \in GateConds
      BY <1>11, <2>1, SignalType DEF TickWarmup
    <2> QED
      BY <1>10, <1>11, <2>1, <2>2
      DEF TickWarmup, sessionVars, regimeVars, configVars
  <1>12. ASSUME NEW d \in Detections, NEW long_ok \in LongTrend,
                SlowPath(d, long_ok)
         PROVE  TypeOK'
    <2>1. samples' \in 0 .. Cold
      BY <1>12 DEF SlowPath, Least
    <2>2. /\ regime' \in RegimeState
          /\ strategy_id' \in {"MEAN_REVERSION", "MOMENTUM"}
          /\ streak' \in [of : Regimes, count : 0 .. MaxCount]
      BY <1>0, <1>12, ClassifyType, StrategyType DEF SlowPath, Observe, Least
    <2>3. buy_conds' \in GateConds
      BY <1>12, <2>1, SignalType DEF SlowPath, Zeroed, Conds, GateConds
    <2>4. cooldown' \in Nat
      BY <1>10, <1>12 DEF SlowPath, CountDown
    <2>5. fills' \in 0 .. MaxHeld /\ holdings' \in 0 .. MaxHeld
      BY <1>12, <1>a DEF SlowPath
    <2> QED
      BY <1>12, <2>1, <2>2, <2>3, <2>4, <2>5
      DEF SlowPath, RegimeState, sessionVars, configVars
  <1>13. CASE UNCHANGED vars
    BY <1>13 DEF vars, sessionVars, regimeVars, configVars, bookVars
  <1> QED
    BY <1>1, <1>2, <1>3, <1>4, <1>5, <1>6, <1>7, <1>8, <1>9, <1>11, <1>12,
       <1>13
    DEF Next, Engine, SlowPaths

\* Every state of the gate's owners is well typed.
THEOREM GateTypeCorrect == Spec => []TypeOK
  BY InitType, NextType, PTL DEF Spec

-----------------------------------------------------------------------------
(* The strategy follows the regime.                                        *)

LEMMA StrategyStep ==
  TypeOK /\ StrategyFollowsRegime /\ [Next]_vars => StrategyFollowsRegime'
  <1> SUFFICES ASSUME TypeOK, StrategyFollowsRegime, [Next]_vars
               PROVE  StrategyFollowsRegime'
    OBVIOUS
  <1>0. regime \in RegimeState
    BY DEF TypeOK, RegimeState
  <1>1. CASE UNCHANGED <<strategy_id, regime>>
    BY <1>1 DEF StrategyFollowsRegime
  <1>2. CASE HandleCycle
    <2>1. CASE CycleRegime
      <3>1. regime'.current = NextRegime(regime.current)
        BY <1>0, <2>1 DEF CycleRegime, RegimeState
      <3> QED
        BY <2>1, <3>1 DEF CycleRegime, StrategyFollowsRegime
    <2> QED
      BY <1>1, <1>2, <2>1 DEF HandleCycle
  <1>3. ASSUME NEW new_cfg \in Configs, HandleReload(new_cfg)
        PROVE  StrategyFollowsRegime'
    <2>1. regime'.current = regime.current
      BY <1>0, <1>3 DEF HandleReload, HotReload, RegimeState
    <2> QED
      BY <1>3, <2>1 DEF HandleReload, StrategyFollowsRegime
  <1>4. CASE Session
    <2>1. CASE NewSession
      BY <2>1 DEF NewSession, InitialRegime, ToStrategy, StrategyFollowsRegime
    <2> QED
      BY <1>1, <1>4, <2>1 DEF Session
  <1>5. ASSUME NEW d, NEW long_ok, SlowPath(d, long_ok)
        PROVE  StrategyFollowsRegime'
    <2>1. CASE samples' < Cold
      BY <1>1, <1>5, <2>1 DEF SlowPath
    <2>2. CASE ~(samples' < Cold)
      BY <1>5, <2>2 DEF SlowPath, StrategyFollowsRegime
    <2> QED
      BY <2>1, <2>2
  <1> QED
    BY <1>1, <1>2, <1>3, <1>4, <1>5
    DEF Next, Engine, SlowPaths, Press, SessionClock, StreamLost, HandlePause,
        Gates, TickIdle, TickWarmup, vars, regimeVars

LEMMA StrategyInit == Init => StrategyFollowsRegime
  <1> SUFFICES ASSUME Init PROVE StrategyFollowsRegime
    OBVIOUS
  <1>1. PICK r \in Restored \cup {"RANGING"} :
          /\ regime = [InitialRegime(ccfg) EXCEPT !.current = r]
          /\ strategy_id = ToStrategy(r)
    BY DEF Init
  <1>2. regime.current = r
    BY <1>1 DEF InitialRegime
  <1> QED
    BY <1>1, <1>2 DEF StrategyFollowsRegime

\* The strategy in use is always the one the current regime asks for.
THEOREM StrategyAlwaysFollows == Spec => []StrategyFollowsRegime
  BY InitType, NextType, StrategyInit, StrategyStep, PTL DEF Spec

-----------------------------------------------------------------------------
(* Volatile and falling markets close the gate.                            *)

LEMMA PausedStep ==
  ASSUME TypeOK, StrategyFollowsRegime, NEW d \in Detections,
         NEW long_ok \in LongTrend, SlowPath(d, long_ok),
         regime'.current \in PausedRegimes
  PROVE  ~MayPass(buy_conds')
  <1>1. StrategyFollowsRegime'
    BY StrategyStep DEF Next, Engine, SlowPaths
  <1>2. strategy_id' = "MEAN_REVERSION"
    BY <1>1 DEF StrategyFollowsRegime, ToStrategy, PausedRegimes
  <1>3. buy_conds' = Zeroed(BuySignal(strategy_id', samples', long_ok))
    BY DEF SlowPath
  <1>4. buy_conds' = Conds(0, 0, 0)
    BY <1>2, <1>3 DEF BuySignal, MeanReversion_BuySignal, Zeroed, Conds
  <1>5. /\ buy_conds'.price = 0 /\ buy_conds'.gate_direction = 0
    BY <1>4 DEF Conds
  <1>6. ~(buy_conds'.gate_direction = 1)
    BY <1>5
  <1>7. PricePass(buy_conds') = {buy_conds'.gate_direction = 1}
    BY <1>5, Zenon DEF PricePass
  <1>8. TRUE \notin PricePass(buy_conds')
    BY <1>6, <1>7, Zenon
  <1> QED
    BY <1>8, Zenon DEF MayPass

\* After a slow path in a volatile or falling market nothing passes the gate,
\* because the strategy those regimes run buys below its price.
THEOREM PausedRegimesAlwaysClose == Spec => PausedRegimesCloseGate
  <1>1. TypeOK /\ StrategyFollowsRegime /\ [Next]_vars
          => [SlowPaths /\ regime'.current \in PausedRegimes
                => ~MayPass(buy_conds')]_vars
    BY PausedStep DEF SlowPaths
  <1> QED
    BY <1>1, GateTypeCorrect, StrategyAlwaysFollows, PTL
    DEF Spec, PausedRegimesCloseGate

-----------------------------------------------------------------------------
(* Hysteresis.                                                             *)

\* A proposal that is not current yet was seen at least as often in a row as
\* the classifier counted.  CycleRegime moves the proposal without resetting
\* the count, and keeps this by making the proposal current.
CountIsEarned ==
  \/ regime.proposed = regime.current
  \/ streak.of = regime.proposed /\ streak.count >= regime.count

LEMMA ObservedStep ==
  ASSUME TypeOK, CountIsEarned, NEW d \in Detections,
         NEW long_ok \in LongTrend, SlowPath(d, long_ok)
  PROVE  /\ CountIsEarned'
         /\ regime'.current # regime.current =>
              streak'.of = regime'.current /\ streak'.count >= regime.threshold
  <1>1. CASE samples' < Cold
    BY <1>1 DEF SlowPath, CountIsEarned
  <1>2. CASE ~(samples' < Cold)
    <2>1. regime' = Classify(d) /\ streak' = Observe(d)
      BY <1>2 DEF SlowPath
    <2>2. /\ regime.count \in 0 .. MaxCount /\ streak.count \in 0 .. MaxCount
          /\ regime.threshold \in 0 .. MaxCount /\ MaxCount \in Nat \ {0}
      BY GateAssumption DEF TypeOK
    <2>3. /\ streak'.of = d /\ regime'.proposed = d
          /\ streak'.count = IF d = streak.of THEN Least(streak.count + 1, MaxCount)
                             ELSE 1
          /\ regime'.count = IF d = regime.proposed
                             THEN Least(regime.count + 1, MaxCount) ELSE 1
          /\ regime'.current = IF regime'.count >= regime.threshold THEN d
                               ELSE regime.current
      BY <2>1 DEF Classify, Observe
    <2>4. CASE regime.proposed = regime.current /\ d = regime.proposed
      BY <2>3, <2>4 DEF CountIsEarned
    <2>5. CASE ~(regime.proposed = regime.current /\ d = regime.proposed)
      <3>1. streak'.count >= regime'.count
        BY <2>2, <2>3, <2>5 DEF CountIsEarned, Least
      <3> QED
        BY <2>2, <2>3, <3>1 DEF CountIsEarned, Least
    <2> QED
      BY <2>4, <2>5
  <1> QED
    BY <1>1, <1>2

LEMMA CountInit == Init => CountIsEarned
  <1> SUFFICES ASSUME Init PROVE CountIsEarned
    OBVIOUS
  <1>1. PICK r \in Restored \cup {"RANGING"} :
          regime = [InitialRegime(ccfg) EXCEPT !.current = r]
    BY DEF Init
  <1>2. regime.proposed = "RANGING" /\ regime.count = 0
    BY <1>1 DEF InitialRegime
  <1>3. streak.of = "RANGING" /\ streak.count = 0
    BY DEF Init
  <1> QED
    BY <1>2, <1>3 DEF CountIsEarned

LEMMA CountStep == TypeOK /\ CountIsEarned /\ [Next]_vars => CountIsEarned'
  <1> SUFFICES ASSUME TypeOK, CountIsEarned, [Next]_vars PROVE CountIsEarned'
    OBVIOUS
  <1>0. regime \in RegimeState
    BY DEF TypeOK, RegimeState
  <1>1. CASE UNCHANGED <<regime, streak>>
    BY <1>1 DEF CountIsEarned
  <1>2. CASE HandleCycle
    <2>1. CASE CycleRegime
      <3>1. regime'.proposed = regime'.current
        BY <1>0, <2>1 DEF CycleRegime, RegimeState
      <3> QED
        BY <3>1 DEF CountIsEarned
    <2> QED
      BY <1>1, <1>2, <2>1 DEF HandleCycle
  <1>3. ASSUME NEW new_cfg \in Configs, HandleReload(new_cfg)
        PROVE  CountIsEarned'
    <2>1. /\ regime'.current = regime.current /\ regime'.count = regime.count
          /\ regime'.proposed = regime.proposed /\ streak' = streak
      BY <1>0, <1>3 DEF HandleReload, HotReload, RegimeState
    <2> QED
      BY <2>1 DEF CountIsEarned
  <1>4. CASE Session
    <2>1. CASE NewSession
      BY <2>1 DEF NewSession, InitialRegime, CountIsEarned
    <2> QED
      BY <1>1, <1>4, <2>1 DEF Session
  <1>5. ASSUME NEW d \in Detections, NEW long_ok \in LongTrend,
               SlowPath(d, long_ok)
        PROVE  CountIsEarned'
    BY <1>5, ObservedStep
  <1> QED
    BY <1>1, <1>2, <1>3, <1>4, <1>5
    DEF Next, Engine, SlowPaths, Press, SessionClock, StreamLost, HandlePause,
        Gates, TickIdle, TickWarmup, vars, regimeVars

\* The classifier switches the regime only on threshold detections in a row.
THEOREM HysteresisAlwaysRespected == Spec => HysteresisRespected
  <1>1. TypeOK /\ CountIsEarned /\ [Next]_vars
          => [SlowPaths /\ regime'.current # regime.current =>
                streak'.of = regime'.current
                /\ streak'.count >= regime.threshold]_vars
    BY ObservedStep DEF SlowPaths
  <1>2. Spec => []CountIsEarned
    BY InitType, NextType, CountInit, CountStep, PTL DEF Spec
  <1> QED
    BY <1>1, <1>2, GateTypeCorrect, PTL DEF Spec, HysteresisRespected
=============================================================================
