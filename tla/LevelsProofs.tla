---------------------------- MODULE LevelsProofs ----------------------------
(***************************************************************************)
(* Proofs about the exit levels.                                           *)
(***************************************************************************)
EXTENDS Levels, FiniteSetTheorems, TLAPS

\* Positions the gate may have left open past their target.
Excused == late \cup overdue

\* The histories are about open positions, and only positions that a switch
\* widened or the gate left open are trailed.
Histories ==
  /\ trailed \subseteq active_bitmap /\ widened \subseteq active_bitmap
  /\ tightened \subseteq active_bitmap /\ Excused \subseteq active_bitmap
  /\ trailed \subseteq widened \cup Excused

\* What the levels of an open position are to each other, whoever moved them.
Sound(pos, rate, untrailed, prompt, unwidened, untightened) ==
  /\ pos.entry_price \in Prices /\ pos.entry_price < pos.take_profit_price
  /\ untrailed =>
       pos.entry_price - pos.stop_loss_price
         >= Portion(pos.take_profit_price - pos.entry_price, rate)
  /\ prompt => pos.stop_loss_price < pos.take_profit_price
  /\ unwidened /\ prompt => pos.take_profit_price <= pos.original_tp
  /\ untightened =>
       \E c \in Configs :
         pos.take_profit_price
           >= pos.entry_price + Portion(pos.entry_price, c.fee_floor)

Held(i) ==
  Sound(positions[i], ratio[i], i \notin trailed, i \notin Excused,
        i \notin widened, i \notin tightened)

\* Within an engine tick the gate has sold what the price had reached.
Unreached ==
  pc \in {"tick", "slow"} =>
    \A i \in active_bitmap \ Excused : price < positions[i].take_profit_price

LevelInv ==
  TypeOK /\ Histories /\ Unreached /\ \A i \in active_bitmap : Held(i)

-----------------------------------------------------------------------------
(* Arithmetic. *)

LEMMA PortionInt ==
  ASSUME NEW x \in Int, NEW rate \in Int
  PROVE  Portion(x, rate) \in Int
<1>1. x * rate \in Int
  OBVIOUS
<1> QED
  BY <1>1 DEF Portion

LEMMA PortionNat ==
  ASSUME NEW x \in Nat, NEW rate \in Nat
  PROVE  Portion(x, rate) \in Nat
<1>1. x * rate \in Nat
  OBVIOUS
<1> QED
  BY <1>1 DEF Portion

LEMMA ConfigFacts ==
  ASSUME NEW c \in Configs
  PROVE  /\ c.take_profit \in Nat \ {0} /\ c.stop_loss \in Nat
         /\ c.momentum_tp \in Nat \ {0} /\ c.momentum_sl \in Nat
         /\ c.tp_trail \in Nat /\ c.fee_floor \in Nat
         /\ c.sl_tp_ratio \in Nat
BY LevelsAssumption DEF Config

\* Flooring leaves the target, and leaves the stop in proportion and below
\* the entry.
LEMMA FlooredFacts ==
  ASSUME TypeOK, NEW pos \in Position, pos.entry_price < pos.take_profit_price
  PROVE  /\ Floored(pos) \in Position
         /\ Floored(pos).entry_price = pos.entry_price
         /\ Floored(pos).take_profit_price = pos.take_profit_price
         /\ Floored(pos).original_tp = pos.original_tp
         /\ Floored(pos).entry_strategy = pos.entry_strategy
         /\ pos.entry_price - Floored(pos).stop_loss_price
              >= Portion(pos.take_profit_price - pos.entry_price,
                         config.sl_tp_ratio)
         /\ Floored(pos).stop_loss_price <= pos.entry_price
<1> DEFINE part == Portion(pos.take_profit_price - pos.entry_price,
                           config.sl_tp_ratio)
<1>1. pos.entry_price \in Nat /\ pos.take_profit_price \in Int
      /\ pos.stop_loss_price \in Int
  BY DEF Position
<1>2. pos.take_profit_price - pos.entry_price \in Nat
      /\ config.sl_tp_ratio \in Nat
  BY <1>1, ConfigFacts DEF TypeOK
<1>3. part \in Nat
  BY <1>2, PortionNat
<1>4. Floored(pos) = [pos EXCEPT !.stop_loss_price =
                        Lower(pos.stop_loss_price, pos.entry_price - part)]
  BY DEF Floored
<1> HIDE DEF part
<1>5. /\ Lower(pos.stop_loss_price, pos.entry_price - part) \in Int
      /\ Lower(pos.stop_loss_price, pos.entry_price - part)
           <= pos.entry_price - part
  BY <1>1, <1>3 DEF Lower
<1>6. Floored(pos).stop_loss_price
        = Lower(pos.stop_loss_price, pos.entry_price - part)
  BY <1>4 DEF Position
<1>7. /\ Floored(pos) \in Position
      /\ Floored(pos).entry_price = pos.entry_price
      /\ Floored(pos).take_profit_price = pos.take_profit_price
      /\ Floored(pos).original_tp = pos.original_tp
      /\ Floored(pos).entry_strategy = pos.entry_strategy
  BY <1>4, <1>5 DEF Position
<1>8. /\ pos.entry_price - Floored(pos).stop_loss_price >= part
      /\ Floored(pos).stop_loss_price <= pos.entry_price
  BY <1>1, <1>3, <1>5, <1>6
<1> QED
  BY <1>7, <1>8 DEF part

-----------------------------------------------------------------------------
(* Where levels come from. *)

\* The first target is a number, above the entry by the fees at least.
LEMMA FirstTargetFacts ==
  ASSUME TypeOK, NEW p \in Prices, NEW strategy \in Strategies,
         NEW r2 \in {0, 100}, NEW ror \in BOOLEAN
  PROVE  /\ FirstTarget(p, strategy, r2, ror) \in Int
         /\ FirstTarget(p, strategy, r2, ror) >= p + Portion(p, config.fee_floor)
         /\ FirstTarget(p, strategy, r2, ror) > p
<1>1. config \in Configs /\ stddev \in Nat /\ p \in Nat
  BY LevelsAssumption DEF TypeOK
<1>2. config.momentum_tp \in Int /\ config.take_profit \in Int
      /\ config.fee_floor \in Nat
  BY <1>1, ConfigFacts
<1>3. Portion(p, config.fee_floor) \in Int /\ Portion(p, config.fee_floor) > 0
  <2>1. p * config.fee_floor \in Int
    BY <1>1, <1>2
  <2>2. Portion(p, config.fee_floor) \in Int
    BY <2>1 DEF Portion
  <2>3. Portion(p, config.fee_floor) > 0
    BY <1>1, LevelsAssumption
  <2> QED
    BY <2>2, <2>3
<1>4. stddev * config.momentum_tp \in Int /\ stddev * config.take_profit \in Int
      /\ 50 + r2 \in Int
  BY <1>1, <1>2
<1>5. Portion(stddev * config.momentum_tp, 50 + r2) \in Int
  BY <1>4, PortionInt
<1>6. Portion(Portion(stddev * config.momentum_tp, 50 + r2),
              IF ror THEN 120 ELSE 100) \in Int
  BY <1>5 DEF Portion
<1>7. TpOffset(strategy, r2, ror) \in Int
  BY <1>4, <1>6 DEF TpOffset
<1>8. Portion(p, config.take_profit) \in Int
  <2>1. p * config.take_profit \in Int
    BY <1>1, <1>2
  <2> QED
    BY <2>1 DEF Portion
<1> DEFINE wanted == IF stddev # 0 THEN p + TpOffset(strategy, r2, ror)
                     ELSE p + Portion(p, config.take_profit)
           least == p + Portion(p, config.fee_floor)
<1>9. wanted \in Int /\ least \in Int /\ least > p
  BY <1>1, <1>3, <1>7, <1>8
<1>10. FirstTarget(p, strategy, r2, ror) = Upper(wanted, least)
  BY DEF FirstTarget
<1> HIDE DEF wanted
<1>11. Upper(wanted, least) \in Int /\ Upper(wanted, least) >= least
       /\ Upper(wanted, least) > p
  BY <1>1, <1>9 DEF Upper
<1> QED
  BY <1>10, <1>11

LEMMA FirstStopInt ==
  ASSUME TypeOK, NEW p \in Prices, NEW strategy \in Strategies,
         NEW r2 \in {0, 100}
  PROVE  FirstStop(p, strategy, r2) \in Int
<1>1. config \in Configs /\ stddev \in Nat /\ p \in Nat
  BY LevelsAssumption DEF TypeOK
<1>2. config.momentum_sl \in Int /\ config.stop_loss \in Int
  BY <1>1, ConfigFacts
<1>3. stddev * config.momentum_sl \in Int /\ stddev * config.stop_loss \in Int
      /\ 100 - config.stop_loss \in Int
  BY <1>1, <1>2
<1>4. 150 - Portion(r2, 50) \in Int
  BY PortionInt
<1>5. Portion(stddev * config.momentum_sl, 150 - Portion(r2, 50)) \in Int
  BY <1>3, <1>4, PortionInt
<1>6. SlOffset(strategy, r2) \in Int
  BY <1>3, <1>5 DEF SlOffset
<1>7. Portion(p, 100 - config.stop_loss) \in Int
  <2>1. p * (100 - config.stop_loss) \in Int
    BY <1>1, <1>3
  <2> QED
    BY <2>1 DEF Portion
<1> QED
  BY <1>1, <1>6, <1>7 DEF FirstStop

\* What a fill puts in its slot is sound, whoever bought it.
LEMMA BoughtFacts ==
  ASSUME TypeOK, NEW p \in Prices, NEW r2 \in {0, 100}, NEW ror \in BOOLEAN
  PROVE  /\ Bought(p, r2, ror) \in Position
         /\ p < Bought(p, r2, ror).take_profit_price
         /\ Sound(Bought(p, r2, ror), config.sl_tp_ratio, TRUE, TRUE, TRUE, TRUE)
<1> DEFINE strategy == ToStrategy(regime)
           target == FirstTarget(p, strategy, r2, ror)
           raw == [entry_price |-> p, take_profit_price |-> target,
                   stop_loss_price |-> FirstStop(p, strategy, r2),
                   original_tp |-> target, entry_strategy |-> strategy]
<1>1. strategy \in Strategies
  BY DEF ToStrategy, Strategies
<1>2. /\ target \in Int /\ target > p
      /\ target >= p + Portion(p, config.fee_floor)
  BY <1>1, FirstTargetFacts
<1>3. FirstStop(p, strategy, r2) \in Int /\ p \in Nat
  BY <1>1, FirstStopInt, LevelsAssumption
<1>4. Bought(p, r2, ror) = Floored(raw)
  BY DEF Bought
<1> HIDE DEF target, strategy
<1>5. raw \in Position
  BY <1>1, <1>2, <1>3 DEF Position
<1>6. raw.entry_price = p /\ raw.take_profit_price = target
      /\ raw.original_tp = target
  OBVIOUS
<1> HIDE DEF raw
<1>7. raw.entry_price < raw.take_profit_price
  BY <1>2, <1>3, <1>6
<1>8. /\ Floored(raw) \in Position /\ Floored(raw).entry_price = p
      /\ Floored(raw).take_profit_price = target
      /\ Floored(raw).original_tp = target
      /\ p - Floored(raw).stop_loss_price
           >= Portion(target - p, config.sl_tp_ratio)
      /\ Floored(raw).stop_loss_price <= p
  BY <1>5, <1>6, <1>7, FlooredFacts
<1>9. Floored(raw).stop_loss_price \in Int
  BY <1>8 DEF Position
<1>10. config \in Configs
  BY DEF TypeOK
<1> QED
  BY <1>2, <1>3, <1>4, <1>8, <1>9, <1>10 DEF Sound

-----------------------------------------------------------------------------
(* How a switch moves them. *)

\* Each of the three adjustments floors a position whose target is above the
\* entry; where the new target lies is said relative to the old one.
LEMMA SwitchFacts ==
  ASSUME TypeOK, NEW pos \in Position, pos.entry_price < pos.take_profit_price,
         NEW s \in Volatilities, s # 0,
         NEW new, new \in {Widened(pos, s), Tightened(pos, s), CutShort(pos, s)}
  PROVE  /\ new \in Position
         /\ new.entry_price = pos.entry_price
         /\ new.original_tp = pos.original_tp
         /\ new.entry_price < new.take_profit_price
         /\ new.entry_price - new.stop_loss_price
              >= Portion(new.take_profit_price - new.entry_price,
                         config.sl_tp_ratio)
         /\ new.stop_loss_price < new.take_profit_price
         /\ new = Widened(pos, s) =>
              new.take_profit_price >= pos.take_profit_price
         /\ new \in {Tightened(pos, s), CutShort(pos, s)} =>
              new.take_profit_price <= pos.take_profit_price
<1> DEFINE e == pos.entry_price
           t == pos.take_profit_price
           mtp == s * config.momentum_tp
           msl == s * config.momentum_sl
           rtp == s * config.take_profit
           rsl == s * config.stop_loss
           With(tp, sl) == [pos EXCEPT !.take_profit_price = tp,
                                       !.stop_loss_price = sl]
<1>1. e \in Nat /\ t \in Int /\ pos.stop_loss_price \in Int /\ e < t
  BY DEF Position
<1>2. config \in Configs /\ s \in Nat /\ s > 0
  BY LevelsAssumption DEF TypeOK
<1>3. /\ config.take_profit \in Nat /\ config.take_profit > 0
      /\ config.momentum_tp \in Nat /\ config.momentum_tp > 0
      /\ config.stop_loss \in Nat /\ config.momentum_sl \in Nat
  BY <1>2, ConfigFacts
<1>4. \A a, b \in Nat : a > 0 /\ b > 0 => a * b \in Nat /\ a * b > 0
  OBVIOUS
<1>5. mtp \in Nat /\ mtp > 0 /\ rtp \in Nat /\ rtp > 0
  BY <1>2, <1>3, <1>4
<1>6. msl \in Nat /\ rsl \in Nat
  BY <1>2, <1>3
<1>7. /\ Widened(pos, s)   = Floored(With(Upper(t, e + mtp),
                                          Upper(pos.stop_loss_price, e - msl)))
      /\ Tightened(pos, s) = Floored(With(Lower(t, e + rtp),
                                          Lower(pos.stop_loss_price, e - rsl)))
      /\ CutShort(pos, s)  = Floored(With(Lower(t, e + mtp),
                                          Upper(pos.stop_loss_price, e - msl)))
  BY DEF Widened, Tightened, CutShort
<1> HIDE DEF mtp, msl, rtp, rsl
<1>8. ASSUME NEW tp \in Int, NEW sl \in Int, e < tp
      PROVE  LET f == Floored(With(tp, sl))
             IN  /\ f \in Position /\ f.entry_price = e
                 /\ f.original_tp = pos.original_tp
                 /\ f.take_profit_price = tp /\ f.entry_price < f.take_profit_price
                 /\ f.entry_price - f.stop_loss_price
                      >= Portion(f.take_profit_price - f.entry_price,
                                 config.sl_tp_ratio)
                 /\ f.stop_loss_price < f.take_profit_price
  <2>1. With(tp, sl) \in Position
    BY <1>8 DEF Position
  <2>2. With(tp, sl).entry_price = e /\ With(tp, sl).take_profit_price = tp
        /\ With(tp, sl).original_tp = pos.original_tp
    BY DEF Position
  <2> HIDE DEF With
  <2>3. /\ Floored(With(tp, sl)) \in Position
        /\ Floored(With(tp, sl)).entry_price = e
        /\ Floored(With(tp, sl)).take_profit_price = tp
        /\ Floored(With(tp, sl)).original_tp = pos.original_tp
        /\ e - Floored(With(tp, sl)).stop_loss_price
             >= Portion(tp - e, config.sl_tp_ratio)
        /\ Floored(With(tp, sl)).stop_loss_price <= e
    BY <1>8, <2>1, <2>2, FlooredFacts
  <2>4. Floored(With(tp, sl)).stop_loss_price \in Int
    BY <2>3 DEF Position
  <2> QED
    BY <1>1, <1>8, <2>3, <2>4
<1>9. /\ Upper(t, e + mtp) \in Int /\ e < Upper(t, e + mtp)
      /\ Upper(t, e + mtp) >= t
      /\ Lower(t, e + rtp) \in Int /\ e < Lower(t, e + rtp)
      /\ Lower(t, e + rtp) <= t
      /\ Lower(t, e + mtp) \in Int /\ e < Lower(t, e + mtp)
      /\ Lower(t, e + mtp) <= t
  BY <1>1, <1>5 DEF Upper, Lower
<1>10. /\ Upper(pos.stop_loss_price, e - msl) \in Int
       /\ Lower(pos.stop_loss_price, e - rsl) \in Int
  BY <1>1, <1>6 DEF Upper, Lower
<1> HIDE DEF With
<1>11. /\ Widened(pos, s).take_profit_price >= t
       /\ Tightened(pos, s).take_profit_price <= t
       /\ CutShort(pos, s).take_profit_price <= t
  BY <1>7, <1>8, <1>9, <1>10
<1>12. CASE new = Widened(pos, s)
  BY <1>7, <1>8, <1>9, <1>10, <1>11, <1>12
<1>13. CASE new = Tightened(pos, s)
  BY <1>7, <1>8, <1>9, <1>10, <1>11, <1>13
<1>14. CASE new = CutShort(pos, s)
  BY <1>7, <1>8, <1>9, <1>10, <1>11, <1>14
<1> QED
  BY <1>12, <1>13, <1>14

\* The adjustment of one position, or none.
LEMMA AfterSwitchFacts ==
  ASSUME LevelInv, NEW i \in active_bitmap, NEW new \in Regimes,
         NEW s \in Volatilities
  PROVE  LET pos == positions[i]
             q   == AfterSwitch(i, regime, new, s)
         IN  /\ q \in Position /\ q.entry_price = pos.entry_price
             /\ q.original_tp = pos.original_tp
             /\ q.entry_price < q.take_profit_price
             /\ ~Adjusted(i, regime, new, s) => q = pos
             /\ Adjusted(i, regime, new, s) =>
                  /\ q.entry_price - q.stop_loss_price
                       >= Portion(q.take_profit_price - q.entry_price,
                                  config.sl_tp_ratio)
                  /\ q.stop_loss_price < q.take_profit_price
             /\ Widens(regime, new) =>
                  q.take_profit_price >= pos.take_profit_price
             /\ ~Widens(regime, new) =>
                  q.take_profit_price <= pos.take_profit_price
<1> DEFINE pos == positions[i]
           q   == AfterSwitch(i, regime, new, s)
<1>1. pos \in Position /\ pos.entry_price < pos.take_profit_price
  BY DEF LevelInv, TypeOK, Held, Sound
<1>2. TypeOK
  BY DEF LevelInv
<1>3. pos.take_profit_price \in Int
  BY <1>1 DEF Position
<1>4. CASE ~Adjusted(i, regime, new, s)
  <2>1. q = pos
    BY <1>4 DEF AfterSwitch
  <2> QED
    BY <1>1, <1>3, <1>4, <2>1
<1>5. CASE Adjusted(i, regime, new, s)
  <2>1. s # 0 /\ (Widens(regime, new) \/ Tightens(regime, new))
    BY <1>5 DEF Adjusted
  <2>2. CASE Widens(regime, new)
    <3>1. q = Widened(pos, s)
      BY <1>5, <2>2 DEF AfterSwitch, Widens
    <3> HIDE DEF q, pos
    <3> QED
      BY <1>1, <1>2, <1>5, <2>1, <2>2, <3>1, SwitchFacts DEF q, pos
  <2>3. CASE ~Widens(regime, new)
    <3>1. q \in {Tightened(pos, s), CutShort(pos, s)}
      BY <1>5, <2>3 DEF AfterSwitch
    <3> HIDE DEF q, pos
    <3> QED
      BY <1>1, <1>2, <1>5, <2>1, <2>3, <3>1, SwitchFacts DEF q, pos
  <2> QED
    BY <2>2, <2>3
<1> QED
  BY <1>4, <1>5

\* Trailing raises; below the target it leaves the target, and the stop below.
LEMMA TrailFacts ==
  ASSUME TypeOK, NEW pos \in Position, NEW s \in Volatilities
  PROVE  /\ Trail(pos, s) \in Position
         /\ Trail(pos, s).entry_price = pos.entry_price
         /\ Trail(pos, s).original_tp = pos.original_tp
         /\ Trail(pos, s).take_profit_price >= pos.take_profit_price
         /\ Trail(pos, s).stop_loss_price >= pos.stop_loss_price
         /\ price < pos.take_profit_price =>
              /\ Trail(pos, s).take_profit_price = pos.take_profit_price
              /\ pos.stop_loss_price < pos.take_profit_price =>
                   Trail(pos, s).stop_loss_price < pos.take_profit_price
<1> DEFINE t  == pos.take_profit_price
           sl == pos.stop_loss_price
           a  == s * config.tp_trail
           b  == s * config.momentum_sl
<1>1. config \in Configs /\ s \in Nat /\ price \in Nat
  BY LevelsAssumption DEF TypeOK
<1>2. config.tp_trail \in Nat /\ config.momentum_sl \in Nat
  BY <1>1, ConfigFacts
<1>3. a \in Nat /\ b \in Nat
  BY <1>1, <1>2
<1>4. t \in Int /\ sl \in Int
  BY DEF Position
<1>5. Trail(pos, s) = [pos EXCEPT !.take_profit_price = Upper(t, price - a),
                                  !.stop_loss_price = Upper(sl, price - b)]
  BY DEF Trail
<1> HIDE DEF a, b
<1>6. /\ Upper(t, price - a) \in Int /\ Upper(t, price - a) >= t
      /\ Upper(sl, price - b) \in Int /\ Upper(sl, price - b) >= sl
      /\ price < t => Upper(t, price - a) = t
      /\ price < t /\ sl < t => Upper(sl, price - b) < t
  BY <1>1, <1>3, <1>4 DEF Upper
<1>7. /\ Trail(pos, s) \in Position
      /\ Trail(pos, s).entry_price = pos.entry_price
      /\ Trail(pos, s).original_tp = pos.original_tp
      /\ Trail(pos, s).take_profit_price = Upper(t, price - a)
      /\ Trail(pos, s).stop_loss_price = Upper(sl, price - b)
  BY <1>5, <1>6 DEF Position
<1> QED
  BY <1>6, <1>7

\* A position after a switch and, on the slow path, the trailing of it.
LEMMA MovedFacts ==
  ASSUME LevelInv, NEW i \in active_bitmap, NEW new \in Regimes,
         NEW s \in Volatilities, NEW trails \in BOOLEAN,
         trails => /\ pc = "slow" /\ new = "TRENDING"
                   /\ price > positions[i].original_tp
  PROVE  LET q   == AfterSwitch(i, regime, new, s)
             r   == IF trails THEN Trail(q, s) ELSE q
             adj == Adjusted(i, regime, new, s)
         IN  /\ r \in Position
             /\ trails => i \in widened \cup Excused
             /\ Sound(r, IF adj THEN config.sl_tp_ratio ELSE ratio[i],
                      ~(trails \/ (i \in trailed /\ ~adj)), i \notin Excused,
                      ~(i \in widened \/ (Widens(regime, new) /\ adj)),
                      ~(i \in tightened \/ (Tightens(regime, new) /\ adj)))
<1> DEFINE pos == positions[i]
           q   == AfterSwitch(i, regime, new, s)
           r   == IF trails THEN Trail(q, s) ELSE q
           adj == Adjusted(i, regime, new, s)
<1>1. /\ q \in Position /\ q.entry_price = pos.entry_price
      /\ q.original_tp = pos.original_tp
      /\ q.entry_price < q.take_profit_price
      /\ ~adj => q = pos
      /\ adj => /\ q.entry_price - q.stop_loss_price
                     >= Portion(q.take_profit_price - q.entry_price,
                                config.sl_tp_ratio)
                /\ q.stop_loss_price < q.take_profit_price
      /\ Widens(regime, new) => q.take_profit_price >= pos.take_profit_price
      /\ ~Widens(regime, new) => q.take_profit_price <= pos.take_profit_price
  BY AfterSwitchFacts
<1>2. pos \in Position
  BY DEF LevelInv, TypeOK
<1>3. Held(i) /\ TypeOK /\ Unreached
  BY DEF LevelInv
<1>4. pos.entry_price \in Prices /\ pos.entry_price \in Int /\ price \in Int
  BY <1>2, <1>3, LevelsAssumption DEF Position, Held, Sound, TypeOK
<1>5. adj => Widens(regime, new) \/ Tightens(regime, new)
  BY DEF Adjusted
<1> HIDE DEF pos, q, adj
<1>6. /\ Trail(q, s) \in Position
      /\ Trail(q, s).entry_price = q.entry_price
      /\ Trail(q, s).original_tp = q.original_tp
      /\ Trail(q, s).take_profit_price >= q.take_profit_price
      /\ Trail(q, s).stop_loss_price >= q.stop_loss_price
      /\ price < q.take_profit_price =>
           /\ Trail(q, s).take_profit_price = q.take_profit_price
           /\ q.stop_loss_price < q.take_profit_price =>
                Trail(q, s).stop_loss_price < q.take_profit_price
  BY <1>1, <1>3, TrailFacts
<1>7. /\ pos.take_profit_price \in Int /\ pos.stop_loss_price \in Int
      /\ pos.original_tp \in Int
      /\ q.take_profit_price \in Int /\ q.stop_loss_price \in Int
      /\ Trail(q, s).take_profit_price \in Int
      /\ Trail(q, s).stop_loss_price \in Int
  BY <1>1, <1>2, <1>6 DEF Position
<1>8. /\ i \notin trailed =>
           pos.entry_price - pos.stop_loss_price
             >= Portion(pos.take_profit_price - pos.entry_price, ratio[i])
      /\ i \notin Excused => pos.stop_loss_price < pos.take_profit_price
      /\ i \notin widened /\ i \notin Excused =>
           pos.take_profit_price <= pos.original_tp
      /\ i \notin tightened =>
           \E c \in Configs : pos.take_profit_price
             >= pos.entry_price + Portion(pos.entry_price, c.fee_floor)
  BY <1>3 DEF Held, Sound, pos
\* What the gate left open was not past its target.
<1>9. trails /\ i \notin Excused => price < pos.take_profit_price
  BY <1>3 DEF Unreached, pos
<1>10. trails => i \in widened \cup Excused
  BY <1>4, <1>7, <1>8, <1>9 DEF pos
<1>11. r \in Position /\ r.entry_price = pos.entry_price
       /\ r.original_tp = pos.original_tp /\ r.take_profit_price >= q.take_profit_price
       /\ r.entry_price < r.take_profit_price
  BY <1>1, <1>4, <1>6, <1>7
<1>12. ASSUME ~(trails \/ (i \in trailed /\ ~adj))
       PROVE  r.entry_price - r.stop_loss_price
                >= Portion(r.take_profit_price - r.entry_price,
                           IF adj THEN config.sl_tp_ratio ELSE ratio[i])
  BY <1>1, <1>8, <1>12
<1>13. ASSUME i \notin Excused
       PROVE  r.stop_loss_price < r.take_profit_price
  <2>1. q.stop_loss_price < q.take_profit_price
    BY <1>1, <1>8, <1>13
  <2>2. trails => price < q.take_profit_price
    <3>1. trails /\ Widens(regime, new) => price < q.take_profit_price
      BY <1>1, <1>4, <1>7, <1>9, <1>13
    <3>2. trails /\ ~Widens(regime, new) => ~adj
      BY <1>5 DEF Tightens
    <3>3. trails /\ ~Widens(regime, new) => price < q.take_profit_price
      BY <1>1, <1>9, <1>13, <3>2
    <3> QED
      BY <3>1, <3>3
  <2> QED
    BY <1>6, <1>7, <2>1, <2>2
<1>14. ASSUME ~(i \in widened \/ (Widens(regime, new) /\ adj)), i \notin Excused
       PROVE  r.take_profit_price <= r.original_tp
  <2>1. ~trails
    BY <1>10, <1>14
  <2>2. q.take_profit_price <= pos.take_profit_price
    BY <1>1, <1>7, <1>14
  <2> QED
    BY <1>1, <1>7, <1>8, <1>14, <2>1, <2>2
<1>15. ASSUME ~(i \in tightened \/ (Tightens(regime, new) /\ adj))
       PROVE  \E c \in Configs : r.take_profit_price
                >= r.entry_price + Portion(r.entry_price, c.fee_floor)
  <2>1. q.take_profit_price >= pos.take_profit_price
    BY <1>1, <1>5, <1>7, <1>15
  <2>2. r.take_profit_price >= pos.take_profit_price /\ r.take_profit_price \in Int
    BY <1>6, <1>7, <1>11, <2>1
  <2>3. PICK c \in Configs : pos.take_profit_price
                >= pos.entry_price + Portion(pos.entry_price, c.fee_floor)
    BY <1>8, <1>15
  <2>4. Portion(pos.entry_price, c.fee_floor) \in Int
    <3>1. c.fee_floor \in Int
      BY ConfigFacts
    <3>2. pos.entry_price * c.fee_floor \in Int
      BY <1>4, <3>1
    <3> QED
      BY <3>2 DEF Portion
  <2> HIDE DEF r
  <2>5. r.take_profit_price
          >= r.entry_price + Portion(r.entry_price, c.fee_floor)
    BY <1>4, <1>7, <1>11, <2>2, <2>3, <2>4
  <2> QED
    BY <2>5
<1> HIDE DEF r
<1> QED
  BY <1>4, <1>10, <1>11, <1>12, <1>13, <1>14, <1>15 DEF Sound, r, q, adj
-----------------------------------------------------------------------------
(* The steps. *)

LEMMA InitHolds == Init => LevelInv
<1> SUFFICES ASSUME Init PROVE LevelInv
  OBVIOUS
<1>1. NoPosition \in Position
  BY DEF NoPosition, Position, Strategies
<1>2. 0 \in 0 .. Window
  BY LevelsAssumption
<1>3. TypeOK
  BY <1>1, <1>2, LevelsAssumption DEF Init, TypeOK, Regimes
<1> QED
  BY <1>3 DEF Init, LevelInv, Histories, Excused, Unreached

\* What stays open is as it was, or past its target.
LEMMA KeepFacts ==
  ASSUME LevelInv, NEW S, S \subseteq active_bitmap, NEW P, Keep(S, P)
  PROVE  /\ positions' \in [Slots -> Position] /\ ratio' \in [Slots -> Nat]
         /\ active_bitmap' = S
         /\ \A i \in active_bitmap' : positions'[i] = positions[i]
         /\ Excused' = (Excused \cup P) \cap S
         /\ Histories'
         /\ \A i \in active_bitmap' : Held(i)'
<1>1. NoPosition \in Position
  BY DEF NoPosition, Position, Strategies
<1>2. /\ positions \in [Slots -> Position] /\ active_bitmap \subseteq Slots
      /\ ratio \in [Slots -> Nat]
  BY DEF LevelInv, TypeOK
<1>3. /\ active_bitmap' = S
      /\ positions' = [i \in Slots |-> IF i \in S THEN positions[i]
                                       ELSE NoPosition]
      /\ ratio' = [i \in Slots |-> IF i \in S THEN ratio[i] ELSE 0]
      /\ trailed' = trailed \cap S /\ widened' = widened \cap S
      /\ tightened' = tightened \cap S
      /\ Excused' = (Excused \cup P) \cap S
  BY DEF Keep, Excused
<1>4. positions' \in [Slots -> Position] /\ ratio' \in [Slots -> Nat]
  BY <1>1, <1>2, <1>3
<1>5. \A i \in S : positions'[i] = positions[i] /\ ratio'[i] = ratio[i]
  BY <1>2, <1>3
<1>6. Histories'
  BY <1>3 DEF LevelInv, Histories
<1>7. ASSUME NEW i \in S PROVE Held(i)'
  <2>1. Held(i) /\ positions'[i] = positions[i] /\ ratio'[i] = ratio[i]
    BY <1>5, <1>7 DEF LevelInv
  <2>2. (i \in trailed' <=> i \in trailed) /\ (i \in widened' <=> i \in widened)
        /\ (i \in tightened' <=> i \in tightened)
        /\ (i \in Excused => i \in Excused')
    BY <1>3, <1>7
  <2> QED
    BY <2>1, <2>2 DEF Held, Sound
<1> QED
  BY <1>3, <1>4, <1>5, <1>6, <1>7

\* A step that leaves positions and histories alone.
LEMMA StillHeld ==
  ASSUME LevelInv,
         UNCHANGED <<active_bitmap, positions, historyVars>>
  PROVE  Histories' /\ \A i \in active_bitmap' : Held(i)'
BY DEF LevelInv, Histories, Excused, Held, Sound, historyVars

\* What the exit gate leaves open has its target above the price, unless the
\* buffer was full.
LEMMA GateFacts ==
  ASSUME LevelInv, NEW p \in Prices, ExitGate(p)
  PROVE  /\ positions' \in [Slots -> Position] /\ ratio' \in [Slots -> Nat]
         /\ active_bitmap' \subseteq active_bitmap
         /\ exits' \in 0 .. Buffer
         /\ Histories'
         /\ \A i \in active_bitmap' : Held(i)'
         /\ \A i \in active_bitmap' \ Excused' : p < positions'[i].take_profit_price
<1> DEFINE recorded == {i \in AtLevel(p) :
                          exits + Cardinality({j \in AtLevel(p) : j < i}) < Buffer}
           S == active_bitmap \ recorded
<1>1. Keep(S, AtTarget(p)) /\ S \subseteq active_bitmap
      /\ exits' = Lower(exits + Cardinality(AtLevel(p)), Buffer)
  BY DEF ExitGate
<1> HIDE DEF S
<1>2. /\ positions' \in [Slots -> Position] /\ ratio' \in [Slots -> Nat]
      /\ active_bitmap' = S
      /\ \A i \in active_bitmap' : positions'[i] = positions[i]
      /\ Excused' = (Excused \cup AtTarget(p)) \cap S
      /\ Histories' /\ \A i \in active_bitmap' : Held(i)'
  BY <1>1, KeepFacts
<1>3. exits' \in 0 .. Buffer
  <2>1. AtLevel(p) \subseteq Slots /\ IsFiniteSet(Slots)
    BY LevelsAssumption DEF AtLevel, AtTarget, LevelInv, TypeOK
  <2>2. Cardinality(AtLevel(p)) \in Nat
    BY <2>1, FS_Subset, FS_CardinalityType
  <2>3. exits \in 0 .. Buffer /\ Buffer \in Nat
    BY LevelsAssumption DEF LevelInv, TypeOK
  <2> QED
    BY <1>1, <2>2, <2>3 DEF Lower
<1>4. ASSUME NEW i \in S \ Excused' PROVE p < positions'[i].take_profit_price
  <2>1. i \in active_bitmap /\ i \notin AtTarget(p) /\ positions'[i] = positions[i]
    BY <1>1, <1>2, <1>4
  <2>2. positions[i].take_profit_price \in Int /\ p \in Int
    <3>1. positions[i] \in Position
      BY <2>1 DEF LevelInv, TypeOK
    <3> QED
      BY <3>1, LevelsAssumption DEF Position
  <2>3. ~(p >= positions[i].take_profit_price)
    BY <2>1 DEF AtTarget
  <2> QED
    BY <2>1, <2>2, <2>3
<1> QED
  BY <1>1, <1>2, <1>3, <1>4

LEMMA TradeHolds ==
  ASSUME LevelInv, NEW p \in Prices, Trade(p)
  PROVE  LevelInv'
<1>1. /\ positions' \in [Slots -> Position]
      /\ ratio' \in [Slots -> Nat] /\ exits' \in 0 .. Buffer
      /\ active_bitmap' \subseteq active_bitmap
      /\ Histories' /\ \A i \in active_bitmap' : Held(i)'
  BY GateFacts DEF Trade
<1>2. TypeOK'
  BY <1>1 DEF Trade, LevelInv, TypeOK, statsVars, Histories, Excused
<1>3. Unreached'
  BY DEF Trade, Unreached
<1> QED
  BY <1>1, <1>2, <1>3 DEF LevelInv

LEMMA EngineTickHolds ==
  ASSUME LevelInv, EngineTick
  PROVE  LevelInv'
<1>1. /\ positions' \in [Slots -> Position]
      /\ ratio' \in [Slots -> Nat] /\ exits' \in 0 .. Buffer
      /\ active_bitmap' \subseteq active_bitmap
      /\ Histories' /\ \A i \in active_bitmap' : Held(i)'
      /\ \A i \in active_bitmap' \ Excused' :
           price < positions'[i].take_profit_price
  BY GateFacts DEF EngineTick, LevelInv, TypeOK
<1>2. TypeOK'
  BY <1>1 DEF EngineTick, LevelInv, TypeOK, statsVars, Histories, Excused
<1>3. Unreached'
  BY <1>1 DEF EngineTick, Unreached
<1> QED
  BY <1>1, <1>2, <1>3 DEF LevelInv

LEMMA TimeExitHolds ==
  ASSUME LevelInv, NEW i \in Slots, TimeExit(i)
  PROVE  LevelInv'
<1> DEFINE S == active_bitmap \ {i}
<1>0. Keep(S, {}) /\ S \subseteq active_bitmap
  BY DEF TimeExit
<1> HIDE DEF S
<1>1. /\ positions' \in [Slots -> Position] /\ ratio' \in [Slots -> Nat]
      /\ active_bitmap' = S
      /\ \A j \in active_bitmap' : positions'[j] = positions[j]
      /\ Excused' = (Excused \cup {}) \cap S
      /\ Histories' /\ \A j \in active_bitmap' : Held(j)'
  BY <1>0, KeepFacts
<1>2. TypeOK'
  BY <1>0, <1>1
     DEF TimeExit, LevelInv, TypeOK, statsVars, marketVars, Histories, Excused
<1>3. Unreached'
  BY <1>0, <1>1 DEF TimeExit, Unreached, LevelInv, marketVars
<1> QED
  BY <1>1, <1>2, <1>3 DEF LevelInv

LEMMA NewSessionHolds ==
  ASSUME LevelInv, NEW cfg \in Configs, NewSession(cfg)
  PROVE  LevelInv'
<1>1. /\ positions' \in [Slots -> Position] /\ ratio' \in [Slots -> Nat]
      /\ active_bitmap' = {}
      /\ Histories' /\ \A i \in active_bitmap' : Held(i)'
  BY KeepFacts DEF NewSession
<1>2. 0 \in 0 .. Window /\ 0 \in 0 .. Buffer
  BY LevelsAssumption
<1>3. TypeOK'
  BY <1>1, <1>2, LevelsAssumption
     DEF NewSession, LevelInv, TypeOK, Histories, Excused, Regimes
<1>4. Unreached'
  BY DEF NewSession, Unreached
<1> QED
  BY <1>1, <1>3, <1>4 DEF LevelInv

\* Steps that touch no position.
LEMMA QuietHolds ==
  ASSUME LevelInv,
         \/ WarmupFill \/ (\E s \in Volatilities : WarmupPush(s)) \/ FillsDone
         \/ (\E cfg \in Configs : HotReload(cfg))
         \/ (\E p \in Prices, cfg \in Configs : Restart(p, cfg))
  PROVE  LevelInv'
<1>1. UNCHANGED <<active_bitmap, positions, historyVars>>
  BY DEF WarmupFill, WarmupPush, FillsDone, HotReload, Restart, historyVars
<1>2. Histories' /\ \A i \in active_bitmap' : Held(i)'
  BY <1>1, StillHeld
<1>3. 0 \in 0 .. Window /\ 0 \in 0 .. Buffer /\ 0 \in Volatilities
  BY LevelsAssumption
<1>4. /\ active_bitmap' \subseteq Slots /\ positions' \in [Slots -> Position]
      /\ trailed' \subseteq Slots /\ widened' \subseteq Slots
      /\ tightened' \subseteq Slots /\ late' \subseteq Slots
      /\ overdue' \subseteq Slots /\ ratio' \in [Slots -> Nat]
  BY <1>1 DEF LevelInv, TypeOK, historyVars
<1>6. Excused' = Excused
  BY <1>1 DEF Excused, historyVars
<1>5. TypeOK' /\ Unreached'
  <2>1. CASE WarmupFill
    BY <1>4, <1>6, <2>1 DEF WarmupFill, LevelInv, TypeOK, Unreached, statsVars
  <2>2. CASE \E s \in Volatilities : WarmupPush(s)
    BY <1>3, <1>4, <1>6, <2>2 DEF WarmupPush, LevelInv, TypeOK, Unreached
  <2>3. CASE FillsDone
    BY <1>1, <1>3, <1>4, <1>6, <2>3
       DEF FillsDone, LevelInv, TypeOK, Unreached, statsVars, historyVars
  <2>4. CASE \E cfg \in Configs : HotReload(cfg)
    BY <1>4, <1>6, <2>4 DEF HotReload, LevelInv, TypeOK, Unreached, marketVars
  <2>5. CASE \E p \in Prices, cfg \in Configs : Restart(p, cfg)
    BY <1>3, <1>4, <1>6, <2>5 DEF Restart, LevelInv, TypeOK, Unreached
  <2> QED
    BY <2>1, <2>2, <2>3, <2>4, <2>5
<1> QED
  BY <1>2, <1>5 DEF LevelInv

LEMMA BuyHolds ==
  ASSUME LevelInv, NEW p \in Prices, NEW r2 \in {0, 100}, NEW ror \in BOOLEAN,
         Buy(p, r2, ror)
  PROVE  LevelInv'
<1> DEFINE new == Bought(p, r2, ror)
<1>1. TypeOK
  BY DEF LevelInv
<1>2. /\ new \in Position /\ p < new.take_profit_price
      /\ Sound(new, config.sl_tp_ratio, TRUE, TRUE, TRUE, TRUE)
  BY <1>1, BoughtFacts
<1> HIDE DEF new
<1>3. PICK slot \in Slots \ active_bitmap :
        /\ active_bitmap' = active_bitmap \cup {slot}
        /\ positions' = [positions EXCEPT ![slot] = new]
        /\ late' = IF p = leftover THEN late \cup {slot} ELSE late
        /\ ratio' = [ratio EXCEPT ![slot] = config.sl_tp_ratio]
  BY DEF Buy, IsLowest, new
<1>11. config.sl_tp_ratio \in Nat
  BY <1>1, ConfigFacts DEF TypeOK
<1>4. /\ positions' \in [Slots -> Position] /\ ratio' \in [Slots -> Nat]
      /\ positions'[slot] = new /\ ratio'[slot] = config.sl_tp_ratio
      /\ \A i \in active_bitmap :
           positions'[i] = positions[i] /\ (i # slot => ratio'[i] = ratio[i])
  BY <1>1, <1>2, <1>3, <1>11 DEF TypeOK
<1>5. /\ trailed' = trailed /\ widened' = widened /\ tightened' = tightened
      /\ Excused' = IF p = leftover THEN Excused \cup {slot} ELSE Excused
      /\ overdue' = overdue
  BY <1>3 DEF Buy, Excused
<1>6. slot \notin trailed /\ slot \notin widened /\ slot \notin tightened
      /\ slot \notin Excused
  BY <1>3 DEF LevelInv, Histories
<1>7. Histories'
  BY <1>3, <1>5 DEF LevelInv, Histories
<1>8. TypeOK'
  BY <1>1, <1>3, <1>4, <1>5 DEF Buy, TypeOK, statsVars
<1>9. ASSUME NEW i \in active_bitmap' PROVE Held(i)'
  <2>1. CASE i = slot
    <3>1. positions'[i] = new /\ ratio'[i] = config.sl_tp_ratio
      BY <1>4, <2>1
    <3> QED
      BY <1>2, <3>1 DEF Held, Sound
  <2>2. CASE i # slot
    <3>1. i \in active_bitmap /\ positions'[i] = positions[i]
          /\ ratio'[i] = ratio[i] /\ (i \in Excused' <=> i \in Excused)
      BY <1>3, <1>4, <1>5, <1>9, <2>2
    <3>2. Held(i)
      BY <3>1 DEF LevelInv
    <3> QED
      BY <1>5, <3>1, <3>2 DEF Held, Sound
  <2> QED
    BY <2>1, <2>2
<1>10. Unreached'
  <2> SUFFICES ASSUME NEW i \in active_bitmap', i \notin Excused'
               PROVE  price' < positions'[i].take_profit_price
    BY DEF Unreached
  <2>1. price' = price /\ pc = "tick"
    BY DEF Buy
  <2>2. CASE i = slot
    <3>1. p # leftover
      BY <1>5, <2>2
    <3>2. p = price
      BY <3>1 DEF Buy
    <3> QED
      BY <1>2, <1>4, <2>1, <2>2, <3>2
  <2>3. CASE i # slot
    <3>1. i \in active_bitmap /\ i \notin Excused
      BY <1>3, <1>5, <2>3
    <3>2. price < positions[i].take_profit_price
      BY <2>1, <3>1 DEF LevelInv, Unreached
    <3> QED
      BY <1>4, <2>1, <3>1, <3>2
  <2> QED
    BY <2>2, <2>3
<1> QED
  BY <1>7, <1>8, <1>9, <1>10 DEF LevelInv

\* A switch of the regime, with or without trailing after it.
LEMMA SwitchHolds ==
  ASSUME LevelInv, NEW new \in Regimes, NEW s \in Volatilities,
         NEW T, T \subseteq active_bitmap,
         \A i \in T : /\ pc = "slow" /\ new = "TRENDING"
                      /\ price > positions[i].original_tp,
         active_bitmap' = active_bitmap, Excused' = Excused,
         positions' = [i \in Slots |->
           IF i \notin active_bitmap THEN positions[i]
           ELSE IF i \in T THEN Trail(AfterSwitch(i, regime, new, s), s)
                ELSE AfterSwitch(i, regime, new, s)],
         SwitchHistory(regime, new, s),
         trailed' = {i \in trailed : ~Adjusted(i, regime, new, s)} \cup T
  PROVE  /\ positions' \in [Slots -> Position]
         /\ ratio' \in [Slots -> Nat]
         /\ Histories' /\ \A i \in active_bitmap' : Held(i)'
<1> DEFINE of == {i \in active_bitmap : Adjusted(i, regime, new, s)}
           q(i) == AfterSwitch(i, regime, new, s)
           r(i) == IF i \in T THEN Trail(q(i), s) ELSE q(i)
           adj(i) == Adjusted(i, regime, new, s)
<1>1. positions \in [Slots -> Position] /\ active_bitmap \subseteq Slots
  BY DEF LevelInv, TypeOK
<1>2. ASSUME NEW i \in active_bitmap
      PROVE  /\ r(i) \in Position
             /\ i \in T => i \in widened \cup Excused
             /\ Sound(r(i), IF adj(i) THEN config.sl_tp_ratio ELSE ratio[i],
                      ~(i \in T \/ (i \in trailed /\ ~adj(i))),
                      i \notin Excused,
                      ~(i \in widened \/ (Widens(regime, new) /\ adj(i))),
                      ~(i \in tightened \/ (Tightens(regime, new) /\ adj(i))))
  <2>1. (i \in T) \in BOOLEAN
    OBVIOUS
  <2> QED
    BY <2>1, MovedFacts
<1>3. widened' = (IF Widens(regime, new) THEN widened \cup of ELSE widened)
      /\ tightened' = (IF Tightens(regime, new) THEN tightened \cup of
                       ELSE tightened)
      /\ ratio' = [i \in Slots |-> IF i \in of THEN config.sl_tp_ratio
                                   ELSE ratio[i]]
  BY DEF SwitchHistory
<1>9. ratio' \in [Slots -> Nat]
  BY <1>3, ConfigFacts DEF LevelInv, TypeOK
<1>4. \A i \in active_bitmap : positions'[i] = r(i)
  BY <1>1
<1>5. positions' \in [Slots -> Position]
  BY <1>1, <1>2
<1>6. ASSUME NEW i \in active_bitmap
      PROVE  /\ i \in widened' <=> (i \in widened \/ (Widens(regime, new) /\ adj(i)))
             /\ i \in tightened'
                  <=> (i \in tightened \/ (Tightens(regime, new) /\ adj(i)))
             /\ i \in trailed' <=> (i \in T \/ (i \in trailed /\ ~adj(i)))
             /\ ratio'[i] = IF adj(i) THEN config.sl_tp_ratio ELSE ratio[i]
  BY <1>1, <1>3
<1> HIDE DEF r, q, adj
<1>7. Histories'
  <2>1. trailed' \subseteq active_bitmap /\ widened' \subseteq active_bitmap
        /\ tightened' \subseteq active_bitmap /\ Excused' \subseteq active_bitmap
    BY <1>3 DEF LevelInv, Histories
  <2>2. widened \subseteq widened'
    BY <1>3
  <2>3. trailed' \subseteq widened' \cup Excused'
    BY <1>2, <2>2 DEF LevelInv, Histories
  <2> QED
    BY <2>1, <2>3 DEF Histories
<1>8. ASSUME NEW i \in active_bitmap PROVE Held(i)'
  <2>1. positions'[i] = r(i)
    BY <1>4
  <2> QED
    BY <1>2, <1>6, <2>1 DEF Held, Sound
<1> QED
  BY <1>5, <1>7, <1>8, <1>9

LEMMA SlowPathHolds ==
  ASSUME LevelInv, NEW s \in Volatilities, NEW new \in Regimes,
         NEW strong \in BOOLEAN, SlowPath(s, new, strong)
  PROVE  LevelInv'
<1> DEFINE T == {i \in active_bitmap : Trails(i, new, s, strong)}
<1>1. \A i \in T : /\ pc = "slow" /\ new = "TRENDING"
                   /\ price > positions[i].original_tp
  BY DEF SlowPath, Trails, ToStrategy
<1>2. positions' = [i \in Slots |->
        IF i \notin active_bitmap THEN positions[i]
        ELSE IF i \in T THEN Trail(AfterSwitch(i, regime, new, s), s)
             ELSE AfterSwitch(i, regime, new, s)]
  BY DEF SlowPath
<1>3. /\ T \subseteq active_bitmap
      /\ active_bitmap' = active_bitmap /\ late' = late /\ Excused' = Excused
      /\ SwitchHistory(regime, new, s)
      /\ trailed' = {i \in trailed : ~Adjusted(i, regime, new, s)} \cup T
  BY DEF SlowPath, Excused
<1> HIDE DEF T
<1>4. /\ positions' \in [Slots -> Position] /\ ratio' \in [Slots -> Nat]
      /\ Histories' /\ \A i \in active_bitmap' : Held(i)'
  BY <1>1, <1>2, <1>3, SwitchHolds
<1>5. feeder' \in 0 .. Window
  BY LevelsAssumption DEF SlowPath, Push, Lower, LevelInv, TypeOK
<1>6. TypeOK'
  BY <1>3, <1>4, <1>5 DEF SlowPath, LevelInv, TypeOK, Histories, Excused
<1>7. Unreached'
  BY DEF SlowPath, Unreached
<1> QED
  BY <1>4, <1>6, <1>7 DEF LevelInv

LEMMA CycleRegimeHolds ==
  ASSUME LevelInv, CycleRegime
  PROVE  LevelInv'
<1> DEFINE new == NextRegime(regime)
           none == {}
<1>1. new \in Regimes /\ stddev \in Volatilities
  BY DEF NextRegime, Regimes, LevelInv, TypeOK
<1>2. positions' = [i \in Slots |->
        IF i \notin active_bitmap THEN positions[i]
        ELSE IF i \in none THEN Trail(AfterSwitch(i, regime, new, stddev), stddev)
             ELSE AfterSwitch(i, regime, new, stddev)]
  BY DEF CycleRegime
<1>3. /\ active_bitmap' = active_bitmap /\ late' = late /\ Excused' = Excused
      /\ SwitchHistory(regime, new, stddev)
      /\ trailed' = {i \in trailed : ~Adjusted(i, regime, new, stddev)} \cup none
  BY DEF CycleRegime, Excused
<1>4. regime' = new
  BY DEF CycleRegime
<1>8. none \subseteq active_bitmap /\ \A i \in none : FALSE
  OBVIOUS
<1> HIDE DEF new, none
<1>5. /\ positions' \in [Slots -> Position] /\ ratio' \in [Slots -> Nat]
      /\ Histories' /\ \A i \in active_bitmap' : Held(i)'
  BY <1>1, <1>2, <1>3, <1>8, SwitchHolds
<1>6. TypeOK'
  BY <1>1, <1>3, <1>4, <1>5
     DEF CycleRegime, LevelInv, TypeOK, Histories, Excused, marketVars
<1>7. Unreached'
  BY DEF CycleRegime, Unreached, marketVars
<1> QED
  BY <1>5, <1>6, <1>7 DEF LevelInv

LEMMA LevelInvHolds == Spec => []LevelInv
<1>1. ASSUME LevelInv, [Next]_vars PROVE LevelInv'
  <2>1. CASE \E p \in Prices : Trade(p)
    BY <1>1, <2>1, TradeHolds
  <2>2. CASE \/ WarmupFill \/ (\E s \in Volatilities : WarmupPush(s)) \/ FillsDone
             \/ (\E cfg \in Configs : HotReload(cfg))
             \/ (\E p \in Prices, cfg \in Configs : Restart(p, cfg))
    BY <1>1, <2>2, QuietHolds
  <2>3. CASE EngineTick
    BY <1>1, <2>3, EngineTickHolds
  <2>4. CASE \E p \in Prices, r2 \in {0, 100}, ror \in BOOLEAN : Buy(p, r2, ror)
    BY <1>1, <2>4, BuyHolds
  <2>5. CASE \E i \in Slots : TimeExit(i)
    BY <1>1, <2>5, TimeExitHolds
  <2>6. CASE \E s \in Volatilities, new \in Regimes, strong \in BOOLEAN :
               SlowPath(s, new, strong)
    BY <1>1, <2>6, SlowPathHolds
  <2>7. CASE CycleRegime
    BY <1>1, <2>7, CycleRegimeHolds
  <2>8. CASE \E cfg \in Configs : NewSession(cfg)
    BY <1>1, <2>8, NewSessionHolds
  <2>9. CASE UNCHANGED vars
    BY <1>1, <2>9
       DEF vars, marketVars, statsVars, historyVars, LevelInv, TypeOK,
           Histories, Excused, Unreached, Held, Sound
  <2> QED
    BY <1>1, <2>1, <2>2, <2>3, <2>4, <2>5, <2>6, <2>7, <2>8, <2>9 DEF Next
<1> QED
  BY <1>1, InitHolds, PTL DEF Spec

-----------------------------------------------------------------------------
(* What every step does to one position that stays open. *)

\* A step other than a switch leaves the levels of what stays open.
LEMMA OthersKeep ==
  ASSUME LevelInv, [Next]_vars, ~CycleRegime,
         ~(\E s \in Volatilities, new \in Regimes, strong \in BOOLEAN :
             SlowPath(s, new, strong))
  PROVE  \A i \in active_bitmap \cap active_bitmap' : positions'[i] = positions[i]
<1>1. positions \in [Slots -> Position] /\ active_bitmap \subseteq Slots
  BY DEF LevelInv, TypeOK
<1>2. CASE \E S \in SUBSET active_bitmap : \E P : Keep(S, P)
  BY <1>1, <1>2 DEF Keep
<1>3. CASE UNCHANGED positions
  BY <1>3
<1>4. CASE \E p \in Prices, r2 \in {0, 100}, ror \in BOOLEAN : Buy(p, r2, ror)
  BY <1>1, <1>4 DEF Buy, IsLowest
<1>5. \/ \E p \in Prices : ExitGate(p)
      \/ \E i \in Slots : Keep(active_bitmap \ {i}, {})
      \/ Keep({}, {})
      \/ UNCHANGED positions
      \/ \E p \in Prices, r2 \in {0, 100}, ror \in BOOLEAN : Buy(p, r2, ror)
  BY DEF LevelInv, TypeOK, Next, vars, Trade, WarmupFill, WarmupPush, FillsDone,
         HotReload, Restart, EngineTick, TimeExit, NewSession
<1>6. ASSUME NEW p \in Prices, ExitGate(p)
      PROVE  \E S \in SUBSET active_bitmap : \E P : Keep(S, P)
  <2>1. PICK R : Keep(active_bitmap \ R, AtTarget(p))
    BY <1>6 DEF ExitGate
  <2> DEFINE S == active_bitmap \ R
  <2>2. Keep(S, AtTarget(p)) /\ S \in SUBSET active_bitmap
    BY <2>1
  <2> HIDE DEF S
  <2> QED
    BY <2>2
<1>7. ASSUME NEW i \in Slots, Keep(active_bitmap \ {i}, {})
      PROVE  \E S \in SUBSET active_bitmap : \E P : Keep(S, P)
  <2> DEFINE S == active_bitmap \ {i}
  <2>1. Keep(S, {}) /\ S \in SUBSET active_bitmap
    BY <1>7
  <2> HIDE DEF S
  <2> QED
    BY <2>1
<1>8. Keep({}, {}) => \E S \in SUBSET active_bitmap : \E P : Keep(S, P)
  OBVIOUS
<1> QED
  BY <1>2, <1>3, <1>4, <1>5, <1>6, <1>7, <1>8

\* The position i after a switch step: adjusted, and raised by trailing or not.
LEMMA SwitchedPosition ==
  ASSUME LevelInv, NEW i \in active_bitmap,
         \/ CycleRegime
         \/ \E s \in Volatilities, new \in Regimes, strong \in BOOLEAN :
              SlowPath(s, new, strong)
  PROVE  /\ regime' \in Regimes /\ stddev' \in Volatilities
         /\ LET q == AfterSwitch(i, regime, regime', stddev')
            IN  \/ positions'[i] = q
                \/ /\ pc = "slow" /\ regime' = "TRENDING"
                   /\ positions'[i] = Trail(q, stddev')
<1>1. i \in Slots
  BY DEF LevelInv, TypeOK
<1>2. CASE CycleRegime
  BY <1>1, <1>2
     DEF CycleRegime, NextRegime, Regimes, LevelInv, TypeOK
<1>3. ASSUME NEW s \in Volatilities, NEW new \in Regimes, NEW strong \in BOOLEAN,
             SlowPath(s, new, strong)
      PROVE  /\ regime' \in Regimes /\ stddev' \in Volatilities
             /\ LET q == AfterSwitch(i, regime, regime', stddev')
                IN  \/ positions'[i] = q
                    \/ /\ pc = "slow" /\ regime' = "TRENDING"
                       /\ positions'[i] = Trail(q, stddev')
  <2>1. regime' = new /\ stddev' = s /\ pc = "slow"
    BY <1>3 DEF SlowPath
  <2>2. positions'[i] = IF Trails(i, new, s, strong)
                        THEN Trail(AfterSwitch(i, regime, new, s), s)
                        ELSE AfterSwitch(i, regime, new, s)
    BY <1>1, <1>3 DEF SlowPath
  <2>3. Trails(i, new, s, strong) => new = "TRENDING"
    BY DEF Trails, ToStrategy
  <2> QED
    BY <2>1, <2>2, <2>3
<1> QED
  BY <1>2, <1>3

LEMMA StopStep ==
  ASSUME LevelInv, [Next]_vars, NEW i \in active_bitmap \cap active_bitmap',
         positions'[i].stop_loss_price < positions[i].stop_loss_price
  PROVE  Adjusted(i, regime, regime', stddev')
<1>1. positions[i] \in Position /\ TypeOK
  BY DEF LevelInv, TypeOK
<1>2. positions[i].stop_loss_price \in Int
  BY <1>1 DEF Position
<1>3. \/ CycleRegime
      \/ \E s \in Volatilities, new \in Regimes, strong \in BOOLEAN :
           SlowPath(s, new, strong)
  BY <1>2, OthersKeep
<1> SUFFICES ASSUME ~Adjusted(i, regime, regime', stddev') PROVE FALSE
  OBVIOUS
<1>4. AfterSwitch(i, regime, regime', stddev') = positions[i]
  BY DEF AfterSwitch
<1>5. stddev' \in Volatilities
      /\ \/ positions'[i] = positions[i]
         \/ positions'[i] = Trail(positions[i], stddev')
  BY <1>3, <1>4, SwitchedPosition
<1>6. Trail(positions[i], stddev') \in Position
      /\ Trail(positions[i], stddev').stop_loss_price
           >= positions[i].stop_loss_price
  BY <1>1, <1>5, TrailFacts
<1>7. Trail(positions[i], stddev').stop_loss_price \in Int
  BY <1>6 DEF Position
<1> QED
  BY <1>2, <1>5, <1>6, <1>7

LEMMA TargetStep ==
  ASSUME LevelInv, [Next]_vars,
         NEW i \in (active_bitmap \cap active_bitmap') \ (late \cup overdue),
         positions'[i].take_profit_price > positions[i].take_profit_price
  PROVE  Widens(regime, regime')
<1> DEFINE pos == positions[i]
           q   == AfterSwitch(i, regime, regime', stddev')
<1>1. pos \in Position /\ TypeOK
  BY DEF LevelInv, TypeOK
<1>2. pos.take_profit_price \in Int
  BY <1>1 DEF Position
<1>3. \/ CycleRegime
      \/ \E s \in Volatilities, new \in Regimes, strong \in BOOLEAN :
           SlowPath(s, new, strong)
  BY <1>2, OthersKeep
<1> SUFFICES ASSUME ~Widens(regime, regime') PROVE FALSE
  OBVIOUS
<1>4. /\ regime' \in Regimes /\ stddev' \in Volatilities
      /\ \/ positions'[i] = q
         \/ /\ pc = "slow" /\ regime' = "TRENDING"
            /\ positions'[i] = Trail(q, stddev')
  BY <1>3, SwitchedPosition
<1>5. q \in Position /\ q.take_profit_price <= pos.take_profit_price
  BY <1>4, AfterSwitchFacts
<1>6. q.take_profit_price \in Int
  BY <1>5 DEF Position
<1>7. regime' = "TRENDING" => q = pos
  BY DEF AfterSwitch, Adjusted, Tightens
<1>8. pc = "slow" => price < pos.take_profit_price
  BY DEF LevelInv, Unreached, Excused
<1> HIDE DEF q, pos
<1>9. CASE positions'[i] = q
  BY <1>2, <1>5, <1>6, <1>9 DEF pos
<1>10. CASE pc = "slow" /\ regime' = "TRENDING" /\ positions'[i] = Trail(q, stddev')
  <2>1. q = pos /\ price < q.take_profit_price
    BY <1>7, <1>8, <1>10
  <2>2. Trail(q, stddev').take_profit_price = q.take_profit_price
    BY <1>1, <1>4, <1>5, <2>1, TrailFacts
  <2> QED
    BY <1>2, <1>10, <2>1, <2>2 DEF pos
<1> QED
  BY <1>4, <1>9, <1>10

-----------------------------------------------------------------------------
(* Theorems. *)

\* The type invariant: levels stay numbers through every adjustment.
THEOREM LevelsTypeCorrect == Spec => []TypeOK
BY LevelInvHolds, PTL DEF LevelInv

\* Whatever the prices, sequence of switches and reloads of the ratio, the risk
\* of a position whose stop does not trail is in the proportion to its reward
\* that held when the two levels were last set.
THEOREM RiskInProportion == Spec => []RewardToRisk
<1>1. LevelInv => RewardToRisk
  BY DEF LevelInv, Held, Sound, RewardToRisk
<1> QED
  BY <1>1, LevelInvHolds, PTL

\* The stop stays below the target: Tick, AdjustPositions, ExitAdjust and the
\* gate keep them apart in any order, unless the gate had no room to record the
\* hit or never saw the position before the slow path did.
THEOREM StopsBelowTargets == Spec => []StopBelowTarget
<1>1. LevelInv => StopBelowTarget
  BY DEF LevelInv, Held, Sound, Excused, StopBelowTarget
<1> QED
  BY <1>1, LevelInvHolds, PTL

\* Momentum_ExitAdjust reaches only positions that a switch widened, the warmup
\* left over or the full exit buffer turned away.
THEOREM OnlyWidenedAreTrailed == Spec => []OnlyWidenedTrail
<1>1. LevelInv => OnlyWidenedTrail
  BY DEF LevelInv, Histories, Excused, OnlyWidenedTrail
<1> QED
  BY <1>1, LevelInvHolds, PTL

\* A target pays the fees of a round trip unless a switch moved it down.
THEOREM TargetsPay == Spec => []TargetPays
<1>1. LevelInv => TargetPays
  BY DEF LevelInv, Held, Sound, TargetPays
<1> QED
  BY <1>1, LevelInvHolds, PTL

\* Only Regime_AdjustPositions lowers a stop.
THEOREM StopsRatchet == Spec => StopRatchets
<1>1. LevelInv /\ [Next]_vars =>
        [\A i \in active_bitmap \cap active_bitmap' :
           positions'[i].stop_loss_price < positions[i].stop_loss_price
             => Adjusted(i, regime, regime', stddev')]_vars
  BY StopStep
<1> QED
  BY <1>1, LevelInvHolds, PTL DEF Spec, StopRatchets

\* Only Regime_AdjustPositions raises a target: the exit gate, earlier in the
\* tick, leaves Momentum_ExitAdjust none that the price has reached, unless its
\* buffer was full or the position comes from the warmup.
THEOREM TargetsOnlyRaisedBySwitch == Spec => TargetsRaisedBySwitch
<1>1. LevelInv /\ [Next]_vars =>
        [\A i \in (active_bitmap \cap active_bitmap') \ (late \cup overdue) :
           positions'[i].take_profit_price > positions[i].take_profit_price
             => Widens(regime, regime')]_vars
  BY TargetStep
<1> QED
  BY <1>1, LevelInvHolds, PTL DEF Spec, TargetsRaisedBySwitch
=============================================================================
