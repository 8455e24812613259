--------------------- MODULE PortfolioControllerProofs ----------------------
(***************************************************************************)
(* What holds of PortfolioController for every number of slots, every      *)
(* configuration and every behaviour, however long.                        *)
(***************************************************************************)
EXTENDS PortfolioController, FiniteSetTheorems, TLAPS

\* Sizes of the portfolio bitmap: it is finite, and its cardinality counts.
LEMMA BitmapFinite ==
  ASSUME NEW S \in SUBSET Slots
  PROVE  IsFiniteSet(S) /\ Cardinality(S) \in Nat
  <1>1. NSlots \in Nat
    BY SizesAssumption
  <1>2. IsFiniteSet(Slots)
    BY <1>1, FS_Interval DEF Slots
  <1> QED
    BY <1>2, FS_Subset, FS_CardinalityType

\* The initial states are well typed.
LEMMA InitType == Init => TypeOK
  <1> SUFFICES ASSUME Init PROVE TypeOK
    OBVIOUS
  <1> USE SizesAssumption, ConfigAssumption
  <1>1. active_bitmap \in SUBSET Slots
    BY DEF Init, LoadSnapshot
  <1>2. positions \in [Slots -> Position]
    <2>1. PICK entry \in [Slots -> Prices] :
            positions = [i \in Slots |->
                          IF i \in active_bitmap
                          THEN [entry_price |-> entry[i], lot |-> i + 1]
                          ELSE EmptyPosition]
      BY DEF Init, LoadSnapshot
    <2>2. \A i \in Slots : i + 1 \in Nat
      BY DEF Slots
    <2> QED
      BY <2>1, <2>2 DEF Position, EmptyPosition
  <1>3. held \in [Slots -> Int]
    <2>1. PICK lag \in RestoredLag :
            held = [i \in Slots |-> IF i \in active_bitmap THEN 0 - lag ELSE 0]
      BY DEF Init, LoadSnapshot
    <2> QED
      BY <2>1
  <1>4. total_buys \in Nat /\ wins \in Nat /\ losses \in Nat
    BY DEF Init, LoadSnapshot, Stats
  <1>5. exit_buf \in Seq(ExitRecord) /\ Len(exit_buf) = 0
    BY DEF Init
  <1>6. slot_price \in [PoolSlots -> Prices \cup {0}]
    BY DEF Init
  <1> QED
    BY <1>1, <1>2, <1>3, <1>4, <1>5, <1>6 DEF Init, TypeOK

\* Every step keeps the types.
LEMMA NextType == TypeOK /\ [Next]_vars => TypeOK'
  <1> SUFFICES ASSUME TypeOK, [Next]_vars PROVE TypeOK'
    OBVIOUS
  <1> USE SizesAssumption, ConfigAssumption DEF TypeOK
  <1>1. ASSUME NEW p \in Prices, ReadTick(p) PROVE TypeOK'
    BY <1>1 DEF ReadTick, poolVars, portfolioVars, statVars
  <1>2. ASSUME NEW new_cfg \in Configs, HotReload(new_cfg) PROVE TypeOK'
    BY <1>2 DEF HotReload, clockVars, poolVars, exitVars, statVars
  <1>3. ASSUME NEW pass \in BOOLEAN, BuyGate(pass) PROVE TypeOK'
    <2>1. pool' \in SUBSET PoolSlots /\ slot_price' \in [PoolSlots -> Prices \cup {0}]
      BY <1>3 DEF BuyGate, PlaceFill
    <2> QED
      BY <1>3, <2>1 DEF BuyGate, clockVars, portfolioVars, statVars
  <1>4. ASSUME NEW i \in Slots, NEW hit \in Reasons \cup {"none"},
               ExitGateStep(i, hit)
        PROVE  TypeOK'
    <2>1. positions[i].lot \in Nat
      BY DEF Position
    <2>2. CASE hit \in Reasons /\ Len(exit_buf) < BufCap
      <3> DEFINE rec == [position_index |-> i, reason |-> hit,
                         lot |-> positions[i].lot]
      <3>1. rec \in ExitRecord
        BY <2>1, <2>2 DEF ExitRecord
      <3>2. exit_buf' = Append(exit_buf, rec)
        BY <1>4, <2>2 DEF ExitGateStep
      <3>3. /\ exit_buf' \in Seq(ExitRecord)
            /\ Len(exit_buf') = Len(exit_buf) + 1
        BY <3>1, <3>2
      <3> QED
        BY <1>4, <2>2, <3>3 DEF ExitGateStep, clockVars, poolVars, statVars
    <2>3. CASE ~(hit \in Reasons /\ Len(exit_buf) < BufCap)
      BY <1>4, <2>3 DEF ExitGateStep, clockVars, poolVars, statVars
    <2> QED
      BY <2>2, <2>3
  <1>5. CASE ExitGateReturn
    BY <1>5 DEF ExitGateReturn, clockVars, poolVars, portfolioVars, exitVars,
                statVars
  <1>6. ASSUME NEW time_floor \in BOOLEAN, TickWarmup(time_floor) PROVE TypeOK'
    BY <1>6 DEF TickWarmup, AgeSlots, PushSample, poolVars, exitVars, statVars
  <1>7. CASE TickActive
    BY <1>7 DEF TickActive, AgeSlots, exitVars, statVars
  <1>8. ASSUME NEW i \in PoolSlots, NEW funded \in BOOLEAN,
               NEW spacing \in Spacings, ConsumeFill(i, funded, spacing)
        PROVE  TypeOK'
    <2>1. /\ active_bitmap' \in SUBSET Slots /\ positions' \in [Slots -> Position]
          /\ held' \in [Slots -> Int] /\ next_lot' \in Nat /\ total_buys' \in Nat
      <3>1. CASE OpenPosition(slot_price[i])
        <4>1. PICK s \in Slots :
                /\ active_bitmap' = active_bitmap \cup {s}
                /\ positions' = [positions EXCEPT ![s] =
                     [entry_price |-> slot_price[i], lot |-> next_lot]]
                /\ held' = [held EXCEPT ![s] = 0]
                /\ next_lot' = next_lot + 1 /\ total_buys' = total_buys + 1
          BY <3>1 DEF OpenPosition
        <4> QED
          BY <4>1 DEF Position
      <3>2. CASE UNCHANGED <<active_bitmap, positions, held, next_lot, total_buys>>
        BY <3>2
      <3> QED
        BY <1>8, <3>1, <3>2 DEF ConsumeFill
    <2> QED
      BY <1>8, <2>1 DEF ConsumeFill, clockVars, exitVars
  <1>9. ASSUME NEW time_floor \in BOOLEAN, FillsDone(time_floor) PROVE TypeOK'
    BY <1>9 DEF FillsDone, portfolioVars, exitVars, statVars
  <1>10. CASE DrainExit
    <2>1. exit_buf[drained + 1] \in ExitRecord
      BY <1>10 DEF DrainExit
    <2>2. booked' \in SUBSET Booking
      BY <1>10, <2>1 DEF DrainExit, ExitRecord, Position, Booking
    <2> QED
      BY <1>10, <2>2 DEF DrainExit, clockVars, poolVars, portfolioVars
  <1>11. CASE DrainDone
    BY <1>11 DEF DrainDone, clockVars, poolVars, portfolioVars, statVars
  <1>12. ASSUME NEW i \in Slots, NEW low_gain \in LowGain, TimeExit(i, low_gain)
         PROVE  TypeOK'
    <2>1. booked' \in SUBSET Booking
      BY <1>12 DEF TimeExit, Position, Booking
    <2> QED
      BY <1>12, <2>1 DEF TimeExit, clockVars, poolVars
  <1>13. CASE SlowPathReturn
    BY <1>13 DEF SlowPathReturn, PushSample, poolVars, portfolioVars, exitVars,
                 statVars
  <1>14. CASE UNCHANGED vars
    BY <1>14 DEF vars, clockVars, poolVars, portfolioVars, exitVars, statVars
  <1> QED
    BY <1>1, <1>2, <1>3, <1>4, <1>5, <1>6, <1>7, <1>8, <1>9, <1>10, <1>11,
       <1>12, <1>13, <1>14
    DEF Next, EngineTick, PositionExitGate, Tick, DrainExits

\* Every state of every behaviour is well typed: in particular the exit buffer
\* stays within its capacity, and no slot is used that does not exist.
THEOREM TypeCorrect == Spec => []TypeOK
  <1> QED
    BY InitType, NextType, PTL DEF Spec

-----------------------------------------------------------------------------
(* What a step can do to the lots.  The bitmap, the buffer and the counters *)
(* are changed by five actions; every proof below goes through their effects. *)

lotVars == <<active_bitmap, positions, exit_buf, drained, statVars>>

\* A loop that walks a copy of the bitmap walks open slots only.
WalkIsOpen ==
  pc \in {"burst_gate", "exit_gate", "time_exit"} => walk \subseteq active_bitmap

Recorded(i, why) ==
  /\ i \in active_bitmap /\ Len(exit_buf) < BufCap
  /\ exit_buf' = Append(exit_buf, [position_index |-> i, reason |-> why,
                                   lot |-> positions[i].lot])
  /\ active_bitmap' = active_bitmap \ {i}
  /\ UNCHANGED <<positions, drained, statVars>>

Bought(s, p) ==
  /\ s \in Slots \ active_bitmap /\ p \in Prices \cup {0}
  /\ ~FindByPrice(p) /\ HasRoom /\ next_lot <= NSlots + MaxBuys
  /\ active_bitmap' = active_bitmap \cup {s}
  /\ positions' = [positions EXCEPT ![s] = [entry_price |-> p, lot |-> next_lot]]
  /\ next_lot' = next_lot + 1 /\ total_buys' = total_buys + 1
  /\ UNCHANGED <<exit_buf, drained, wins, losses, booked>>

Cleared ==
  /\ drained = Len(exit_buf)
  /\ exit_buf' = <<>> /\ drained' = 0
  /\ UNCHANGED <<active_bitmap, positions, statVars>>

Expired(i) ==
  /\ i \in active_bitmap
  /\ active_bitmap' = active_bitmap \ {i}
  /\ losses' = losses + 1
  /\ booked' = booked \cup {[lot |-> positions[i].lot, as |-> positions[i].lot]}
  /\ UNCHANGED <<positions, exit_buf, drained, total_buys, wins, next_lot>>

LotStep ==
  \/ UNCHANGED lotVars
  \/ \E i \in Slots, why \in Reasons : Recorded(i, why)
  \/ \E s \in Slots, p \in Prices \cup {0} : Bought(s, p)
  \/ DrainExit
  \/ Cleared
  \/ \E i \in Slots : Expired(i)

\* Every step of the engine has one of these effects on the lots.
LEMMA StepEffects == TypeOK /\ WalkIsOpen /\ [Next]_vars => LotStep
  <1> SUFFICES ASSUME TypeOK, WalkIsOpen, [Next]_vars PROVE LotStep
    OBVIOUS
  <1>1. ASSUME NEW p \in Prices, ReadTick(p) PROVE LotStep
    BY <1>1 DEF ReadTick, LotStep, lotVars, portfolioVars
  <1>2. ASSUME NEW new_cfg \in Configs, HotReload(new_cfg) PROVE LotStep
    BY <1>2 DEF HotReload, LotStep, lotVars, exitVars
  <1>3. ASSUME NEW pass \in BOOLEAN, BuyGate(pass) PROVE LotStep
    BY <1>3 DEF BuyGate, LotStep, lotVars, portfolioVars
  <1>4. ASSUME NEW i \in Slots, NEW hit \in Reasons \cup {"none"},
               ExitGateStep(i, hit)
        PROVE  LotStep
    <2>1. i \in active_bitmap
      BY <1>4 DEF ExitGateStep, IsLowest, WalkIsOpen
    <2>2. CASE hit \in Reasons /\ Len(exit_buf) < BufCap
      <3>1. Recorded(i, hit)
        BY <1>4, <2>1, <2>2 DEF ExitGateStep, Recorded
      <3> QED
        BY <2>2, <3>1 DEF LotStep
    <2>3. CASE ~(hit \in Reasons /\ Len(exit_buf) < BufCap)
      BY <1>4, <2>3 DEF ExitGateStep, LotStep, lotVars
    <2> QED
      BY <2>2, <2>3
  <1>5. CASE ExitGateReturn
    BY <1>5 DEF ExitGateReturn, LotStep, lotVars, portfolioVars, exitVars
  <1>6. ASSUME NEW time_floor \in BOOLEAN, TickWarmup(time_floor) PROVE LotStep
    BY <1>6 DEF TickWarmup, LotStep, lotVars, exitVars
  <1>7. CASE TickActive
    BY <1>7 DEF TickActive, LotStep, lotVars, exitVars
  <1>8. ASSUME NEW i \in PoolSlots, NEW funded \in BOOLEAN,
               NEW spacing \in Spacings, ConsumeFill(i, funded, spacing)
        PROVE  LotStep
    <2> DEFINE p == slot_price[i]
    <2>1. p \in Prices \cup {0}
      BY DEF TypeOK
    <2>2. CASE ~FindByPrice(p) /\ HasRoom /\ ~TooClose(p, spacing) /\ funded
      <3>1. OpenPosition(p) /\ next_lot <= NSlots + MaxBuys
        BY <1>8, <2>2 DEF ConsumeFill
      <3>2. PICK s \in Slots :
              /\ IsLowest(s, Slots \ active_bitmap)
              /\ active_bitmap' = active_bitmap \cup {s}
              /\ positions' = [positions EXCEPT ![s] =
                   [entry_price |-> p, lot |-> next_lot]]
              /\ next_lot' = next_lot + 1 /\ total_buys' = total_buys + 1
        BY <3>1 DEF OpenPosition
      <3>3. Bought(s, p)
        BY <1>8, <2>1, <2>2, <3>1, <3>2 DEF ConsumeFill, Bought, IsLowest, exitVars
      <3> QED
        BY <2>1, <3>3 DEF LotStep
    <2>3. CASE ~(~FindByPrice(p) /\ HasRoom /\ ~TooClose(p, spacing) /\ funded)
      BY <1>8, <2>3 DEF ConsumeFill, LotStep, lotVars, exitVars, statVars
    <2> QED
      BY <2>2, <2>3
  <1>9. ASSUME NEW time_floor \in BOOLEAN, FillsDone(time_floor) PROVE LotStep
    BY <1>9 DEF FillsDone, LotStep, lotVars, portfolioVars, exitVars
  <1>10. CASE DrainExit
    BY <1>10 DEF LotStep
  <1>11. CASE DrainDone
    BY <1>11 DEF DrainDone, LotStep, Cleared, portfolioVars
  <1>12. ASSUME NEW i \in Slots, NEW low_gain \in LowGain, TimeExit(i, low_gain)
         PROVE  LotStep
    <2>1. i \in active_bitmap
      BY <1>12 DEF TimeExit, IsLowest, WalkIsOpen
    <2>2. CASE held[i] >= config.max_hold_ticks /\ low_gain
      <3>1. Expired(i)
        BY <1>12, <2>1, <2>2 DEF TimeExit, Expired
      <3> QED
        BY <3>1 DEF LotStep
    <2>3. CASE ~(held[i] >= config.max_hold_ticks /\ low_gain)
      BY <1>12, <2>3 DEF TimeExit, LotStep, lotVars, statVars
    <2> QED
      BY <2>2, <2>3
  <1>13. CASE SlowPathReturn
    BY <1>13 DEF SlowPathReturn, LotStep, lotVars, portfolioVars, exitVars
  <1>14. CASE UNCHANGED vars
    BY <1>14 DEF vars, LotStep, lotVars, portfolioVars, exitVars
  <1> QED
    BY <1>1, <1>2, <1>3, <1>4, <1>5, <1>6, <1>7, <1>8, <1>9, <1>10, <1>11,
       <1>12, <1>13, <1>14
    DEF Next, EngineTick, PositionExitGate, Tick, DrainExits

\* A loop's copy of the bitmap stays within the bitmap: the loop clears a slot's
\* bit only after it has left the slot behind.
LEMMA WalkStep == TypeOK /\ WalkIsOpen /\ [Next]_vars => WalkIsOpen'
  <1> SUFFICES ASSUME TypeOK, WalkIsOpen, [Next]_vars PROVE WalkIsOpen'
    OBVIOUS
  <1> USE DEF WalkIsOpen
  <1>1. ASSUME NEW p \in Prices, ReadTick(p) PROVE WalkIsOpen'
    BY <1>1 DEF ReadTick, portfolioVars
  <1>2. ASSUME NEW new_cfg \in Configs, HotReload(new_cfg) PROVE WalkIsOpen'
    BY <1>2 DEF HotReload, exitVars
  <1>3. ASSUME NEW pass \in BOOLEAN, BuyGate(pass) PROVE WalkIsOpen'
    BY <1>3 DEF BuyGate, portfolioVars
  <1>4. ASSUME NEW i \in Slots, NEW hit \in Reasons \cup {"none"},
               ExitGateStep(i, hit)
        PROVE  WalkIsOpen'
    BY <1>4 DEF ExitGateStep
  <1>5. CASE ExitGateReturn
    BY <1>5 DEF ExitGateReturn
  <1>6. ASSUME NEW time_floor \in BOOLEAN, TickWarmup(time_floor)
        PROVE  WalkIsOpen'
    BY <1>6 DEF TickWarmup
  <1>7. CASE TickActive
    BY <1>7 DEF TickActive
  <1>8. ASSUME NEW i \in PoolSlots, NEW funded \in BOOLEAN,
               NEW spacing \in Spacings, ConsumeFill(i, funded, spacing)
        PROVE  WalkIsOpen'
    BY <1>8 DEF ConsumeFill
  <1>9. ASSUME NEW time_floor \in BOOLEAN, FillsDone(time_floor)
        PROVE  WalkIsOpen'
    BY <1>9 DEF FillsDone
  <1>10. CASE DrainExit
    BY <1>10 DEF DrainExit
  <1>11. CASE DrainDone
    BY <1>11 DEF DrainDone, portfolioVars
  <1>12. ASSUME NEW i \in Slots, NEW low_gain \in LowGain, TimeExit(i, low_gain)
         PROVE  WalkIsOpen'
    BY <1>12 DEF TimeExit
  <1>13. CASE SlowPathReturn
    BY <1>13 DEF SlowPathReturn
  <1>14. CASE UNCHANGED vars
    BY <1>14 DEF vars, portfolioVars, exitVars
  <1> QED
    BY <1>1, <1>2, <1>3, <1>4, <1>5, <1>6, <1>7, <1>8, <1>9, <1>10, <1>11,
       <1>12, <1>13, <1>14
    DEF Next, EngineTick, PositionExitGate, Tick, DrainExits

LEMMA InitWalk == Init => WalkIsOpen
  BY DEF Init, WalkIsOpen

-----------------------------------------------------------------------------
(* Every purchase is in one place.                                         *)

OpenDistinct ==
  \A i, j \in active_bitmap : positions[i].lot = positions[j].lot => i = j

PendingDistinct ==
  \A k, l \in PendingRecords : exit_buf[k].lot = exit_buf[l].lot => k = l

\* Lots are handed out in order, so a new lot is nowhere yet.
LotsInRange ==
  /\ next_lot \in NSlots + 1 .. NSlots + MaxBuys + 1
  /\ \A l \in OpenLots \cup PendingLots \cup BookedLots : l \in 1 .. next_lot - 1

\* The inductive invariant behind LotsAccounted.
LotInv == TypeOK /\ WalkIsOpen /\ LotsAccounted /\ LotsInRange

\* A booking adds its lot to the booked ones.
LEMMA BookedLotsGrow ==
  ASSUME NEW r, booked' = booked \cup {r}
  PROVE  BookedLots' = BookedLots \cup {r.lot}
  BY DEF BookedLots

\* What each effect does to the three sets of lots.
LEMMA RecordedLots ==
  ASSUME TypeOK, LotsAccounted, NEW i \in Slots, NEW why \in Reasons,
         Recorded(i, why)
  PROVE  /\ positions[i].lot \in OpenLots
         /\ OpenLots' = OpenLots \ {positions[i].lot}
         /\ PendingLots' = PendingLots \cup {positions[i].lot}
         /\ BookedLots' = BookedLots
         /\ OpenDistinct' /\ PendingDistinct'
  <1> DEFINE rec == [position_index |-> i, reason |-> why,
                     lot |-> positions[i].lot]
  <1>1. rec \in ExitRecord
    BY DEF TypeOK, Position, ExitRecord
  <1>2. /\ Len(exit_buf') = Len(exit_buf) + 1
        /\ \A k \in 1 .. Len(exit_buf) : exit_buf'[k] = exit_buf[k]
        /\ exit_buf'[Len(exit_buf) + 1] = rec
    BY <1>1 DEF TypeOK, Recorded
  <1>3. PendingRecords' = PendingRecords \cup {Len(exit_buf) + 1}
    BY <1>2 DEF PendingRecords, Recorded, TypeOK
  <1>4. \A k \in PendingRecords : k \in 1 .. Len(exit_buf)
    BY DEF PendingRecords, TypeOK
  <1>5. positions[i].lot \in OpenLots
    BY DEF Recorded, OpenLots
  <1>6. OpenLots' = OpenLots \ {positions[i].lot}
    BY DEF Recorded, OpenLots, LotsAccounted
  <1>7. PendingLots' = PendingLots \cup {positions[i].lot}
    BY <1>2, <1>3, <1>4 DEF PendingLots
  <1>8. BookedLots' = BookedLots
    BY DEF Recorded, BookedLots, statVars
  <1>9. OpenDistinct'
    BY DEF OpenDistinct, Recorded, LotsAccounted
  <1>10. \A k \in PendingRecords : exit_buf[k].lot # positions[i].lot
    BY <1>5 DEF LotsAccounted, PendingLots
  <1>11. PendingDistinct'
    BY <1>2, <1>3, <1>4, <1>10 DEF PendingDistinct, LotsAccounted
  <1> QED
    BY <1>5, <1>6, <1>7, <1>8, <1>9, <1>11

LEMMA BoughtLots ==
  ASSUME TypeOK, LotsAccounted, LotsInRange,
         NEW s \in Slots, NEW p \in Prices \cup {0}, Bought(s, p)
  PROVE  /\ next_lot \notin OpenLots \cup PendingLots \cup BookedLots
         /\ OpenLots' = OpenLots \cup {next_lot}
         /\ PendingLots' = PendingLots /\ BookedLots' = BookedLots
         /\ OpenDistinct' /\ PendingDistinct'
  <1>1. next_lot \notin OpenLots \cup PendingLots \cup BookedLots
    BY DEF LotsInRange, TypeOK
  <1>2. /\ positions'[s].lot = next_lot
        /\ \A j \in active_bitmap : j # s /\ positions'[j] = positions[j]
    BY DEF Bought, TypeOK
  <1>3. active_bitmap' = active_bitmap \cup {s}
    BY DEF Bought
  <1>4. OpenLots' = OpenLots \cup {next_lot}
    BY <1>2, <1>3 DEF OpenLots
  <1>5. OpenDistinct'
    BY <1>1, <1>2, <1>3 DEF OpenDistinct, OpenLots, LotsAccounted
  <1>6. PendingLots' = PendingLots /\ PendingDistinct'
    BY DEF Bought, PendingLots, PendingRecords, PendingDistinct, LotsAccounted
  <1>7. BookedLots' = BookedLots
    BY DEF Bought, BookedLots
  <1> QED
    BY <1>1, <1>4, <1>5, <1>6, <1>7

LEMMA DrainedLots ==
  ASSUME TypeOK, LotsAccounted, DrainExit
  PROVE  /\ exit_buf[drained + 1].lot \in PendingLots
         /\ OpenLots' = OpenLots
         /\ PendingLots' = PendingLots \ {exit_buf[drained + 1].lot}
         /\ BookedLots' = BookedLots \cup {exit_buf[drained + 1].lot}
         /\ OpenDistinct' /\ PendingDistinct'
  <1>1. /\ drained + 1 \in PendingRecords
        /\ PendingRecords' = PendingRecords \ {drained + 1}
    BY DEF DrainExit, PendingRecords, TypeOK
  <1>2. exit_buf' = exit_buf
    BY DEF DrainExit
  <1>3. exit_buf[drained + 1].lot \in PendingLots
    BY <1>1 DEF PendingLots
  <1>4. PendingLots' = PendingLots \ {exit_buf[drained + 1].lot}
    BY <1>1, <1>2 DEF PendingLots, LotsAccounted
  <1>5. PendingDistinct'
    BY <1>1, <1>2 DEF PendingDistinct, LotsAccounted
  <1>6. BookedLots' = BookedLots \cup {exit_buf[drained + 1].lot}
    <2> DEFINE rec == exit_buf[drained + 1]
               r == [lot |-> rec.lot, as |-> positions[rec.position_index].lot]
    <2>1. booked' = booked \cup {r} /\ r.lot = rec.lot
      BY DEF DrainExit
    <2> HIDE DEF r
    <2> QED
      BY <2>1, BookedLotsGrow
  <1>7. OpenLots' = OpenLots /\ OpenDistinct'
    BY DEF DrainExit, OpenLots, OpenDistinct, LotsAccounted, portfolioVars
  <1> QED
    BY <1>3, <1>4, <1>5, <1>6, <1>7

LEMMA ClearedLots ==
  ASSUME TypeOK, LotsAccounted, Cleared
  PROVE  /\ OpenLots' = OpenLots /\ PendingLots' = PendingLots
         /\ BookedLots' = BookedLots
         /\ OpenDistinct' /\ PendingDistinct'
  <1>1. PendingRecords = {} /\ PendingRecords' = {}
    BY DEF Cleared, PendingRecords, TypeOK
  <1> QED
    BY <1>1 DEF Cleared, OpenLots, PendingLots, BookedLots, OpenDistinct,
                PendingDistinct, LotsAccounted, statVars

LEMMA ExpiredLots ==
  ASSUME TypeOK, LotsAccounted, NEW i \in Slots, Expired(i)
  PROVE  /\ positions[i].lot \in OpenLots
         /\ OpenLots' = OpenLots \ {positions[i].lot}
         /\ PendingLots' = PendingLots
         /\ BookedLots' = BookedLots \cup {positions[i].lot}
         /\ OpenDistinct' /\ PendingDistinct'
  <1>1. positions[i].lot \in OpenLots
    BY DEF Expired, OpenLots
  <1>2. OpenLots' = OpenLots \ {positions[i].lot} /\ OpenDistinct'
    BY DEF Expired, OpenLots, OpenDistinct, LotsAccounted
  <1>3. PendingLots' = PendingLots /\ PendingDistinct'
    BY DEF Expired, PendingLots, PendingRecords, PendingDistinct, LotsAccounted
  <1>4. BookedLots' = BookedLots \cup {positions[i].lot}
    <2> DEFINE r == [lot |-> positions[i].lot, as |-> positions[i].lot]
    <2>1. booked' = booked \cup {r} /\ r.lot = positions[i].lot
      BY DEF Expired
    <2> HIDE DEF r
    <2> QED
      BY <2>1, BookedLotsGrow
  <1> QED
    BY <1>1, <1>2, <1>3, <1>4

\* The three sets stay apart and in range when a lot moves from one to another.
LEMMA LotsStep == LotInv /\ [Next]_vars => LotsAccounted' /\ LotsInRange'
  <1> SUFFICES ASSUME LotInv, [Next]_vars PROVE LotsAccounted' /\ LotsInRange'
    OBVIOUS
  <1> USE DEF LotInv
  <1> DEFINE Placed == \A l \in NSlots + 1 .. next_lot - 1 :
                          l \in OpenLots \cup PendingLots \cup BookedLots
             Apart  == /\ OpenLots \cap PendingLots = {}
                       /\ OpenLots \cap BookedLots = {}
                       /\ PendingLots \cap BookedLots = {}
  <1>0. Placed /\ Apart
    BY DEF LotsAccounted
  <1>1. SUFFICES OpenDistinct' /\ PendingDistinct' /\ Apart' /\ Placed' /\ LotsInRange'
    BY DEF LotsAccounted, OpenDistinct, PendingDistinct
  <1>2. CASE UNCHANGED lotVars
    <2>1. /\ active_bitmap' = active_bitmap /\ positions' = positions
          /\ exit_buf' = exit_buf /\ drained' = drained
          /\ next_lot' = next_lot /\ booked' = booked
      BY <1>2 DEF lotVars, statVars
    <2>2. OpenLots' = OpenLots /\ PendingLots' = PendingLots /\ BookedLots' = BookedLots
      BY <2>1 DEF OpenLots, PendingLots, BookedLots, PendingRecords
    <2>3. OpenDistinct' /\ PendingDistinct'
      BY <2>1 DEF OpenDistinct, PendingDistinct, PendingRecords, LotsAccounted
    <2> QED
      BY <1>0, <2>1, <2>2, <2>3 DEF LotsInRange
  <1>3. ASSUME NEW i \in Slots, NEW why \in Reasons, Recorded(i, why)
        PROVE  OpenDistinct' /\ PendingDistinct' /\ Apart' /\ Placed' /\ LotsInRange'
    <2>1. next_lot' = next_lot
      BY <1>3 DEF Recorded, statVars
    <2>2. positions[i].lot \notin BookedLots
      BY <1>0, <1>3, RecordedLots
    <2> QED
      BY <1>0, <1>3, <2>1, <2>2, RecordedLots DEF LotsInRange
  <1>4. ASSUME NEW s \in Slots, NEW p \in Prices \cup {0}, Bought(s, p)
        PROVE  OpenDistinct' /\ PendingDistinct' /\ Apart' /\ Placed' /\ LotsInRange'
    <2>1. /\ next_lot' = next_lot + 1 /\ next_lot \in Nat
          /\ NSlots \in Nat /\ MaxBuys \in Nat
          /\ next_lot <= NSlots + MaxBuys
      BY <1>4, SizesAssumption, ConfigAssumption DEF Bought, TypeOK
    <2>2. Apart'
      BY <1>0, <1>4, BoughtLots
    <2>3. Placed' /\ LotsInRange'
      BY <1>0, <1>4, <2>1, BoughtLots DEF LotsInRange
    <2> QED
      BY <1>4, <2>2, <2>3, BoughtLots
  <1>5. CASE DrainExit
    <2>1. next_lot' = next_lot
      BY <1>5 DEF DrainExit
    <2> QED
      BY <1>0, <1>5, <2>1, DrainedLots DEF LotsInRange
  <1>6. CASE Cleared
    <2>1. next_lot' = next_lot
      BY <1>6 DEF Cleared, statVars
    <2> QED
      BY <1>0, <1>6, <2>1, ClearedLots DEF LotsInRange
  <1>7. ASSUME NEW i \in Slots, Expired(i)
        PROVE  OpenDistinct' /\ PendingDistinct' /\ Apart' /\ Placed' /\ LotsInRange'
    <2>1. next_lot' = next_lot
      BY <1>7 DEF Expired
    <2> QED
      BY <1>0, <1>7, <2>1, ExpiredLots DEF LotsInRange
  <1>8. LotStep
    BY StepEffects
  <1> QED
    BY <1>2, <1>3, <1>4, <1>5, <1>6, <1>7, <1>8 DEF LotStep

LEMMA InitLots == Init => LotInv
  <1> SUFFICES ASSUME Init PROVE LotInv
    OBVIOUS
  <1>1. TypeOK /\ WalkIsOpen
    BY InitType, InitWalk
  <1>2. PendingLots = {} /\ BookedLots = {} /\ PendingRecords = {}
    BY DEF Init, PendingLots, BookedLots, PendingRecords
  <1>3. \A i \in active_bitmap : i \in 0 .. NSlots - 1 /\ positions[i].lot = i + 1
    BY <1>1 DEF Init, LoadSnapshot, TypeOK, Slots
  <1>4. OpenLots \subseteq 1 .. NSlots /\ next_lot = NSlots + 1 /\ NSlots \in Nat
    BY <1>3, SizesAssumption DEF Init, OpenLots
  <1>5. \A i, j \in active_bitmap : positions[i].lot = positions[j].lot => i = j
    BY <1>3
  <1>6. LotsInRange
    BY <1>2, <1>4, ConfigAssumption DEF LotsInRange
  <1> QED
    BY <1>1, <1>2, <1>4, <1>5, <1>6 DEF LotInv, LotsAccounted

\* The inductive invariant: types, walks within the bitmap, lots in one place
\* each and numbered below the next.
THEOREM LotInvariant == Spec => []LotInv
  <1>1. LotInv /\ [Next]_vars => LotInv'
    BY NextType, WalkStep, LotsStep DEF LotInv
  <1> QED
    BY InitLots, <1>1, PTL DEF Spec

\* No purchase is lost, duplicated or booked twice between the portfolio, the
\* exit buffer and the books, for any number of slots and any behaviour.
THEOREM LotsAlwaysAccounted == Spec => []LotsAccounted
  <1>1. LotInv => LotsAccounted
    BY DEF LotInv
  <1> QED
    BY LotInvariant, <1>1, PTL

-----------------------------------------------------------------------------
(* The engine implements the ledger.                                       *)

\* At most one lot per slot, and one per record.
LEMMA LotsBounded ==
  ASSUME TypeOK
  PROVE  /\ IsFiniteSet(OpenLots) /\ Cardinality(OpenLots) <= CountActive
         /\ Cardinality(OpenLots) \in Nat
         /\ IsFiniteSet(PendingLots) /\ Cardinality(PendingLots) \in Nat
         /\ Cardinality(PendingLots) <= Len(exit_buf) - drained
  <1>1. IsFiniteSet(active_bitmap)
    BY BitmapFinite DEF TypeOK
  <1>2. [i \in active_bitmap |-> positions[i].lot]
           \in Surjection(active_bitmap, OpenLots)
    BY DEF OpenLots, Surjection
  <1>3. IsFiniteSet(OpenLots) /\ Cardinality(OpenLots) <= CountActive
    BY <1>1, <1>2, FS_Surjection DEF CountActive
  <1>4. Len(exit_buf) \in Nat /\ drained \in 0 .. Len(exit_buf)
    BY DEF TypeOK
  <1>5. /\ IsFiniteSet(PendingRecords)
        /\ Cardinality(PendingRecords) = Len(exit_buf) - drained
    <2>1. drained + 1 \in Int /\ Len(exit_buf) \in Int
      BY <1>4
    <2>2. /\ IsFiniteSet(drained + 1 .. Len(exit_buf))
          /\ Cardinality(drained + 1 .. Len(exit_buf)) =
               IF drained + 1 > Len(exit_buf) THEN 0
               ELSE Len(exit_buf) - (drained + 1) + 1
      BY <2>1, FS_Interval
    <2> QED
      BY <1>4, <2>2 DEF PendingRecords
  <1>6. [k \in PendingRecords |-> exit_buf[k].lot]
           \in Surjection(PendingRecords, PendingLots)
    BY DEF PendingLots, Surjection
  <1>7. /\ IsFiniteSet(PendingLots)
        /\ Cardinality(PendingLots) <= Len(exit_buf) - drained
    BY <1>5, <1>6, FS_Surjection
  <1> QED
    BY <1>3, <1>7, FS_CardinalityType

\* The instance counts as this module does.
LEMMA SameCardinality == \A S : Ledger!Cardinality(S) = Cardinality(S)
  BY DEF Cardinality, Ledger!Cardinality

\* Every initial state is one of the ledger's.
LEMMA LedgerInit == Init => Ledger!Init
  <1> SUFFICES ASSUME Init PROVE Ledger!Init
    OBVIOUS
  <1>1. PendingLots = {} /\ BookedLots = {}
    BY DEF Init, PendingLots, PendingRecords, BookedLots
  <1>2. LotsInRange /\ next_lot = NSlots + 1 /\ NSlots \in Nat
    BY InitLots, SizesAssumption DEF LotInv, Init
  <1>3. OpenLots \subseteq 1 .. NSlots
    BY <1>2 DEF LotsInRange
  <1> QED
    BY <1>1, <1>3 DEF Ledger!Init

\* Every step is a step of the ledger or leaves it alone: a purchase buys, the
\* exit gate exits, the drain books, the time exit expires.
LEMMA LedgerStep == LotInv /\ [Next]_vars => [Ledger!Next]_(Ledger!vars)
  <1> SUFFICES ASSUME LotInv, [Next]_vars
               PROVE  Ledger!Next \/ UNCHANGED Ledger!vars
    OBVIOUS
  <1> DEFINE Lots == 1 .. NSlots + MaxBuys
  <1>1. TypeOK /\ LotsAccounted /\ LotsInRange
    BY DEF LotInv
  <1>2. NSlots \in Nat /\ MaxBuys \in Nat /\ BufCap \in Nat
    BY SizesAssumption, ConfigAssumption
  <1>3. OpenLots \subseteq Lots /\ PendingLots \subseteq Lots
    BY <1>1, <1>2 DEF LotsInRange
  <1>4. CASE UNCHANGED lotVars
    <2>1. OpenLots' = OpenLots /\ PendingLots' = PendingLots /\ BookedLots' = BookedLots
      BY <1>4 DEF lotVars, statVars, OpenLots, PendingLots, PendingRecords, BookedLots
    <2> QED
      BY <2>1 DEF Ledger!vars
  <1>5. ASSUME NEW i \in Slots, NEW why \in Reasons, Recorded(i, why)
        PROVE  Ledger!Next
    <2>1. Len(exit_buf) < BufCap /\ drained \in Nat /\ Len(exit_buf) \in Nat
      BY <1>1, <1>5 DEF Recorded, TypeOK
    <2>2. Cardinality(PendingLots) < BufCap
      BY <1>1, <1>2, <2>1, LotsBounded
    <2>3. Ledger!Exit(positions[i].lot)
      <3>1. /\ positions[i].lot \in OpenLots
            /\ OpenLots' = OpenLots \ {positions[i].lot}
            /\ PendingLots' = PendingLots \cup {positions[i].lot}
            /\ BookedLots' = BookedLots
        BY <1>1, <1>5, RecordedLots
      <3> QED
        BY <2>2, <3>1, SameCardinality DEF Ledger!Exit
    <2>4. positions[i].lot \in Lots
      BY <1>1, <1>3, <1>5, RecordedLots
    <2> QED
      BY <2>3, <2>4 DEF Ledger!Next
  <1>6. ASSUME NEW s \in Slots, NEW p \in Prices \cup {0}, Bought(s, p)
        PROVE  Ledger!Next
    <2>1. CountActive < config.max_positions
      BY <1>6 DEF Bought, HasRoom
    <2>2. config.max_positions \in 1 .. NSlots
      BY <1>1, ConfigAssumption DEF TypeOK, Config
    <2>3. CountActive \in Nat
      BY <1>1, BitmapFinite DEF TypeOK, CountActive
    <2>4. Cardinality(OpenLots) < NSlots
      BY <1>1, <1>2, <2>1, <2>2, <2>3, LotsBounded
    <2>5. next_lot \in Lots
      BY <1>1, <1>2, <1>6 DEF Bought, LotsInRange, TypeOK
    <2>6. Ledger!Buy(next_lot)
      <3>1. /\ next_lot \notin OpenLots \cup PendingLots \cup BookedLots
            /\ OpenLots' = OpenLots \cup {next_lot}
            /\ PendingLots' = PendingLots /\ BookedLots' = BookedLots
        BY <1>1, <1>6, BoughtLots
      <3> QED
        BY <2>4, <3>1, SameCardinality DEF Ledger!Buy
    <2> QED
      BY <2>5, <2>6 DEF Ledger!Next
  <1>7. ASSUME DrainExit PROVE Ledger!Next
    <2> DEFINE l == exit_buf[drained + 1].lot
    <2>1. /\ l \in PendingLots /\ OpenLots' = OpenLots
          /\ PendingLots' = PendingLots \ {l}
          /\ BookedLots' = BookedLots \cup {l}
      BY <1>1, <1>7, DrainedLots
    <2> HIDE DEF l
    <2>2. Ledger!Book(l)
      BY <2>1 DEF Ledger!Book
    <2> QED
      BY <1>3, <2>1, <2>2 DEF Ledger!Next
  <1>8. CASE Cleared
    BY <1>1, <1>8, ClearedLots DEF Ledger!vars
  <1>9. ASSUME NEW i \in Slots, Expired(i)
        PROVE  Ledger!Next
    <2>1. /\ positions[i].lot \in OpenLots
          /\ OpenLots' = OpenLots \ {positions[i].lot}
          /\ PendingLots' = PendingLots
          /\ BookedLots' = BookedLots \cup {positions[i].lot}
      BY <1>1, <1>9, ExpiredLots
    <2>2. Ledger!Expire(positions[i].lot)
      BY <2>1 DEF Ledger!Expire
    <2> QED
      BY <1>3, <2>1, <2>2 DEF Ledger!Next
  <1>10. LotStep
    BY <1>1, StepEffects DEF LotInv
  <1> QED
    BY <1>4, <1>5, <1>6, <1>7, <1>8, <1>9, <1>10 DEF LotStep

\* The engine refines LotLedger: whatever the interleaving of gates, fills,
\* drains and time exits, a lot lives as the ledger says.
THEOREM EngineRefinesLedger == Spec => RefinesLedger
  <1>1. Init => Ledger!Init
    BY LedgerInit
  <1>2. LotInv /\ [Next]_vars => [Ledger!Next]_(Ledger!vars)
    BY LedgerStep
  <1> QED
    BY <1>1, <1>2, LotInvariant, PTL DEF Spec, RefinesLedger, Ledger!Spec

-----------------------------------------------------------------------------
(* The counters, the entries and the cap.                                  *)

\* The counters move with the bitmap and the buffer, one step at a time.
LEMMA CountersStep ==
  TypeOK /\ WalkIsOpen /\ [Next]_vars => Unaccounted' = Unaccounted
  <1> SUFFICES ASSUME TypeOK, WalkIsOpen, [Next]_vars
               PROVE  Unaccounted' = Unaccounted
    OBVIOUS
  <1> USE DEF Unaccounted, CountActive
  <1>1. /\ IsFiniteSet(active_bitmap) /\ Cardinality(active_bitmap) \in Nat
        /\ Len(exit_buf) \in Nat /\ drained \in Nat
        /\ total_buys \in Nat /\ wins \in Nat /\ losses \in Nat
    BY BitmapFinite DEF TypeOK
  <1>2. CASE UNCHANGED lotVars
    BY <1>2 DEF lotVars, statVars
  <1>3. ASSUME NEW i \in Slots, NEW why \in Reasons, Recorded(i, why)
        PROVE  Unaccounted' = Unaccounted
    <2>1. Cardinality(active_bitmap') = Cardinality(active_bitmap) - 1
      BY <1>1, <1>3, FS_RemoveElement DEF Recorded
    <2>2. Len(exit_buf') = Len(exit_buf) + 1
      BY <1>3 DEF Recorded, TypeOK, Position, ExitRecord
    <2> QED
      BY <1>1, <1>3, <2>1, <2>2 DEF Recorded, statVars
  <1>4. ASSUME NEW s \in Slots, NEW p \in Prices \cup {0}, Bought(s, p)
        PROVE  Unaccounted' = Unaccounted
    <2>1. Cardinality(active_bitmap') = Cardinality(active_bitmap) + 1
      BY <1>1, <1>4, FS_AddElement DEF Bought
    <2> QED
      BY <1>1, <1>4, <2>1 DEF Bought
  <1>5. CASE DrainExit
    <2>1. exit_buf[drained + 1].reason \in {"TP", "SL"}
      <3>1. drained + 1 \in 1 .. Len(exit_buf)
        BY <1>1, <1>5 DEF DrainExit
      <3>2. exit_buf[drained + 1] \in ExitRecord
        BY <3>1 DEF TypeOK
      <3> QED
        BY <3>2 DEF ExitRecord, Reasons
    <2>2. active_bitmap' = active_bitmap
      BY <1>5 DEF DrainExit, portfolioVars
    <2>3. \/ wins' = wins + 1 /\ losses' = losses
          \/ wins' = wins /\ losses' = losses + 1
      BY <1>1, <1>5, <2>1 DEF DrainExit
    <2>4. UNCHANGED <<exit_buf, total_buys>> /\ drained' = drained + 1
      BY <1>5 DEF DrainExit
    <2>5. /\ Cardinality(active_bitmap') = Cardinality(active_bitmap)
          /\ Len(exit_buf') = Len(exit_buf)
      BY <2>2, <2>4
    <2> HIDE DEF CountActive
    <2> QED
      BY <1>1, <2>3, <2>4, <2>5 DEF CountActive
  <1>6. CASE Cleared
    BY <1>1, <1>6 DEF Cleared, statVars
  <1>7. ASSUME NEW i \in Slots, Expired(i) PROVE Unaccounted' = Unaccounted
    <2>1. Cardinality(active_bitmap') = Cardinality(active_bitmap) - 1
      BY <1>1, <1>7, FS_RemoveElement DEF Expired
    <2> QED
      BY <1>1, <1>7, <2>1 DEF Expired
  <1>8. LotStep
    BY StepEffects
  <1> QED
    BY <1>2, <1>3, <1>4, <1>5, <1>6, <1>7, <1>8 DEF LotStep

\* What the restored counters left out of the books never changes: from any
\* snapshot, purchases, open positions, waiting exits, wins and losses move alike.
THEOREM CountersAlwaysBalance == Spec => CountersBalance
  <1>1. LotInv => TypeOK /\ WalkIsOpen
    BY DEF LotInv
  <1>2. TypeOK /\ WalkIsOpen /\ [Next]_vars => [Unaccounted' = Unaccounted]_vars
    BY CountersStep
  <1> QED
    BY <1>1, <1>2, LotInvariant, PTL DEF Spec, CountersBalance

\* A purchase fills a free slot at a price no open position has.
LEMMA EntriesStep ==
  TypeOK /\ WalkIsOpen /\ DistinctEntries /\ [Next]_vars => DistinctEntries'
  <1> SUFFICES ASSUME TypeOK, WalkIsOpen, DistinctEntries, [Next]_vars
               PROVE  DistinctEntries'
    OBVIOUS
  <1> USE DEF DistinctEntries
  <1>1. CASE UNCHANGED lotVars
    BY <1>1 DEF lotVars
  <1>2. ASSUME NEW i \in Slots, NEW why \in Reasons, Recorded(i, why)
        PROVE  DistinctEntries'
    BY <1>2 DEF Recorded
  <1>3. ASSUME NEW s \in Slots, NEW p \in Prices \cup {0}, Bought(s, p)
        PROVE  DistinctEntries'
    <2>1. /\ positions'[s].entry_price = p
          /\ \A j \in active_bitmap : j # s /\ positions'[j] = positions[j]
      BY <1>3 DEF Bought, TypeOK
    <2>2. \A j \in active_bitmap : positions[j].entry_price # p
      BY <1>3 DEF Bought, FindByPrice
    <2>3. active_bitmap' = active_bitmap \cup {s}
      BY <1>3 DEF Bought
    <2> QED
      BY <2>1, <2>2, <2>3
  <1>4. CASE DrainExit
    BY <1>4 DEF DrainExit, portfolioVars
  <1>5. CASE Cleared
    BY <1>5 DEF Cleared
  <1>6. ASSUME NEW i \in Slots, Expired(i) PROVE DistinctEntries'
    BY <1>6 DEF Expired
  <1>7. LotStep
    BY StepEffects
  <1> QED
    BY <1>1, <1>2, <1>3, <1>4, <1>5, <1>6, <1>7 DEF LotStep

\* No two open positions ever have the same entry price.
THEOREM EntriesAlwaysDistinct == Spec => []DistinctEntries
  <1>1. Init => DistinctEntries
    <2> SUFFICES ASSUME Init PROVE DistinctEntries
      OBVIOUS
    <2>1. PICK entry \in [Slots -> Prices] :
            /\ \A i, j \in active_bitmap : entry[i] = entry[j] => i = j
            /\ positions = [i \in Slots |->
                             IF i \in active_bitmap
                             THEN [entry_price |-> entry[i], lot |-> i + 1]
                             ELSE EmptyPosition]
      BY DEF Init, LoadSnapshot
    <2>2. \A i \in active_bitmap : positions[i].entry_price = entry[i]
      BY <2>1, InitType DEF TypeOK
    <2> QED
      BY <2>1, <2>2 DEF DistinctEntries
  <1>2. LotInv => TypeOK /\ WalkIsOpen
    BY DEF LotInv
  <1> QED
    BY <1>1, <1>2, EntriesStep, LotInvariant, PTL DEF Spec

\* Only a purchase adds a position, and it leaves at most max_positions.
THEOREM FillsAlwaysRespectCap == Spec => FillsRespectCap
  <1> DEFINE Respected == CountActive' > CountActive =>
                            CountActive' <= config.max_positions
  <1>1. TypeOK /\ WalkIsOpen /\ [Next]_vars => Respected
    <2> SUFFICES ASSUME TypeOK, WalkIsOpen, [Next]_vars PROVE Respected
      OBVIOUS
    <2> USE DEF CountActive
    <2>1. IsFiniteSet(active_bitmap) /\ Cardinality(active_bitmap) \in Nat
      BY BitmapFinite DEF TypeOK
    <2>2. config.max_positions \in Nat
      BY ConfigAssumption DEF TypeOK, Config
    <2>3. CASE active_bitmap' = active_bitmap
      BY <2>1, <2>3
    <2>4. ASSUME NEW i \in active_bitmap, active_bitmap' = active_bitmap \ {i}
          PROVE  Respected
      <3>1. Cardinality(active_bitmap') = Cardinality(active_bitmap) - 1
        BY <2>1, <2>4, FS_RemoveElement
      <3> QED
        BY <2>1, <3>1
    <2>5. ASSUME NEW s \in Slots, NEW p \in Prices \cup {0}, Bought(s, p)
          PROVE  Respected
      <3>1. Cardinality(active_bitmap') = Cardinality(active_bitmap) + 1
        BY <2>1, <2>5, FS_AddElement DEF Bought
      <3>2. Cardinality(active_bitmap) < config.max_positions
        BY <2>5 DEF Bought, HasRoom
      <3> QED
        BY <2>1, <2>2, <3>1, <3>2
    <2>6. LotStep
      BY StepEffects
    <2> QED
      BY <2>3, <2>4, <2>5, <2>6
      DEF LotStep, lotVars, Recorded, Expired, Cleared, DrainExit, portfolioVars
  <1>2. LotInv => TypeOK /\ WalkIsOpen
    BY DEF LotInv
  <1> QED
    BY <1>1, <1>2, LotInvariant, PTL DEF Spec, FillsRespectCap

\* A fill BuyGate places is new to the controller, whatever it left in the pool.
THEOREM NewFillAlwaysVisible == Spec => []NewFillVisible
  <1>1. Init => NewFillVisible
    BY DEF Init, NewFillVisible
  <1>2. NewFillVisible /\ [Next]_vars => NewFillVisible'
    <2> SUFFICES ASSUME NewFillVisible, [Next]_vars PROVE NewFillVisible'
      OBVIOUS
    <2>1. \/ pool \subseteq pool' /\ prev_bitmap' = prev_bitmap
          \/ prev_bitmap' = pool'
      BY DEF Next, EngineTick, PositionExitGate, Tick, DrainExits, ReadTick,
             HotReload, BuyGate, PlaceFill, ExitGateStep, ExitGateReturn,
             TickWarmup, TickActive, ConsumeFill, FillsDone, DrainExit,
             DrainDone, TimeExit, SlowPathReturn, vars, poolVars
    <2> QED
      BY <2>1 DEF NewFillVisible
  <1> QED
    BY <1>1, <1>2, PTL DEF Spec
=============================================================================
