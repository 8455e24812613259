-------------------------- MODULE LiveOrdersProofs ---------------------------
(***************************************************************************)
(* Proofs about live trading, for any number of slots and retries.         *)
(***************************************************************************)
EXTENDS LiveOrders, FiniteSetTheorems, TLAPS

\* Where the thread is, or will be when the request on its way is done with.
Where == IF pc = "order" THEN order.then ELSE pc

Between == {"startup", "loop", "close", "stopped"}

\* A request for everything the account holds.
SweepOrder == order.side = "SELL" /\ order.bits = live
              /\ order.then \in {"loop", "close", "slow"}

\* The three kinds of request the code sends.
OrderOK ==
  pc = "order" =>
    \/ SweepOrder
    \/ /\ order.side = "SELL" /\ order.qty = 1 /\ order.then \in {"sells", "orphans"}
       /\ \E s \in live : order.bits = {s}
    \/ /\ order.side = "BUY" /\ order.qty = 1 /\ order.then = "buys"
       /\ \E s \in active : order.bits = {s}

\* Nothing is live before the start has looked at the account, nothing filled
\* between two ticks, and a loop over fills visits positions.
Phases ==
  /\ Where = "close" => pc = "order" \/ live = {}
  /\ Where \in Between => fills = {}
  /\ Where = "buys" => walk \subseteq active
  /\ pc = "startup" \/ (pc = "order" /\ Where = "loop") => live = {}

Shape == TypeOK /\ OrderOK /\ Phases

-----------------------------------------------------------------------------
LEMMA ShapeInit == Init => Shape
<1> SUFFICES ASSUME Init PROVE Shape
  OBVIOUS
<1>0. /\ NoOrder \in [side : {"BUY", "SELL", "NONE"}, bits : SUBSET Slots, qty : Nat,
                     left : 0 .. Retries,
                     then : {"loop", "close", "buys", "sells", "slow", "orphans"}]
      /\ NoOrder.side = "NONE"
  BY LiveAssumption DEF NoOrder
<1>1. TypeOK
  <2>1. btc \in Nat
    BY LiveAssumption DEF Init
  <2>2. slow \in BOOLEAN
    BY DEF Init
  <2>3. order = NoOrder /\ pc # "order"
    BY DEF Init
  <2>4. (pc = "order") <=> (order.side # "NONE")
    BY <1>0, <2>3
  <2> QED
    BY <1>0, <2>1, <2>2, <2>3, <2>4 DEF Init, TypeOK
<1>2. pc = "startup" /\ fills = {} /\ live = {}
  BY DEF Init
<1> QED
  BY <1>1, <1>2 DEF Shape, OrderOK, Phases, Where, Between

\* What sending a request means for its shape.
LEMMA SendTypes ==
  ASSUME NEW side \in {"BUY", "SELL"}, NEW bits \in SUBSET Slots, NEW qty \in Nat,
         NEW then \in {"loop", "close", "buys", "sells", "slow", "orphans"},
         Send(side, bits, qty, then)
  PROVE  /\ order' \in [side : {"BUY", "SELL", "NONE"}, bits : SUBSET Slots,
                        qty : Nat, left : 0 .. Retries,
                        then : {"loop", "close", "buys", "sells", "slow", "orphans"}]
         /\ order'.side = side /\ order'.bits = bits /\ order'.qty = qty
         /\ order'.then = then /\ pc' = "order" /\ order'.side # "NONE"
BY LiveAssumption DEF Send

LEMMA StartShape == Shape /\ Startup => Shape'
<1> SUFFICES ASSUME Shape, Startup PROVE Shape'
  OBVIOUS
<1> USE DEF paper, tick, real, past
<1>1. CASE StartFails \/ StartMatched \/ StartCleared
  <2>1. TypeOK'
    BY <1>1 DEF Shape, TypeOK, StartFails, StartMatched, StartCleared, Drifts
  <2> QED
    BY <1>1, <2>1 DEF Shape, TypeOK, OrderOK, Phases, Where, Between, StartFails,
       StartMatched, StartCleared
<1>2. CASE StartSwept
  <2>1. live = {} /\ fills = {} /\ btc \in Nat /\ live' = live /\ fills' = fills
    BY <1>2 DEF Shape, Phases, Where, Between, StartSwept, TypeOK
  <2>2. CASE Send("SELL", {}, btc, "loop")
    <3>1. TypeOK'
      BY <1>2, <2>1, <2>2, SendTypes DEF Shape, TypeOK, StartSwept, Drifts, Send
    <3>2. SweepOrder' /\ pc' = "order" /\ Where' = "loop"
      BY <2>1, <2>2 DEF Send, SweepOrder, Where
    <3> QED
      BY <2>1, <3>1, <3>2 DEF Shape, OrderOK, Phases, Between
  <2>3. CASE pc' = "loop" /\ drift' = {"surplus"} /\ UNCHANGED order
    <3>1. TypeOK'
      BY <1>2, <2>3 DEF Shape, TypeOK, StartSwept, Drifts
    <3> QED
      BY <2>1, <2>3, <3>1 DEF Shape, OrderOK, Phases, Where, Between
  <2> QED
    BY <1>2, <2>2, <2>3 DEF StartSwept
<1> QED
  BY <1>1, <1>2 DEF Startup

\* The shape of a request survives its retries; its end touches live bits only.
LEMMA RequestShape == Shape /\ Request => Shape'
<1> SUFFICES ASSUME Shape, Request PROVE Shape'
  OBVIOUS
<1> USE DEF paper, tick, real, past
<1>1. pc = "order" /\ order.qty \in Nat /\ order.bits \in SUBSET Slots
      /\ order.then \in {"loop", "close", "buys", "sells", "slow", "orphans"}
      /\ order.side \in {"BUY", "SELL"} /\ order.left \in 0 .. Retries
      /\ btc \in Nat /\ Where = order.then
  BY DEF Shape, TypeOK, Request, Filled, Refused, Unanswered, GiveUp, Where
<1>2. ASSUME Execute PROVE btc' \in Nat
  BY <1>1, <1>2 DEF Execute
<1>3. CASE Unanswered
  <2>1. btc' \in Nat
    BY <1>1, <1>2, <1>3 DEF Unanswered
  <2>2. /\ order' \in [side : {"BUY", "SELL", "NONE"}, bits : SUBSET Slots,
                       qty : Nat, left : 0 .. Retries,
                       then : {"loop", "close", "buys", "sells", "slow", "orphans"}]
        /\ order'.side = order.side /\ order'.bits = order.bits
        /\ order'.qty = order.qty /\ order'.then = order.then
    BY <1>1, <1>3, LiveAssumption DEF Unanswered, Shape, TypeOK
  <2>3. drift' \in SUBSET Drifts
    BY <1>3 DEF Unanswered, Unknown, Shape, TypeOK, Drifts
  <2>4. UNCHANGED <<pc, state, max_positions, active, pending, ahead, saved, fills,
                    young, slow, walk, live, missed, reused>>
    BY <1>3 DEF Unanswered
  <2>5. TypeOK'
    BY <1>1, <2>1, <2>2, <2>3, <2>4 DEF Shape, TypeOK, Slots
  <2>6. OrderOK'
    BY <2>2, <2>4 DEF Shape, OrderOK, SweepOrder
  <2>7. Phases'
    BY <2>2, <2>4 DEF Shape, Phases, Where
  <2> QED
    BY <2>5, <2>6, <2>7 DEF Shape
<1>4. ASSUME NEW filled \in BOOLEAN, Answered(filled), btc' \in Nat,
             drift' \in SUBSET Drifts, UNCHANGED <<paper, tick, missed, reused>>
      PROVE  Shape'
  <2>1. pc' = order.then /\ pc' # "order" /\ order' = NoOrder
        /\ live' \in SUBSET Slots
    BY <1>1, <1>4 DEF Answered, Shape, TypeOK
  <2>2. TypeOK'
    BY <1>1, <1>4, <2>1, LiveAssumption DEF Shape, TypeOK, NoOrder, Slots
  <2>3. pc' \in {"loop", "close"} => live' = {}
    BY <1>1, <1>4, <2>1 DEF Answered, Shape, OrderOK, SweepOrder
  <2> QED
    BY <1>1, <1>4, <2>1, <2>2, <2>3 DEF Shape, OrderOK, Phases, Where, Between
<1>5. Parted(TRUE) \subseteq Drifts /\ Parted(FALSE) \subseteq Drifts
      /\ Unknown \subseteq Drifts /\ drift \subseteq Drifts
  BY DEF Parted, Unknown, Drifts, Shape, TypeOK
<1>6. CASE Filled
  BY <1>2, <1>4, <1>5, <1>6 DEF Filled
<1>7. CASE Refused
  BY <1>1, <1>4, <1>5, <1>7 DEF Refused
<1>8. CASE GiveUp
  BY <1>1, <1>2, <1>4, <1>5, <1>8 DEF GiveUp
<1> QED
  BY <1>3, <1>6, <1>7, <1>8 DEF Request

LEMMA TickShape == Shape /\ EngineTick => Shape'
<1> SUFFICES ASSUME Shape, EngineTick PROVE Shape'
  OBVIOUS
<1> USE DEF paper, tick, real, past
<1>1. CASE SaveExits
  <2>1. fills = {} /\ pc = "loop" /\ pc' = "tick"
    BY <1>1 DEF Shape, Phases, Where, Between, SaveExits
  <2>2. TypeOK'
    BY <1>1, <2>1 DEF SaveExits, Shape, TypeOK
  <2> QED
    BY <2>1, <2>2 DEF Shape, OrderOK, Phases, Where, Between
<1>2. CASE WarmupTick
  <2>1. TypeOK'
    BY <1>2 DEF WarmupTick, Shape, TypeOK
  <2> QED
    BY <1>2, <2>1 DEF WarmupTick, Shape, OrderOK, Phases, Where, Between
<1>3. ASSUME NEW s \in Slots, Fill(s) PROVE Shape'
  <2>1. TypeOK'
    BY <1>3 DEF Fill, Shape, TypeOK
  <2> QED
    BY <1>3, <2>1 DEF Fill, Shape, OrderOK, Phases, Where, Between
<1>4. CASE FastTick \/ SlowTick
  <2>1. active' \in SUBSET Slots /\ pending' \in SUBSET Slots /\ slow' \in BOOLEAN
    BY <1>4 DEF FastTick, SlowTick, Shape, TypeOK
  <2>2. pc' \in {"sells", "buys"} /\ walk' \subseteq active'
    BY <1>4 DEF FastTick, SlowTick, AfterTick
  <2>3. UNCHANGED <<state, max_positions, ahead, saved, fills, young, live, btc,
                    order, drift, missed, reused>> /\ pc = "tick"
    BY <1>4 DEF FastTick, SlowTick
  <2>4. TypeOK'
    BY <2>1, <2>2, <2>3 DEF Shape, TypeOK
  <2> QED
    BY <2>2, <2>3, <2>4 DEF Shape, OrderOK, Phases, Where, Between
<1> QED
  BY <1>1, <1>2, <1>3, <1>4 DEF EngineTick

LEMMA OrdersShape == Shape /\ Orders => Shape'
<1> SUFFICES ASSUME Shape, Orders PROVE Shape'
  OBVIOUS
<1> USE DEF paper, tick, real, past
<1>0. btc \in Nat /\ live \in SUBSET Slots
  BY DEF Shape, TypeOK
<1>1. CASE Undo \/ NothingToSell
  <2>1. TypeOK'
    BY <1>1 DEF Undo, NothingToSell, Shape, TypeOK
  <2> QED
    BY <1>1, <2>1 DEF Undo, NothingToSell, Shape, OrderOK, Phases, Where, Between
<1>2. CASE SellAll
  <2>1. CASE Send("SELL", live, btc, "slow") /\ UNCHANGED <<live, drift>>
    <3>1. TypeOK'
      BY <1>0, <1>2, <2>1, SendTypes DEF SellAll, Shape, TypeOK
    <3>2. SweepOrder' /\ pc' = "order" /\ Where' = "slow"
      BY <1>0, <2>1 DEF Send, SweepOrder, Where
    <3> QED
      BY <3>1, <3>2 DEF Shape, OrderOK, Phases, Between
  <2>2. CASE pc' = "slow" /\ live' = {} /\ UNCHANGED order
    <3>1. TypeOK'
      BY <1>2, <2>2 DEF SellAll, Shape, TypeOK, Drifts
    <3> QED
      BY <2>2, <3>1 DEF Shape, OrderOK, Phases, Where, Between
  <2> QED
    BY <1>2, <2>1, <2>2 DEF SellAll
<1>3. ASSUME NEW s \in Slots, Buy(s) PROVE Shape'
  <2>1. pc = "buys" /\ walk' = walk \ {s} /\ walk \subseteq active /\ s \in active
        /\ walk \in SUBSET Slots
    BY <1>3 DEF Buy, Shape, TypeOK, Phases, Where
  <2>2. CASE Send("BUY", {s}, 1, "buys")
    <3>1. TypeOK'
      BY <1>3, <2>1, <2>2, SendTypes DEF Buy, Shape, TypeOK
    <3>2. pc' = "order" /\ Where' = "buys" /\ OrderOK' /\ active' = active
      BY <1>3, <2>1, <2>2 DEF Buy, Send, OrderOK, Where
    <3> QED
      BY <2>1, <3>1, <3>2 DEF Shape, Phases, Between
  <2>3. CASE UNCHANGED <<pc, order>>
    <3>1. TypeOK'
      BY <1>3, <2>1, <2>3 DEF Buy, Shape, TypeOK
    <3> QED
      BY <1>3, <2>1, <2>3, <3>1 DEF Buy, Shape, OrderOK, Phases, Where, Between
  <2> QED
    BY <1>3, <2>2, <2>3 DEF Buy
<1>4. ASSUME NEW s \in Slots, SellOne(s) PROVE Shape'
  <2>1. CASE Send("SELL", {s}, 1, "sells") /\ UNCHANGED <<live, drift>>
    <3>1. TypeOK'
      BY <1>4, <2>1, SendTypes DEF SellOne, Shape, TypeOK
    <3>2. pc' = "order" /\ Where' = "sells" /\ OrderOK'
      BY <1>4, <2>1 DEF SellOne, Send, OrderOK, Where
    <3> QED
      BY <3>1, <3>2 DEF Shape, Phases, Between
  <2>2. CASE live' = live \ {s} /\ drift' = drift \cup {"surplus"}
             /\ UNCHANGED <<pc, order>>
    <3>1. TypeOK'
      BY <1>4, <2>2 DEF SellOne, Shape, TypeOK, Drifts
    <3> QED
      BY <1>4, <2>2, <3>1 DEF SellOne, Shape, OrderOK, Phases, Where, Between
  <2> QED
    BY <1>4, <2>1, <2>2 DEF SellOne
<1> QED
  BY <1>1, <1>2, <1>3, <1>4 DEF Orders

LEMMA ReconcileShape == Shape /\ Reconcile => Shape'
<1> SUFFICES ASSUME Shape, Reconcile PROVE Shape'
  OBVIOUS
<1> USE DEF paper, tick, real, past
<1>1. CASE NoReconciliation \/ QueryFails \/ QueryDone \/ OrphansSold
  <2>1. TypeOK'
    BY <1>1 DEF NoReconciliation, QueryFails, QueryDone, QueryFindsNone,
       QueryFindsSome, OrphansSold, Orphans, Shape, TypeOK
  <2>2. pc' \in {"done", "orphans"} /\ fills' = fills
    BY <1>1 DEF NoReconciliation, QueryFails, QueryDone, QueryFindsNone,
       QueryFindsSome, OrphansSold
  <2> QED
    BY <2>1, <2>2 DEF Shape, OrderOK, Phases, Where, Between
<1>2. CASE Done
  <2>1. TypeOK'
    BY <1>2 DEF Done, Shape, TypeOK
  <2> QED
    BY <1>2, <2>1 DEF Done, Shape, OrderOK, Phases, Where, Between
<1>3. ASSUME NEW s \in Slots, SellOrphan(s) PROVE Shape'
  <2>1. CASE Send("SELL", {s}, 1, "orphans") /\ UNCHANGED <<live, drift>>
    <3>1. TypeOK'
      BY <1>3, <2>1, SendTypes DEF SellOrphan, Shape, TypeOK
    <3>2. pc' = "order" /\ Where' = "orphans" /\ OrderOK'
      BY <1>3, <2>1 DEF SellOrphan, Orphans, Send, OrderOK, Where
    <3> QED
      BY <3>1, <3>2 DEF Shape, Phases, Between
  <2>2. CASE live' = live \ {s} /\ drift' = drift \cup {"surplus"}
             /\ UNCHANGED <<pc, order>>
    <3>1. TypeOK'
      BY <1>3, <2>2 DEF SellOrphan, Shape, TypeOK, Drifts
    <3> QED
      BY <1>3, <2>2, <3>1 DEF SellOrphan, Shape, OrderOK, Phases, Where, Between
  <2> QED
    BY <1>3, <2>1, <2>2 DEF SellOrphan
<1> QED
  BY <1>1, <1>2, <1>3 DEF Reconcile

LEMMA SessionShape == Shape /\ (Session \/ Others) => Shape'
<1> SUFFICES ASSUME Shape, Session \/ Others PROVE Shape'
  OBVIOUS
<1> USE DEF paper, tick, real, past
<1>0. btc \in Nat /\ live \in SUBSET Slots
  BY DEF Shape, TypeOK
<1>1. CASE SessionEnds
  <2>0. fills = {} /\ fills' = fills
    BY <1>1 DEF SessionEnds, Shape, Phases, Where, Between
  <2>1. CASE Send("SELL", live, btc, "close") /\ UNCHANGED <<live, drift>>
    <3>1. TypeOK'
      BY <1>0, <1>1, <2>1, SendTypes DEF SessionEnds, Shape, TypeOK
    <3>2. SweepOrder' /\ pc' = "order" /\ Where' = "close"
      BY <1>0, <2>1 DEF Send, SweepOrder, Where
    <3> QED
      BY <2>0, <3>1, <3>2 DEF Shape, OrderOK, Phases, Between
  <2>2. CASE pc' = "close" /\ live' = {} /\ UNCHANGED order
    <3>1. TypeOK'
      BY <1>1, <2>2 DEF SessionEnds, Shape, TypeOK, Drifts
    <3> QED
      BY <2>0, <2>2, <3>1 DEF Shape, OrderOK, Phases, Where, Between
  <2> QED
    BY <1>1, <2>1, <2>2 DEF SessionEnds
<1>2. CASE NewSession
  <2>1. TypeOK'
    BY <1>2 DEF NewSession, Shape, TypeOK
  <2> QED
    BY <1>2, <2>1 DEF NewSession, Shape, OrderOK, Phases, Where, Between
<1>3. CASE HotReload
  <2>1. TypeOK'
    BY <1>3 DEF HotReload, Shape, TypeOK
  <2> QED
    BY <1>3, <2>1 DEF HotReload, Shape, OrderOK, Phases, Where, Between
<1>4. CASE SoldOutside
  <2>1. btc' \in Nat
    BY <1>0, <1>4 DEF SoldOutside
  <2>2. TypeOK'
    BY <1>4, <2>1 DEF SoldOutside, Shape, TypeOK, Drifts
  <2> QED
    BY <1>4, <2>2 DEF SoldOutside, Shape, OrderOK, SweepOrder, Phases, Where, Between
<1>5. ASSUME NEW s \in Slots, ExitGate(s) PROVE Shape'
  <2>1. TypeOK'
    BY <1>5 DEF ExitGate, Shape, TypeOK
  <2> QED
    BY <1>5, <2>1 DEF ExitGate, Shape, OrderOK, Phases, Where, Between
<1> QED
  BY <1>1, <1>2, <1>3, <1>4, <1>5 DEF Session, Others

LEMMA ShapeStep == Shape /\ [Next]_vars => Shape'
<1>1. ASSUME Shape, UNCHANGED vars PROVE Shape'
  BY <1>1 DEF vars, paper, tick, real, past, Shape, TypeOK, OrderOK, SweepOrder,
     Phases, Where
<1> QED
  BY <1>1, StartShape, RequestShape, TickShape, OrdersShape, ReconcileShape,
     SessionShape DEF Next, Engine, Session, Stopped

\* Types, requests and phases are right in every reachable state.
THEOREM ShapeInvariant == Spec => []Shape
BY ShapeInit, ShapeStep, PTL DEF Spec

\* The bitmaps, requests and histories are well typed for any number of slots.
THEOREM OrdersTypeCorrect == Spec => []TypeOK
<1>1. Shape => TypeOK BY DEF Shape
<1> QED BY <1>1, ShapeInvariant, PTL

-----------------------------------------------------------------------------
\* A request to sell everything asks for all the account holds, whatever happens
\* on the way; every other state has no more BTC than live bits, unless drifted.
Sweeping == pc = "order" /\ order.then \in {"loop", "close", "slow"}

SweepSells == Sweeping => btc <= order.qty

Accounted ==
  "surplus" \notin drift /\ pc \notin {"startup", "stopped"} /\ ~Sweeping
    => btc <= Cardinality(live)

MoneyInv == LiveIsBacked /\ Accounted /\ SweepSells

LEMMA LiveFinite ==
  ASSUME Shape
  PROVE  /\ IsFiniteSet(live) /\ Cardinality(live) \in Nat
         /\ IsFiniteSet(active) /\ Cardinality(active) \in Nat
<1>1. IsFiniteSet(Slots)
  BY FS_Interval, LiveAssumption DEF Slots
<1>2. live \subseteq Slots /\ active \subseteq Slots
  BY DEF Shape, TypeOK
<1> QED
  BY <1>1, <1>2, FS_Subset, FS_CardinalityType

\* How the number of live bits changes.
LEMMA LiveCounts ==
  ASSUME Shape, NEW s
  PROVE  /\ s \in live => Cardinality(live \ {s}) = Cardinality(live) - 1
         /\ s \notin live => Cardinality(live \cup {s}) = Cardinality(live) + 1
         /\ s \in live => live \cup {s} = live
BY LiveFinite, FS_AddElement, FS_RemoveElement

LEMMA NothingLive == Cardinality({}) = 0
BY FS_EmptySet

\* A step that leaves account, bits and history alone.
LEMMA MoneyQuiet ==
  ASSUME Shape, MoneyInv, UNCHANGED <<real, drift>>,
         pc \notin {"startup", "stopped"} \/ pc' \in {"startup", "stopped"},
         pc # "order" \/ UNCHANGED <<pc, order>>,
         Sweeping' => Sweeping \/ btc <= order'.qty
  PROVE  MoneyInv'
<1> USE DEF real
<1>1. LiveIsBacked'
  BY DEF MoneyInv, LiveIsBacked
<1>2. Accounted'
  BY DEF MoneyInv, Accounted, Sweeping
<1>3. SweepSells'
  BY DEF MoneyInv, SweepSells, Sweeping
<1> QED
  BY <1>1, <1>2, <1>3 DEF MoneyInv

\* A bit cleared without a sale.
LEMMA MoneyForgone ==
  ASSUME Shape, MoneyInv, UNCHANGED btc, live' \subseteq live,
         drift' = drift \cup {"surplus"}, ~Sweeping'
  PROVE  MoneyInv'
<1>1. Cardinality(live') <= Cardinality(live) /\ Cardinality(live') \in Nat
  BY LiveFinite, FS_Subset, FS_CardinalityType
<1>2. btc \in Nat
  BY DEF Shape, TypeOK
<1> QED
  BY <1>1, <1>2, LiveFinite DEF MoneyInv, LiveIsBacked, Accounted, SweepSells

LEMMA MoneyRequest == Shape /\ MoneyInv /\ Request => MoneyInv'
<1> SUFFICES ASSUME Shape, MoneyInv, Request PROVE MoneyInv'
  OBVIOUS
<1> DEFINE N == Cardinality(live)
<1>1. N \in Nat /\ btc \in Nat /\ order.qty \in Nat /\ pc = "order"
  BY LiveFinite DEF Shape, TypeOK, Request, Filled, Refused, Unanswered, GiveUp
<1>2. CASE Unanswered
  <2>1. pc' = pc /\ order'.then = order.then /\ order'.qty = order.qty /\ live' = live
    BY <1>2 DEF Unanswered, Shape, TypeOK
  <2>2. CASE Execute /\ drift' = drift \cup Unknown
    <3>1. CASE order.side = "BUY"
      <4>1. btc' = btc + order.qty /\ "surplus" \in drift'
            /\ ("shortfall" \in drift' <=> "shortfall" \in drift)
        BY <2>2, <3>1 DEF Execute, Unknown
      <4>2. ~Sweeping'
        BY <2>1, <3>1, <1>1 DEF Shape, OrderOK, SweepOrder, Sweeping
      <4> QED
        BY <1>1, <2>1, <4>1, <4>2 DEF MoneyInv, LiveIsBacked, Accounted, SweepSells
    <3>2. CASE order.side # "BUY"
      <4>1. btc' = btc - order.qty /\ btc' <= btc /\ "shortfall" \in drift' /\ btc' \in Nat
            /\ ("surplus" \in drift' <=> "surplus" \in drift)
        BY <1>1, <2>2, <3>2 DEF Execute, Unknown
      <4>2. Sweeping' = Sweeping
        BY <2>1 DEF Sweeping
      <4>3. Accounted'
        BY <1>1, <2>1, <4>1, <4>2 DEF MoneyInv, Accounted
      <4>4. SweepSells'
        BY <1>1, <2>1, <4>1, <4>2 DEF MoneyInv, SweepSells
      <4> QED
        BY <4>1, <4>3, <4>4 DEF MoneyInv, LiveIsBacked
    <3> QED
      BY <3>1, <3>2
  <2>3. CASE UNCHANGED <<btc, drift>>
    BY <2>1, <2>3 DEF MoneyInv, LiveIsBacked, Accounted, SweepSells, Sweeping
  <2> QED
    BY <1>2, <2>2, <2>3 DEF Unanswered
<1>3. ASSUME order.side = "SELL", Answered(FALSE), btc' <= btc, btc' \in Nat,
             btc' = btc \/ "shortfall" \in drift', drift \subseteq drift',
             "surplus" \in drift'
      PROVE  MoneyInv'
  <2>1. live' \subseteq live /\ pc' # "order"
    BY <1>1, <1>3 DEF Answered, Shape, TypeOK
  <2>2. Cardinality(live') <= N /\ Cardinality(live') \in Nat
    BY <2>1, LiveFinite, FS_Subset, FS_CardinalityType
  <2>3. LiveIsBacked'
    BY <1>1, <1>3, <2>2 DEF MoneyInv, LiveIsBacked
  <2> QED
    BY <1>3, <2>1, <2>3 DEF MoneyInv, Accounted, SweepSells, Sweeping
<1>4. ASSUME order.side = "BUY", Answered(FALSE), btc' >= btc, btc' \in Nat,
             btc' = btc \/ "surplus" \in drift',
             "shortfall" \in drift' <=> "shortfall" \in drift, drift \subseteq drift'
      PROVE  MoneyInv'
  <2>1. live' = live /\ pc' # "order"
    BY <1>1, <1>4 DEF Answered, Shape, TypeOK
  <2>2. ~Sweeping
    BY <1>1, <1>4 DEF Shape, OrderOK, SweepOrder, Sweeping
  <2>3. LiveIsBacked'
    BY <1>1, <1>4, <2>1 DEF MoneyInv, LiveIsBacked
  <2>4. Accounted'
    BY <1>1, <1>4, <2>1, <2>2 DEF MoneyInv, Accounted, Sweeping
  <2> QED
    BY <2>1, <2>3, <2>4 DEF MoneyInv, SweepSells, Sweeping
<1>5. order.side \in {"BUY", "SELL"}
  BY <1>1 DEF Shape, TypeOK
<1>6. CASE Refused
  <2>1. Parted(FALSE) = IF order.side = "SELL" THEN {"surplus"} ELSE {}
    BY DEF Parted
  <2>2. Answered(FALSE) /\ drift' = drift \cup Parted(FALSE) /\ btc' = btc
    BY <1>6 DEF Refused
  <2>3. btc' <= btc /\ btc' >= btc /\ btc' \in Nat
    BY <1>1, <2>2
  <2>4. CASE order.side = "SELL"
    BY <1>3, <2>1, <2>2, <2>3, <2>4
  <2>5. CASE order.side = "BUY"
    <3>1. drift' = drift
      BY <2>1, <2>2, <2>5
    <3> QED
      BY <1>4, <2>2, <2>3, <2>5, <3>1
  <2> QED
    BY <1>5, <2>4, <2>5
<1>7. CASE GiveUp
  <2>0. Execute \/ btc' = btc
    BY <1>7 DEF GiveUp
  <2>1. CASE order.side = "SELL"
    <3>1. "surplus" \in Parted(FALSE) /\ "shortfall" \in Unknown
      BY <2>1 DEF Parted, Unknown
    <3>2. Execute => btc' <= btc /\ btc' \in Nat
      BY <1>1, <2>1 DEF Execute
    <3>3. btc' <= btc /\ btc' \in Nat
      BY <1>1, <2>0, <3>2
    <3> QED
      BY <1>3, <1>7, <2>1, <3>1, <3>3 DEF GiveUp
  <2>2. CASE order.side = "BUY"
    <3>1. Parted(FALSE) = {} /\ Unknown = {"surplus"}
      BY <2>2 DEF Parted, Unknown
    <3>2. Execute => btc' >= btc /\ btc' \in Nat
      BY <1>1, <2>2 DEF Execute
    <3>3. btc' >= btc /\ btc' \in Nat
      BY <1>1, <2>0, <3>2
    <3> QED
      BY <1>4, <1>7, <2>2, <3>1, <3>3 DEF GiveUp
  <2> QED
    BY <1>5, <2>1, <2>2
<1>8. CASE Filled
  <2>1. pc' # "order" /\ ~Sweeping'
    BY <1>1, <1>8 DEF Filled, Answered, Shape, TypeOK, Sweeping
  <2>2. CASE SweepOrder
    <3>1. live' = {} /\ btc' = btc - order.qty /\ order.qty <= btc /\ Sweeping
      BY <1>1, <1>8, <2>2 DEF Filled, Answered, Execute, SweepOrder, Sweeping
    <3>2. btc' = 0
      BY <1>1, <3>1 DEF MoneyInv, SweepSells
    <3> QED
      BY <2>1, <3>1, <3>2, NothingLive DEF MoneyInv, LiveIsBacked, Accounted, SweepSells
  <2>3. ASSUME order.side = "SELL", order.qty = 1, NEW s \in live, order.bits = {s},
               ~Sweeping
        PROVE  MoneyInv'
    <3>1. live' = live \ {s} /\ btc' = btc - 1 /\ 1 <= btc /\ drift' = drift
      BY <1>1, <1>8, <2>3 DEF Filled, Answered, Execute, Parted
    <3>2. Cardinality(live') = N - 1
      BY <3>1, LiveCounts
    <3> QED
      BY <1>1, <2>1, <2>3, <3>1, <3>2 DEF MoneyInv, LiveIsBacked, Accounted, SweepSells
  <2>4. ASSUME order.side = "BUY", order.qty = 1, NEW s \in active, order.bits = {s},
               ~Sweeping
        PROVE  MoneyInv'
    <3>1. live' = live \cup {s} /\ btc' = btc + 1
      BY <1>8, <2>4 DEF Filled, Answered, Execute
    <3>2. CASE s \in live
      <4>1. live' = live /\ drift' = drift \cup {"surplus"}
        BY <1>8, <2>4, <3>1, <3>2 DEF Filled, Parted
      <4>2. LiveIsBacked'
        BY <1>1, <3>1, <4>1 DEF MoneyInv, LiveIsBacked
      <4> QED
        BY <2>1, <4>1, <4>2 DEF MoneyInv, Accounted, SweepSells
    <3>3. CASE s \notin live
      <4>1. Cardinality(live') = N + 1 /\ drift' = drift
        BY <1>8, <2>4, <3>1, <3>3, LiveCounts DEF Filled, Parted
      <4> QED
        BY <1>1, <2>1, <2>4, <3>1, <4>1 DEF MoneyInv, LiveIsBacked, Accounted, SweepSells
    <3> QED
      BY <3>2, <3>3
  <2> QED
    BY <1>1, <2>2, <2>3, <2>4 DEF Shape, OrderOK, Sweeping
<1> QED
  BY <1>2, <1>6, <1>7, <1>8 DEF Request

\* Clearing all bits is right when nothing is left to stand for.
LEMMA MoneyCleared ==
  ASSUME Shape, MoneyInv, UNCHANGED btc, live' = {}, ~Sweeping',
         drift' = IF btc > 0 THEN drift \cup {"surplus"} ELSE drift
  PROVE  MoneyInv'
<1>1. btc \in Nat /\ Cardinality(live') = 0
  BY NothingLive DEF Shape, TypeOK
<1>2. btc' > 0 => "surplus" \in drift'
  OBVIOUS
<1> QED
  BY <1>1, <1>2 DEF MoneyInv, LiveIsBacked, Accounted, SweepSells

LEMMA MoneyStart == Shape /\ MoneyInv /\ Startup => MoneyInv'
<1> SUFFICES ASSUME Shape, MoneyInv, Startup PROVE MoneyInv'
  OBVIOUS
<1> USE DEF paper, tick, real, past
<1>1. CASE StartFails
  <2>1. UNCHANGED <<real, drift>> /\ pc = "startup" /\ pc' = "stopped"
    BY <1>1 DEF StartFails
  <2> QED
    BY <2>1, MoneyQuiet DEF Sweeping
<1>2. CASE StartMatched
  <2>1. live' = active /\ btc' = btc /\ pc' = "loop" /\ btc \in Nat
    BY <1>2 DEF StartMatched, Shape, TypeOK
  <2>2. /\ btc > Cardinality(active) => "surplus" \in drift'
        /\ btc < Cardinality(active) => "shortfall" \in drift'
    BY <1>2, <2>1, LiveFinite DEF StartMatched
  <2> QED
    BY <2>1, <2>2, LiveFinite DEF MoneyInv, LiveIsBacked, Accounted, SweepSells, Sweeping
<1>3. CASE StartCleared
  <2>1. live = {} /\ live' = {} /\ btc = 0 /\ btc' = 0 /\ pc' = "loop"
    BY <1>3 DEF StartCleared, Shape, Phases
  <2> QED
    BY <2>1, NothingLive DEF MoneyInv, LiveIsBacked, Accounted, SweepSells, Sweeping
<1>4. CASE StartSwept
  <2>1. live = {} /\ live' = live /\ btc' = btc /\ btc \in Nat
    BY <1>4 DEF StartSwept, Shape, Phases, TypeOK
  <2>2. CASE Send("SELL", {}, btc, "loop") /\ UNCHANGED drift
    <3>1. Sweeping' /\ order'.qty = btc
      BY <2>2 DEF Send, Sweeping
    <3> QED
      BY <2>1, <2>2, <3>1 DEF MoneyInv, LiveIsBacked, Accounted, SweepSells
  <2>3. CASE pc' = "loop" /\ drift' = {"surplus"}
    BY <2>1, <2>3, NothingLive DEF MoneyInv, LiveIsBacked, Accounted, SweepSells, Sweeping
  <2> QED
    BY <1>4, <2>2, <2>3 DEF StartSwept
<1> QED
  BY <1>1, <1>2, <1>3, <1>4 DEF Startup

\* Every step that can send the whole balance, or give it up.
LEMMA MoneySweep ==
  ASSUME Shape, MoneyInv, NEW then \in {"close", "slow"}, pc \in {"loop", "sells"},
         UNCHANGED btc,
         \/ btc > 0 /\ Send("SELL", live, btc, then) /\ UNCHANGED <<live, drift>>
         \/ /\ pc' = then /\ live' = {}
            /\ drift' = IF btc > 0 THEN drift \cup {"surplus"} ELSE drift
  PROVE  MoneyInv'
<1>1. CASE Send("SELL", live, btc, then) /\ UNCHANGED <<live, drift>>
  <2>1. Sweeping' /\ order'.qty = btc /\ btc \in Nat
    BY <1>1 DEF Send, Sweeping, Shape, TypeOK
  <2> QED
    BY <1>1, <2>1 DEF MoneyInv, LiveIsBacked, Accounted, SweepSells
<1>2. CASE pc' = then /\ live' = {}
           /\ drift' = IF btc > 0 THEN drift \cup {"surplus"} ELSE drift
  BY <1>2, MoneyCleared DEF Sweeping
<1> QED
  BY <1>1, <1>2

\* Every step that can sell one slot, or give it up.
LEMMA MoneySellSlot ==
  ASSUME Shape, MoneyInv, NEW s \in Slots, NEW then \in {"sells", "orphans"}, pc = then,
         UNCHANGED btc,
         \/ Send("SELL", {s}, 1, then) /\ UNCHANGED <<live, drift>>
         \/ /\ live' = live \ {s} /\ drift' = drift \cup {"surplus"}
            /\ UNCHANGED <<pc, order>>
  PROVE  MoneyInv'
<1>1. CASE Send("SELL", {s}, 1, then) /\ UNCHANGED <<live, drift>>
  <2>1. ~Sweeping' /\ UNCHANGED <<real, drift>>
    BY <1>1 DEF Send, Sweeping, real
  <2> QED
    BY <2>1, MoneyQuiet
<1>2. CASE live' = live \ {s} /\ drift' = drift \cup {"surplus"} /\ UNCHANGED <<pc, order>>
  BY <1>2, MoneyForgone DEF Sweeping
<1> QED
  BY <1>1, <1>2

LEMMA MoneyStep == Shape /\ MoneyInv /\ [Next]_vars => MoneyInv'
<1> SUFFICES ASSUME Shape, MoneyInv, [Next]_vars PROVE MoneyInv'
  OBVIOUS
<1> USE DEF paper, tick, real, past
<1>1. CASE EngineTick
  <2>1. UNCHANGED <<real, drift>> /\ pc \in {"loop", "tick"}
        /\ pc' \in {"tick", "sells", "buys"}
    BY <1>1 DEF EngineTick, SaveExits, WarmupTick, FastTick, SlowTick, AfterTick, Fill
  <2> QED
    BY <2>1, MoneyQuiet DEF Sweeping
<1>2. CASE SellAll
  BY <1>2, MoneySweep DEF SellAll
<1>3. CASE SessionEnds
  BY <1>3, MoneySweep DEF SessionEnds
<1>4. ASSUME NEW s \in Slots, SellOne(s) PROVE MoneyInv'
  BY <1>4, MoneySellSlot DEF SellOne
<1>5. ASSUME NEW s \in Slots, SellOrphan(s) PROVE MoneyInv'
  BY <1>5, MoneySellSlot DEF SellOrphan
<1>6. ASSUME NEW s \in Slots, Buy(s) PROVE MoneyInv'
  <2>1. UNCHANGED <<real, drift>> /\ pc = "buys"
        /\ (pc' = "buys" \/ (pc' = "order" /\ order'.then = "buys"))
    BY <1>6 DEF Buy, Send
  <2> QED
    BY <2>1, MoneyQuiet DEF Sweeping
<1>7. CASE Undo \/ NothingToSell
  <2>1. UNCHANGED <<real, drift>> /\ pc \in {"buys", "sells"} /\ pc' \in {"sells", "slow"}
    BY <1>7 DEF Undo, NothingToSell
  <2> QED
    BY <2>1, MoneyQuiet DEF Sweeping
<1>8. CASE NoReconciliation \/ QueryFails \/ QueryFindsSome \/ OrphansSold \/ Done
  <2>1. UNCHANGED <<real, drift>> /\ pc \in {"slow", "orphans", "done"}
        /\ pc' \in {"done", "orphans", "loop"}
    BY <1>8 DEF NoReconciliation, QueryFails, QueryFindsSome, OrphansSold, Done
  <2> QED
    BY <2>1, MoneyQuiet DEF Sweeping
<1>9. CASE QueryFindsNone
  <2>1. live' = {} /\ btc' = btc /\ btc = 0 /\ drift' = drift /\ ~Sweeping'
    BY <1>9 DEF QueryFindsNone, Sweeping
  <2> QED
    BY <2>1, MoneyCleared
<1>10. CASE NewSession
  <2>1. UNCHANGED <<real, drift>> /\ pc = "close" /\ pc' = "loop"
    BY <1>10 DEF NewSession
  <2> QED
    BY <2>1, MoneyQuiet DEF Sweeping
<1>11. CASE HotReload \/ \E s \in Slots : ExitGate(s)
  <2>1. UNCHANGED <<real, drift>> /\ pc = "loop" /\ pc' = "loop"
    BY <1>11 DEF HotReload, ExitGate
  <2> QED
    BY <2>1, MoneyQuiet DEF Sweeping
<1>12. CASE SoldOutside
  <2>1. btc' \in Nat /\ btc \in Nat /\ btc' <= btc /\ live' = live
        /\ UNCHANGED <<pc, order>> /\ drift' = drift \cup {"shortfall"}
    BY <1>12 DEF SoldOutside, Shape, TypeOK
  <2>2. order.qty \in Nat
    BY DEF Shape, TypeOK
  <2>3. Accounted'
    BY <2>1, LiveFinite DEF MoneyInv, Accounted, Sweeping
  <2>4. SweepSells'
    BY <2>1, <2>2 DEF MoneyInv, SweepSells, Sweeping
  <2> QED
    BY <2>1, <2>3, <2>4 DEF MoneyInv, LiveIsBacked
<1>13. CASE UNCHANGED vars
  BY <1>13 DEF vars, MoneyInv, LiveIsBacked, Accounted, SweepSells, Sweeping
<1> QED
  BY <1>1, <1>2, <1>3, <1>4, <1>5, <1>6, <1>7, <1>8, <1>9, <1>10, <1>11, <1>12,
     <1>13, MoneyStart, MoneyRequest
     DEF Next, Engine, Orders, Reconcile, QueryDone, Session, Others, Stopped

LEMMA MoneyInit == Init => MoneyInv
<1> SUFFICES ASSUME Init PROVE MoneyInv
  OBVIOUS
<1>1. pc = "startup" /\ live = {} /\ btc \in Nat
  BY LiveAssumption DEF Init
<1> QED
  BY <1>1, NothingLive DEF MoneyInv, LiveIsBacked, Accounted, SweepSells, Sweeping

THEOREM MoneyInvariant == Spec => []MoneyInv
BY ShapeInvariant, MoneyInit, MoneyStep, PTL DEF Spec

\* Whatever is refused, retried, skipped or undone, a live bit lacks its BTC only
\* after an unanswered sale, a sale by other hands, or a start that found less.
THEOREM LiveAlwaysBacked == Spec => []LiveIsBacked
<1>1. MoneyInv => LiveIsBacked BY DEF MoneyInv
<1> QED BY <1>1, MoneyInvariant, PTL

\* The account holds BTC the engine has forgotten only after an unanswered purchase,
\* a sale that did not take place, or a slot bought again while its bit was set.
THEOREM NoBtcForgotten == Spec => []NoForgottenBtc
<1>1. MoneyInv => NoForgottenBtc BY DEF MoneyInv, Accounted, NoForgottenBtc, Sweeping
<1> QED BY <1>1, MoneyInvariant, PTL

-----------------------------------------------------------------------------
\* OrphansAreKnown, for every place of the iteration: what the exit gate has left
\* is pending at first and saved later; a slow path's own time exits are excepted
\* until its query.
OrphanInv ==
  /\ Where = "loop" => Orphans \subseteq pending \cup missed
  /\ Where = "tick" => Orphans \subseteq saved \cup missed
  /\ Where \in {"buys", "sells"} /\ ~slow => Orphans \subseteq saved \cup missed
  /\ pc = "slow" /\ ~slow => Orphans \subseteq missed
  /\ Where = "done" => Orphans \subseteq missed

\* FillsAreBacked, likewise.  While exits are saved no real purchase is made, so
\* a fill can have its bit set only by the slot's last owner.
FillInv ==
  /\ Where = "tick" /\ state = "WARMUP" => fills = {}
  /\ Where = "tick" => fills \cap live \subseteq reused
  /\ saved # {} /\ Where \in {"buys", "sells"} => fills \cap live \subseteq reused
  /\ saved # {} /\ Where = "buys" => walk = {} /\ pc = "buys"
  /\ pc = "order" /\ Where \in {"sells", "slow"} => saved # {}
  /\ pc = "order" /\ Where = "slow" => fills \cap active \subseteq reused
  /\ pc = "order" /\ Where = "orphans" => order.bits \cap active = {}
  /\ Where \in {"sells", "slow", "orphans", "done"}
       => fills \cap active \subseteq live \cup reused

LEMMA OrphanInit == Init => OrphanInv /\ FillInv
<1> SUFFICES ASSUME Init PROVE OrphanInv /\ FillInv
  OBVIOUS
<1>1. pc = "startup" /\ fills = {} /\ live = {}
  BY DEF Init
<1> QED
  BY <1>1 DEF OrphanInv, FillInv, Where

LEMMA OrphanRequest == Shape /\ OrphanInv /\ FillInv /\ Request => OrphanInv' /\ FillInv'
<1> SUFFICES ASSUME Shape, OrphanInv, FillInv, Request PROVE OrphanInv' /\ FillInv'
  OBVIOUS
<1> USE DEF paper, tick
<1>1. pc = "order" /\ UNCHANGED <<paper, tick, missed, reused>>
      /\ Where = order.then
      /\ order.then \in {"loop", "close", "buys", "sells", "slow", "orphans"}
      /\ live \in SUBSET Slots /\ slow \in BOOLEAN
  BY DEF Request, Filled, Refused, Unanswered, GiveUp, Where, Shape, TypeOK
<1>2. CASE Unanswered
  <2>1. UNCHANGED <<pc, live>> /\ order'.then = order.then /\ order'.bits = order.bits
    BY <1>2 DEF Unanswered, Shape, TypeOK
  <2>2. Where' = Where /\ Orphans' = Orphans
    BY <1>1, <2>1 DEF Where, Orphans
  <2>3. OrphanInv'
    BY <1>1, <2>1, <2>2 DEF OrphanInv
  <2>4. FillInv'
    BY <1>1, <2>1, <2>2 DEF FillInv
  <2> QED
    BY <2>3, <2>4
<1>3. ASSUME NEW filled \in BOOLEAN, Answered(filled) PROVE OrphanInv' /\ FillInv'
  <2>1. pc' = order.then /\ Where' = Where /\ pc' # "order"
    BY <1>1, <1>3 DEF Answered, Where
  <2>2. CASE SweepOrder
    <3>1. live' = {} /\ Where \in {"loop", "close", "slow"}
      BY <1>1, <1>3, <2>2 DEF Answered, SweepOrder
    <3>2. OrphanInv'
      BY <2>1, <3>1 DEF OrphanInv, Orphans
    <3>3. FillInv'
      BY <1>1, <2>1, <3>1 DEF FillInv
    <3> QED
      BY <3>2, <3>3
  <2>3. ASSUME order.side = "SELL", Where \in {"sells", "orphans"},
               NEW s \in live, order.bits = {s}
        PROVE  OrphanInv' /\ FillInv'
    <3>1. live' = live \ {s}
      BY <1>3, <2>3 DEF Answered
    <3>2. OrphanInv'
      BY <1>1, <2>1, <2>3, <3>1 DEF OrphanInv, Orphans
    <3>3. CASE Where = "sells"
      <4>1. saved # {} /\ fills \cap live \subseteq reused
            /\ fills \cap active \subseteq live \cup reused
        BY <1>1, <3>3 DEF FillInv
      <4>2. fills' \cap live' \subseteq reused' /\ fills' \cap active' \subseteq live' \cup reused'
        BY <1>1, <3>1, <4>1
      <4>3. Where' = "sells" /\ UNCHANGED saved
        BY <1>1, <2>1, <3>3
      <4>4. FillInv'
        BY <2>1, <4>1, <4>2, <4>3 DEF FillInv
      <4> QED
        BY <3>2, <4>4
    <3>4. CASE Where = "orphans"
      <4>1. s \notin active /\ fills \cap active \subseteq live \cup reused
        BY <1>1, <2>3, <3>4 DEF FillInv
      <4>2. fills' \cap active' \subseteq live' \cup reused'
        BY <1>1, <3>1, <4>1
      <4>3. Where' = "orphans"
        BY <2>1, <3>4
      <4>4. FillInv'
        BY <2>1, <4>2, <4>3 DEF FillInv
      <4> QED
        BY <3>2, <4>4
    <3> QED
      BY <2>3, <3>2, <3>3, <3>4
  <2>4. ASSUME order.side = "BUY", Where = "buys", NEW s \in active, order.bits = {s}
        PROVE  OrphanInv' /\ FillInv'
    <3>1. live' \subseteq live \cup {s}
      BY <1>3, <2>4 DEF Answered
    <3>2. Orphans' \subseteq Orphans
      BY <1>1, <3>1 DEF Orphans
    <3>3. OrphanInv'
      BY <1>1, <2>1, <2>4, <3>2 DEF OrphanInv
    <3>4. FillInv'
      BY <1>1, <2>1, <2>4 DEF FillInv
    <3> QED
      BY <3>3, <3>4
  <2> QED
    BY <1>1, <2>2, <2>3, <2>4 DEF Shape, OrderOK
<1> QED
  BY <1>2, <1>3 DEF Request, Filled, Refused, GiveUp

LEMMA OrphanTick == Shape /\ OrphanInv /\ FillInv /\ EngineTick => OrphanInv' /\ FillInv'
<1> SUFFICES ASSUME Shape, OrphanInv, FillInv, EngineTick PROVE OrphanInv' /\ FillInv'
  OBVIOUS
<1> USE DEF paper, tick, real, past
<1>1. CASE SaveExits
  <2>1. pc = "loop" /\ pc' = "tick" /\ saved' = pending /\ fills = {} /\ fills' = {}
        /\ UNCHANGED <<active, live, missed>>
    BY <1>1 DEF SaveExits, Shape, Phases, Where, Between
  <2> QED
    BY <2>1 DEF OrphanInv, FillInv, Where, Orphans
<1>2. CASE WarmupTick
  <2>1. pc = "tick" /\ pc' = "sells" /\ fills = {} /\ fills' = {}
        /\ UNCHANGED <<active, live, missed, saved>>
    BY <1>2 DEF WarmupTick, FillInv, Where
  <2> QED
    BY <2>1 DEF OrphanInv, FillInv, Where, Orphans
<1>3. ASSUME NEW s \in Slots, Fill(s) PROVE OrphanInv' /\ FillInv'
  <2>1. pc = "tick" /\ pc' = "tick" /\ state' = "ACTIVE"
        /\ active' = active \cup {s} /\ fills' = fills \cup {s}
        /\ UNCHANGED <<live, missed, saved>>
        /\ reused' = IF s \in live THEN reused \cup {s} ELSE reused
    BY <1>3 DEF Fill
  <2>2. OrphanInv'
    BY <2>1 DEF OrphanInv, Where, Orphans
  <2>3. fills' \cap live' \subseteq reused'
    BY <2>1 DEF FillInv, Where
  <2> QED
    BY <2>1, <2>2, <2>3 DEF FillInv, Where
<1>4. CASE FastTick \/ SlowTick
  <2>1. pc = "tick" /\ active' \subseteq active /\ UNCHANGED <<live, missed, saved, fills, reused>>
        /\ (slow' = TRUE \/ (slow' = FALSE /\ active' = active))
    BY <1>4 DEF FastTick, SlowTick
  <2>2. pc' = IF fills = {} THEN "sells" ELSE "buys"
    BY <1>4 DEF FastTick, SlowTick, AfterTick
  <2>3. saved' # {} => walk' = {}
    BY <1>4, <2>1 DEF FastTick, SlowTick, AfterTick
  <2>4. Where = "tick" /\ Where' = pc' /\ pc' # "order"
    BY <2>1, <2>2 DEF Where
  <2>5. OrphanInv'
    BY <2>1, <2>2, <2>4 DEF OrphanInv, Orphans
  <2>6. FillInv'
    BY <2>1, <2>2, <2>3, <2>4 DEF FillInv
  <2> QED
    BY <2>5, <2>6
<1> QED
  BY <1>1, <1>2, <1>3, <1>4 DEF EngineTick

\* A step outside the fills and their orders: the loop between two iterations, and
\* the session's end.
LEMMA OrphanElse ==
  Shape /\ OrphanInv /\ FillInv /\ (Startup \/ Session \/ Others) => OrphanInv' /\ FillInv'
<1> SUFFICES ASSUME Shape, OrphanInv, FillInv, Startup \/ Session \/ Others
             PROVE  OrphanInv' /\ FillInv'
  OBVIOUS
<1> USE DEF paper, tick, real, past
<1>1. CASE Startup
  <2>1. live = {} /\ fills = {} /\ fills' = {}
    BY <1>1 DEF Startup, StartFails, StartMatched, StartCleared, StartSwept, Shape, Phases,
       Where, Between
  <2>2. Where' \in {"loop", "stopped"} /\ Orphans' = {} /\ (pc' = "order" => order'.bits = {})
    BY <1>1, <2>1 DEF Startup, StartFails, StartMatched, StartCleared, StartSwept, Send,
       Where, Orphans
  <2> QED
    BY <2>1, <2>2 DEF OrphanInv, FillInv
<1>2. CASE SessionEnds
  <2>1. pc = "loop" /\ Where' = "close"
    BY <1>2 DEF SessionEnds, Send, Where
  <2> QED
    BY <2>1 DEF OrphanInv, FillInv, Where
<1>3. CASE NewSession
  <2>1. pc' = "loop" /\ live = {} /\ live' = {}
    BY <1>3 DEF NewSession, Shape, Phases, Where
  <2> QED
    BY <2>1 DEF OrphanInv, FillInv, Where, Orphans
<1>4. CASE HotReload
  <2>1. pc = "loop" /\ UNCHANGED <<pc, active, live, pending, missed>>
    BY <1>4 DEF HotReload
  <2> QED
    BY <2>1 DEF OrphanInv, FillInv, Where, Orphans
<1>5. ASSUME NEW s \in Slots, ExitGate(s) PROVE OrphanInv' /\ FillInv'
  <2>1. pc = "loop" /\ UNCHANGED <<pc, live, missed>>
        /\ active' = active \ {s} /\ pending' = pending \cup {s}
    BY <1>5 DEF ExitGate
  <2> QED
    BY <2>1 DEF OrphanInv, FillInv, Where, Orphans
<1>6. CASE SoldOutside
  <2>1. UNCHANGED <<pc, paper, tick, live, order, missed, reused>>
    BY <1>6 DEF SoldOutside
  <2> QED
    BY <2>1 DEF OrphanInv, FillInv, Where, Orphans
<1> QED
  BY <1>1, <1>2, <1>3, <1>4, <1>5, <1>6 DEF Session, Others

\* The orders of a tick.  A position taken back had no real order, so it cannot
\* become an orphan; a sold slot that was filled again has a reused bit.
LEMMA OrphanOrders == Shape /\ OrphanInv /\ FillInv /\ Orders => OrphanInv' /\ FillInv'
<1> SUFFICES ASSUME Shape, OrphanInv, FillInv, Orders PROVE OrphanInv' /\ FillInv'
  OBVIOUS
<1> USE DEF paper, tick, real, past
<1>1. ASSUME NEW s \in Slots, Buy(s) PROVE OrphanInv' /\ FillInv'
  <2>1. pc = "buys" /\ Where = "buys" /\ Where' = "buys" /\ pc' \in {"buys", "order"}
        /\ UNCHANGED <<active, live, missed, saved, fills, slow, reused>>
    BY <1>1 DEF Buy, Send, Where
  <2>2. saved = {}
    BY <1>1, <2>1 DEF Buy, FillInv
  <2>3. OrphanInv'
    BY <2>1 DEF OrphanInv, Orphans
  <2>4. FillInv'
    BY <2>1, <2>2 DEF FillInv
  <2> QED
    BY <2>3, <2>4
<1>2. CASE Undo
  <2>1. pc = "buys" /\ pc' = "sells" /\ active' = active \ (young \ live)
        /\ UNCHANGED <<live, missed, saved, fills, young, slow, reused>>
    BY <1>2 DEF Undo
  <2>2. Orphans' = Orphans /\ Where = "buys" /\ Where' = "sells"
    BY <2>1 DEF Orphans, Where
  <2>3. fills' \cap active' \subseteq live'
    BY <2>1 DEF Shape, TypeOK
  <2>4. OrphanInv'
    BY <2>1, <2>2 DEF OrphanInv
  <2>5. FillInv'
    BY <2>1, <2>2, <2>3 DEF FillInv
  <2> QED
    BY <2>4, <2>5
<1>3. CASE NothingToSell
  <2>1. pc = "sells" /\ pc' = "slow" /\ saved \cap live = {}
        /\ UNCHANGED <<active, live, missed, saved, fills, slow, reused>>
    BY <1>3 DEF NothingToSell
  <2>2. Where = "sells" /\ Where' = "slow"
    BY <2>1 DEF Where
  <2>3. OrphanInv'
    BY <2>1, <2>2 DEF OrphanInv, Orphans
  <2>4. FillInv'
    BY <2>1, <2>2 DEF FillInv
  <2> QED
    BY <2>3, <2>4
<1>4. CASE SellAll
  <2>1. pc = "sells" /\ Where = "sells" /\ Where' = "slow" /\ saved # {}
        /\ UNCHANGED <<active, missed, saved, fills, slow, reused>>
        /\ (live' = {} \/ (pc' = "order" /\ live' = live))
    BY <1>4 DEF SellAll, Send, Where
  <2>2. fills \cap active \subseteq reused
    BY <2>1 DEF FillInv
  <2>3. OrphanInv'
    BY <1>4, <2>1 DEF OrphanInv, Orphans, SellAll, Send
  <2>4. FillInv'
    BY <2>1, <2>2 DEF FillInv
  <2> QED
    BY <2>3, <2>4
<1>5. ASSUME NEW s \in Slots, SellOne(s) PROVE OrphanInv' /\ FillInv'
  <2>1. pc = "sells" /\ Where = "sells" /\ Where' = "sells" /\ saved # {}
        /\ pc' \in {"sells", "order"}
        /\ UNCHANGED <<active, missed, saved, fills, slow, reused>>
        /\ live' \in {live, live \ {s}}
    BY <1>5 DEF SellOne, Send, Where
  <2>2. fills \cap live \subseteq reused /\ fills \cap active \subseteq live \cup reused
    BY <2>1 DEF FillInv
  <2>3. fills' \cap live' \subseteq reused' /\ fills' \cap active' \subseteq live' \cup reused'
    BY <2>1, <2>2
  <2>4. OrphanInv'
    BY <2>1 DEF OrphanInv, Orphans
  <2>5. FillInv'
    BY <2>1, <2>3 DEF FillInv
  <2> QED
    BY <2>4, <2>5
<1> QED
  BY <1>1, <1>2, <1>3, <1>4, <1>5 DEF Orders

LEMMA OrphanReconcile ==
  Shape /\ OrphanInv /\ FillInv /\ Reconcile => OrphanInv' /\ FillInv'
<1> SUFFICES ASSUME Shape, OrphanInv, FillInv, Reconcile PROVE OrphanInv' /\ FillInv'
  OBVIOUS
<1> USE DEF paper, tick, real, past
<1>1. CASE NoReconciliation \/ QueryFails \/ QueryFindsSome
  <2>1. pc = "slow" /\ pc' \in {"done", "orphans"}
        /\ UNCHANGED <<active, live, fills, reused>>
    BY <1>1 DEF NoReconciliation, QueryFails, QueryFindsSome
  <2>2. pc' = "done" => Orphans \subseteq missed'
    BY <1>1 DEF NoReconciliation, QueryFails, QueryFindsSome, OrphanInv
  <2>3. Where = "slow" /\ Where' = pc'
    BY <2>1 DEF Where
  <2>4. OrphanInv'
    BY <2>1, <2>2, <2>3 DEF OrphanInv, Orphans
  <2>5. FillInv'
    BY <2>1, <2>3 DEF FillInv
  <2> QED
    BY <2>4, <2>5
<1>2. CASE QueryFindsNone
  <2>1. pc' = "done" /\ live' = {} /\ active' = {}
    BY <1>2 DEF QueryFindsNone
  <2> QED
    BY <2>1 DEF OrphanInv, FillInv, Where, Orphans
<1>3. ASSUME NEW s \in Slots, SellOrphan(s) PROVE OrphanInv' /\ FillInv'
  <2>1. pc = "orphans" /\ Where = "orphans" /\ Where' = "orphans" /\ pc' \in {"orphans", "order"}
        /\ s \notin active /\ live' \in {live, live \ {s}}
        /\ (pc' = "order" => order'.bits = {s})
        /\ UNCHANGED <<active, fills, reused>>
    BY <1>3 DEF SellOrphan, Send, Where, Orphans
  <2>2. fills \cap active \subseteq live \cup reused
    BY <2>1 DEF FillInv
  <2>3. fills' \cap active' \subseteq live' \cup reused'
    BY <2>1, <2>2
  <2>4. OrphanInv'
    BY <2>1 DEF OrphanInv
  <2>5. FillInv'
    BY <2>1, <2>3 DEF FillInv
  <2> QED
    BY <2>4, <2>5
<1>4. CASE OrphansSold
  <2>1. pc = "orphans" /\ pc' = "done" /\ Orphans = {}
        /\ UNCHANGED <<active, live, fills, reused>>
    BY <1>4 DEF OrphansSold
  <2> QED
    BY <2>1 DEF OrphanInv, FillInv, Where, Orphans
<1>5. CASE Done
  <2>1. pc = "done" /\ pc' = "loop" /\ UNCHANGED <<active, live, pending, missed>>
    BY <1>5 DEF Done
  <2> QED
    BY <2>1 DEF OrphanInv, FillInv, Where, Orphans
<1> QED
  BY <1>1, <1>2, <1>3, <1>4, <1>5 DEF Reconcile, QueryDone

LEMMA OrphanStep ==
  Shape /\ OrphanInv /\ FillInv /\ [Next]_vars => OrphanInv' /\ FillInv'
<1> SUFFICES ASSUME Shape, OrphanInv, FillInv, UNCHANGED vars PROVE OrphanInv' /\ FillInv'
  BY OrphanRequest, OrphanTick, OrphanElse, OrphanOrders, OrphanReconcile
     DEF Next, Engine, Session, Stopped
<1> USE DEF vars, paper, tick, real, past
<1>1. Where' = Where /\ Orphans' = Orphans
  BY DEF Where, Orphans
<1>2. OrphanInv'
  BY <1>1 DEF OrphanInv
<1>3. FillInv'
  BY <1>1 DEF FillInv
<1> QED
  BY <1>2, <1>3

THEOREM OrphanInvariant == Spec => [](OrphanInv /\ FillInv)
BY ShapeInvariant, OrphanInit, OrphanStep, PTL DEF Spec

\* Between two iterations a real position without a paper one is a pending exit, or
\* one the last query did not get to.
THEOREM OrphansAlwaysKnown == Spec => []OrphansAreKnown
<1>1. Shape /\ OrphanInv => OrphansAreKnown
  BY DEF OrphanInv, OrphansAreKnown, Where
<1> QED
  BY <1>1, ShapeInvariant, OrphanInvariant, PTL

\* A position filled in an iteration has its real order at the end, unless it took
\* over a bit that was still set.
THEOREM FillsAlwaysBacked == Spec => []FillsAreBacked
<1>1. FillInv => FillsAreBacked
  BY DEF FillInv, FillsAreBacked, Where
<1> QED
  BY <1>1, OrphanInvariant, PTL
=============================================================================
