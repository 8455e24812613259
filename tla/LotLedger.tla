----------------------------- MODULE LotLedger -----------------------------
(***************************************************************************)
(* What the engine promises of every purchase: it is opened once, leaves   *)
(* the portfolio once, and is booked once.  A lot that left through the    *)
(* exit gate is pending until the slow path books it; the time exit books  *)
(* at once.  At most NSlots lots are open and at most BufCap are pending.  *)
(***************************************************************************)
EXTENDS Integers, FiniteSets

CONSTANTS NSlots, BufCap, Lot

VARIABLES open, pending, closed

vars == <<open, pending, closed>>

Init ==
  /\ open \in SUBSET (1 .. NSlots)
  /\ pending = {} /\ closed = {}

\* A lot never seen before is opened.
Buy(l) ==
  /\ l \notin open \cup pending \cup closed
  /\ Cardinality(open) < NSlots
  /\ open' = open \cup {l}
  /\ UNCHANGED <<pending, closed>>

\* An open lot hits one of its levels.
Exit(l) ==
  /\ l \in open
  /\ Cardinality(pending) < BufCap
  /\ open' = open \ {l}
  /\ pending' = pending \cup {l}
  /\ UNCHANGED closed

\* A pending lot is booked.
Book(l) ==
  /\ l \in pending
  /\ pending' = pending \ {l}
  /\ closed' = closed \cup {l}
  /\ UNCHANGED open

\* An open lot is closed and booked in one step.
Expire(l) ==
  /\ l \in open
  /\ open' = open \ {l}
  /\ closed' = closed \cup {l}
  /\ UNCHANGED pending

Next ==
  \E l \in Lot : Buy(l) \/ Exit(l) \/ Book(l) \/ Expire(l)

Spec == Init /\ [][Next]_vars
=============================================================================
