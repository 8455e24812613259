---------------------------- MODULE Persistence -----------------------------
(***************************************************************************)
(* The books and their snapshot: what PortfolioController_SaveSnapshot     *)
(* writes at each of the four places that call it, what a crash leaves of  *)
(* it, what LoadSnapshot brings back, and what the end of a session does   *)
(* to positions and books.                                                 *)
(*                                                                         *)
(* The books are sets of lots.  A lot is spent when its cost has left the  *)
(* balance, open while its position is held, pending while its exit waits  *)
(* in the exit buffer, and booked when its proceeds are in the balance.    *)
(***************************************************************************)
EXTENDS Naturals, FiniteSets

CONSTANTS
  Lots,       \* identities for purchases
  NSlots,     \* positions the portfolio holds
  BufCap,     \* records the exit buffer holds
  MaxStarts   \* bound on the starts of the process

ASSUME PersistenceAssumption ==
  NSlots \in Nat /\ BufCap \in Nat /\ MaxStarts \in Nat

VARIABLES
  pc,       \* where the engine thread is, or how the process ended
  after,    \* where SaveSnapshot returns to
  state,    \* WARMUP or ACTIVE
  open,     \* lots of the positions held
  pending,  \* lots of the exit buffer's records
  spent,    \* lots the balance has paid
  booked,   \* lots the balance has been paid for
  file,     \* the books the snapshot file holds
  quit,     \* the operator asked to quit
  running,  \* the loop goes on
  starts,   \* history: starts of the process
  bought,   \* history: lots ever bought
  stranded  \* history: lots whose exit was pending when a snapshot was taken

books   == <<open, pending, spent, booked>>
control == <<quit, running, starts>>
vars == <<pc, after, state, books, file, control, bought, stranded>>

\* The fields the snapshot has room for: the exit buffer is not among them.
Saved == [open |-> open, spent |-> spent, booked |-> booked]
SavedBooks == [open : SUBSET Lots, spent : SUBSET Lots, booked : SUBSET Lots]

\* The books PortfolioController_Init makes.  A file that is missing or empty leaves
\* them as they are, so it counts as one that holds them.
Fresh == [open |-> {}, spent |-> {}, booked |-> {}]

-----------------------------------------------------------------------------
\* The first start: no snapshot.
Init ==
  /\ pc = "loop" /\ after = "loop" /\ state = "WARMUP"
  /\ open = {} /\ pending = {} /\ spent = {} /\ booked = {}
  /\ file = Fresh
  /\ quit = FALSE /\ running = TRUE /\ starts = 1
  /\ bought = {} /\ stranded = {}

\* fopen cuts the file to nothing.  The fields wait in the stream's buffer, which
\* holds them all, until fflush.
Save(then) ==
  /\ file' = Fresh
  /\ after' = then /\ pc' = "saving"
  /\ stranded' = stranded \cup pending

\* fflush writes the buffer.
Flush ==
  /\ pc = "saving"
  /\ file' = Saved /\ pc' = after
  /\ UNCHANGED <<after, state, books, control, bought, stranded>>

-----------------------------------------------------------------------------
\* PositionExitGate, on a trade of a burst and again in the engine tick.
ExitGate(l) ==
  /\ (pc = "loop" /\ running) \/ pc = "gate"
  /\ l \in open /\ Cardinality(pending) < BufCap
  /\ open' = open \ {l} /\ pending' = pending \cup {l}
  /\ UNCHANGED <<pc, after, state, spent, booked, file, control, bought,
                 stranded>>

\* A failed read saves before it reconnects.
StreamLost ==
  /\ pc = "loop" /\ running
  /\ Save("keys")
  /\ UNCHANGED <<state, books, control, bought>>

ReadDone ==
  /\ pc = "loop" /\ running /\ pc' = "keys"
  /\ UNCHANGED <<after, state, books, file, control, bought, stranded>>

Keys ==
  /\ pc = "keys" /\ running' = ~quit
  /\ pc' = "session"
  /\ UNCHANGED <<after, state, books, file, quit, starts, bought, stranded>>

SessionGoesOn ==
  /\ pc = "session" /\ pc' = "gate"
  /\ UNCHANGED <<after, state, books, file, control, bought, stranded>>

\* The end of a session saves first, then closes what is held.
SessionEnds ==
  /\ pc = "session"
  /\ Save("close")
  /\ UNCHANGED <<state, books, control, bought>>

\* engine_force_close_all, one position at a time.
ForceClose(l) ==
  /\ pc = "close" /\ l \in open
  /\ open' = open \ {l} /\ booked' = booked \cup {l}
  /\ UNCHANGED <<pc, after, state, pending, spent, file, control, bought,
                 stranded>>

\* Nothing is held: reconnect.
Closed ==
  /\ pc = "close" /\ open = {} /\ pc' = "reconnect"
  /\ UNCHANGED <<after, state, books, file, control, bought, stranded>>

\* Slip: the portfolio is cleared and the money kept.
NewSessionKeepsMoney ==
  /\ pc = "reconnect"
  /\ open' = {} /\ pending' = {} /\ booked' = {}
  /\ state' = "WARMUP" /\ pc' = "loop"
  /\ UNCHANGED <<after, spent, file, control, bought, stranded>>

\* PortfolioController_Init: a new session begins with the starting balance, no
\* positions and no exit records.
NewSession ==
  /\ pc = "reconnect"
  /\ open' = {} /\ pending' = {} /\ spent' = {} /\ booked' = {}
  /\ state' = "WARMUP" /\ pc' = "loop"
  /\ UNCHANGED <<after, file, control, bought, stranded>>

-----------------------------------------------------------------------------
\* The walk over the positions is done.
GateDone ==
  /\ pc = "gate" /\ pc' = "tick"
  /\ UNCHANGED <<after, state, books, file, control, bought, stranded>>

\* Slip: exits are left to the slow path, which warmup has none of.
WarmupTickUndrained ==
  /\ pc = "tick" /\ state = "WARMUP"
  /\ state' \in {"WARMUP", "ACTIVE"}
  /\ pc' \in {"loop", "snapshot"}
  /\ UNCHANGED <<after, books, file, control, bought, stranded>>

\* Every tick of warmup books the exits of restored positions.  Warmup may end
\* with it, and the slow path's rate may ask for a snapshot.
WarmupTick ==
  /\ pc = "tick" /\ state = "WARMUP"
  /\ booked' = booked \cup pending /\ pending' = {}
  /\ state' \in {"WARMUP", "ACTIVE"}
  /\ pc' \in {"loop", "snapshot"}
  /\ UNCHANGED <<after, open, spent, file, control, bought, stranded>>

\* A fill of the active phase.
Buy(l) ==
  /\ pc = "tick" /\ state = "ACTIVE"
  /\ l \notin bought /\ Cardinality(open) < NSlots
  /\ open' = open \cup {l} /\ spent' = spent \cup {l}
  /\ bought' = bought \cup {l}
  /\ UNCHANGED <<pc, after, state, pending, booked, file, control, stranded>>

\* The slow path is not due.
TickDone ==
  /\ pc = "tick" /\ state = "ACTIVE" /\ pc' = "loop"
  /\ UNCHANGED <<after, state, books, file, control, bought, stranded>>

\* The slow path drains the exit buffer first.
SlowPath ==
  /\ pc = "tick" /\ state = "ACTIVE"
  /\ booked' = booked \cup pending /\ pending' = {}
  /\ pc' = "slow_path"
  /\ UNCHANGED <<after, state, open, spent, file, control, bought, stranded>>

\* Its time exit books at once.
TimeExit(l) ==
  /\ pc = "slow_path" /\ l \in open
  /\ open' = open \ {l} /\ booked' = booked \cup {l}
  /\ UNCHANGED <<pc, after, state, pending, spent, file, control, bought,
                 stranded>>

SlowPathDone ==
  /\ pc = "slow_path" /\ pc' = "snapshot"
  /\ UNCHANGED <<after, state, books, file, control, bought, stranded>>

\* Back in main, tick_count = 0 asks for a snapshot.
Snapshot ==
  /\ pc = "snapshot"
  /\ Save("loop")
  /\ UNCHANGED <<state, books, control, bought>>

\* Slip: the last slow path's snapshot is thought to be enough.
ShutdownUnsaved ==
  /\ pc = "loop" /\ ~running /\ pc' = "stopped"
  /\ UNCHANGED <<after, state, books, file, control, bought, stranded>>

\* The loop has ended: the positions are saved as they are.
Shutdown ==
  /\ pc = "loop" /\ ~running
  /\ Save("stopped")
  /\ UNCHANGED <<state, books, control, bought>>

-----------------------------------------------------------------------------
PressQuit ==
  /\ pc \notin {"stopped", "crashed"} /\ ~quit /\ quit' = TRUE
  /\ UNCHANGED <<pc, after, state, books, file, running, starts, bought,
                 stranded>>

\* A crash can come between any two steps.  The memory is gone.
Crash ==
  /\ pc \notin {"stopped", "crashed"} /\ pc' = "crashed"
  /\ UNCHANGED <<after, state, books, file, control, bought, stranded>>

\* Slip: the positions come back and the money does not.
RestartBroke ==
  /\ pc \in {"stopped", "crashed"} /\ starts < MaxStarts
  /\ open'   = file.open
  /\ spent'  = {}
  /\ booked' = {}
  /\ pending' = {} /\ state' = "WARMUP"
  /\ quit' = FALSE /\ running' = TRUE /\ starts' = starts + 1
  /\ pc' = "loop"
  /\ UNCHANGED <<after, file, bought, stranded>>

\* The books are the file's, or new ones; there is no exit record, and warmup
\* begins again.
Restart ==
  /\ pc \in {"stopped", "crashed"} /\ starts < MaxStarts
  /\ open'   = file.open
  /\ spent'  = file.spent
  /\ booked' = file.booked
  /\ pending' = {} /\ state' = "WARMUP"
  /\ quit' = FALSE /\ running' = TRUE /\ starts' = starts + 1
  /\ pc' = "loop"
  /\ UNCHANGED <<after, file, bought, stranded>>

\* The process may stay down.
Down == pc \in {"stopped", "crashed"} /\ UNCHANGED vars

Trading == \E l \in Lots :
             ExitGate(l) \/ ForceClose(l) \/ Buy(l) \/ TimeExit(l)
Loop    == StreamLost \/ ReadDone \/ Keys \/ SessionGoesOn \/ SessionEnds
           \/ Closed \/ NewSession
Tick    == GateDone \/ WarmupTick \/ TickDone \/ SlowPath \/ SlowPathDone
Saving  == Snapshot \/ Shutdown \/ Flush

Next == Trading \/ Loop \/ Tick \/ Saving \/ PressQuit \/ Crash \/ Restart \/ Down

Spec == Init /\ [][Next]_vars

-----------------------------------------------------------------------------
Fits(lots, n) == IsFiniteSet(lots) /\ Cardinality(lots) <= n

\* Among the types: what is held fits the slots and what waits fits the exit
\* buffer, in the memory and in the file.
TypeOK ==
  /\ pc \in {"loop", "keys", "session", "close", "reconnect", "gate", "tick",
             "slow_path", "snapshot", "saving", "stopped", "crashed"}
  /\ after \in {"loop", "keys", "close", "stopped"}
  /\ state \in {"WARMUP", "ACTIVE"}
  /\ open \in SUBSET Lots /\ pending \in SUBSET Lots
  /\ spent \in SUBSET Lots /\ booked \in SUBSET Lots
  /\ file \in SavedBooks
  /\ Fits(open, NSlots) /\ Fits(file.open, NSlots) /\ Fits(pending, BufCap)
  /\ quit \in BOOLEAN /\ running \in BOOLEAN /\ starts \in Nat
  /\ bought \in SUBSET Lots /\ stranded \in SUBSET Lots

\* Every position held and every exit waiting was paid for from this balance and
\* has not been paid out, over crashes, restarts and session ends
\* (LoadSnapshot, PortfolioController_Init, engine_force_close_all).
HeldIsPaid ==
  /\ open \cup pending \subseteq spent \ booked
  /\ open \cap pending = {}

\* Money leaves the books in one way only: what was paid for is held, waiting,
\* paid out, or its exit was waiting when a snapshot was taken
\* (PortfolioController_SaveSnapshot has no field for the exit buffer).
OnlyStrandedMissing ==
  spent \subseteq open \cup pending \cup booked \cup stranded

\* The snapshot of the slow path, in warmup too, leaves no exit waiting: only a
\* lost stream, the end of a session and quitting can (DrainExits before the
\* call to SaveSnapshot in main.cpp).
SlowPathSavesAll ==
  [][pc = "snapshot" => stranded' = stranded]_vars

\* A restart after quitting holds the positions and the money the engine had
\* when it stopped (main.cpp, shutdown; LoadSnapshot).
QuitResumes ==
  [][Restart /\ pc = "stopped" =>
       open' = open /\ spent' = spent /\ booked' = booked]_vars

\* What the guarantee of main.cpp says of a planned reconnect: no position is
\* without an owner, and no money is lost track of.
NoOrphansAtReconnect ==
  pc = "reconnect" => open = {} /\ pending = {}
=============================================================================
