------------------------------ MODULE Display ------------------------------
(***************************************************************************)
(* The terminal interface of the multicore build: the engine thread fills  *)
(* two snapshots in turn, the TUI thread draws the one active_idx names,   *)
(* reads a key and raises a request flag, ten times a second.              *)
(*                                                                         *)
(* There is no lock.  The threads meet in active_idx and in four flags,    *)
(* all atomic; the snapshots are plain memory.  A field is modelled by its *)
(* version, the engine tick it was stored in, so a frame that mixes slow   *)
(* paths, or shows old next to new, is visible as such.                    *)
(***************************************************************************)
EXTENDS Integers, Sequences, FiniteSets

CONSTANTS
  Builds,    \* how the TUI is built: "ansi" or "legacy"
  Layouts,   \* layouts the key l cycles through, the first one at start
  GraphLen,  \* GRAPH_LEN: points a graph keeps (120 in the code)
  Keys,      \* requests the operator may make, "quit" among them
  MaxTicks   \* bound of the model: engine ticks

Requests == {"pause", "cycle", "reload"}

\* The fields TUI_CopySnapshot fills, in four groups in the order it fills
\* them, and those the engine also stores at every tick.
Filled == << {"price", "roll_count", "gate"}, {"active_count", "positions"},
             {"money"}, {"stats"} >>
Hot    == {"price", "active_count", "roll_count"}
Fields == {"gate", "positions", "money", "stats"} \cup Hot

ASSUME DisplayAssumption ==
  /\ Builds \subseteq {"ansi", "legacy"}
  /\ Layouts \in Seq(Seq(SUBSET (Fields \cup {"graph"}))) /\ Layouts # <<>>
  /\ \A k \in DOMAIN Layouts : Layouts[k] # <<>>
  /\ GraphLen \in Nat \ {0} /\ MaxTicks \in Nat
  /\ Keys \subseteq Requests \cup {"quit"}

VARIABLES
  pc,         \* where the engine thread is
  running,    \* its loop goes on
  now,        \* engine ticks so far
  filled,     \* groups of the back snapshot already copied
  serving,    \* the request being carried out, or "none"
  snapshots,  \* the two buffers: [Fields, graph]
  active_idx, \* the buffer the TUI is to draw
  requests,   \* request flags that are up
  quit,       \* quit_requested
  build,      \* how the TUI is built
  tui,        \* the TUI thread: [pc, held, at, layout]
  frame,      \* the frame being drawn: versions of slow and of hot fields
  terminal,   \* cooked or raw
  handlers,   \* the TUI's signal handlers are installed
  points,     \* history: slow paths published
  flips,      \* history: buffers published since the frame was begun
  owed,       \* history: requests made and not yet taken
  shown       \* history: the last complete frame, and whether in time

engineVars == <<pc, running, now, filled, serving>>
sharedVars == <<snapshots, active_idx, requests, quit>>
screenVars == <<build, tui, frame, terminal, handlers, shown>>
vars == <<engineVars, sharedVars, screenVars, points, flips, owed>>

Back == 1 - active_idx

\* Graphs ------------------------------------------------------------------

EmptyGraph == [ring |-> [i \in 0 .. GraphLen - 1 |-> 0],
               graph_head |-> 0, graph_count |-> 0]

\* Slip: the head runs on past the end of the ring.
AppendPointOverrun(g, v) ==
  [ring |-> [g.ring EXCEPT ![g.graph_head] = v],
   graph_head |-> g.graph_head + 1,
   graph_count |-> IF g.graph_count < GraphLen THEN g.graph_count + 1
                                               ELSE g.graph_count]

AppendPoint(g, v) ==
  [ring |-> [g.ring EXCEPT ![g.graph_head] = v],
   graph_head |-> (g.graph_head + 1) % GraphLen,
   graph_count |-> IF g.graph_count < GraphLen THEN g.graph_count + 1
                                               ELSE g.graph_count]

\* What a chart draws: the ring's points, the oldest first.
Sparkline(g) ==
  [i \in 1 .. g.graph_count |->
     g.ring[(g.graph_head - g.graph_count + GraphLen + i - 1) % GraphLen]]

\* The version of a graph is its latest point.
Version(s, f) ==
  IF f # "graph" THEN s[f]
  ELSE IF s.graph.graph_count = 0 THEN 0
  ELSE Sparkline(s.graph)[s.graph.graph_count]

\* What the sections of the screen read, and the layouts -------------------

SectionHeader    == {"gate", "roll_count", "money", "stats"}
SectionTopBar    == {"price", "active_count", "positions", "money", "stats"}
SectionMarket    == {"gate", "money"}
SectionRegime    == {"money"}
SectionBuyGate   == {"price", "gate", "money", "stats"}
SectionPortfolio == {"money"}
SectionPnL       == {"money"}
SectionRisk      == {"money"}
SectionConfig    == {"stats"}
SectionPositions == {"price", "active_count", "positions"}
SectionStats     == {"stats"}
SectionCharts    == {"graph"}
ChartsTopLine    == {"price", "active_count", "positions", "money"}

LayoutStandard ==
  <<SectionHeader, SectionTopBar, SectionMarket, SectionRegime,
    SectionBuyGate, SectionPortfolio, SectionPnL, SectionRisk,
    SectionConfig, SectionPositions, SectionStats, SectionCharts>>
LayoutCharts ==
  <<ChartsTopLine, SectionCharts, SectionRegime, SectionPositions>>
LayoutCompact == <<SectionTopBar, SectionPositions, SectionStats>>

\* The legacy interface has one screen; the positions are formatted first.
LayoutLegacy ==
  <<SectionPositions, {"price", "gate"}, {"gate", "roll_count"}, {"gate"},
    {"money", "positions"}, SectionPnL, {"money", "gate"},
    {"stats", "money"}, SectionStats>>

Layout == IF build = "legacy" THEN LayoutLegacy ELSE Layouts[tui.layout]

NoFrame == [slow |-> {}, hot |-> {}]

\* The engine has not come round to the frame's buffer: at most one
\* publication since the frame was begun, and the next copy has not begun.
Copying == pc \in {"carry", "copy", "append", "publish"}
InTime  == flips = 0 \/ (flips = 1 /\ ~Copying)

-----------------------------------------------------------------------------
\* The shared structure is cleared, then the thread is created.
Init ==
  /\ pc = "poll" /\ running = TRUE /\ now = 0 /\ filled = 0
  /\ serving = "none"
  /\ snapshots = [i \in 0 .. 1 |->
                    [f \in Fields \cup {"graph"} |->
                       IF f = "graph" THEN EmptyGraph ELSE 0]]
  /\ active_idx = 0 /\ requests = {} /\ quit = FALSE
  /\ build \in Builds
  /\ tui = [pc |-> "init", held |-> 0, at |-> 1, layout |-> 1]
  /\ frame = NoFrame /\ shown = [slow |-> {}, inTime |-> TRUE]
  /\ terminal = "cooked" /\ handlers = FALSE
  /\ points = <<>> /\ flips = 0 /\ owed = {}

\* The engine thread -------------------------------------------------------

\* The loop's head: poll the socket, read what is there.
Poll ==
  /\ pc = "poll"
  /\ pc' = IF running THEN "quit" ELSE "leave"
  /\ UNCHANGED <<running, now, filled, serving, sharedVars, screenVars,
                 points, flips, owed>>

\* A quit seen here lets the iteration finish.
CheckQuit ==
  /\ pc = "quit"
  /\ running' = (running /\ ~quit)
  /\ pc' = "pause"
  /\ UNCHANGED <<now, filled, serving, sharedVars, screenVars, points,
                 flips, owed>>

AfterRequest == [pause |-> "cycle", cycle |-> "reload", reload |-> "tick"]

\* An atomic exchange: the flag is read and lowered in one step.
TakeRequest(r) ==
  /\ pc = r /\ serving = "none"
  /\ IF r \in requests
     THEN serving' = r /\ pc' = pc
     ELSE serving' = serving /\ pc' = AfterRequest[r]
  /\ requests' = requests \ {r}
  /\ owed' = owed \ (requests \cap {r})
  /\ UNCHANGED <<running, now, filled, snapshots, active_idx, quit,
                 screenVars, points, flips>>

\* Slip: the flag is lowered once the request has been carried out.
ServeRequestThenLower(r) ==
  /\ pc = r /\ serving = r
  /\ serving' = "none"
  /\ pc' = AfterRequest[r]
  /\ requests' = requests \ {r}
  /\ UNCHANGED <<running, now, filled, snapshots, active_idx, quit,
                 screenVars, points, flips, owed>>

\* The request itself is GateControl's matter.
ServeRequest(r) ==
  /\ pc = r /\ serving = r
  /\ serving' = "none"
  /\ pc' = AfterRequest[r]
  /\ UNCHANGED <<running, now, filled, sharedVars, screenVars, points,
                 flips, owed>>

\* Plain stores into the buffer the TUI may be reading.  The count is what
\* the tick before left; the gates and the controller run afterwards.
TickStores ==
  /\ pc = "tick" /\ now < MaxTicks
  /\ now' = now + 1
  /\ snapshots' = [snapshots EXCEPT ![active_idx] =
       [@ EXCEPT !.price = now + 1, !.active_count = now, !.roll_count = now]]
  /\ pc' = "slow"
  /\ UNCHANGED <<running, filled, serving, active_idx, requests, quit,
                 screenVars, points, flips, owed>>

\* No tick: nothing has been read yet, or the session boundary's continue.
NoTick ==
  /\ pc = "tick"
  /\ pc' = "poll"
  /\ UNCHANGED <<running, now, filled, serving, sharedVars, screenVars,
                 points, flips, owed>>

\* The controller's tick ends a slow path or does not.
ControllerTick ==
  /\ pc = "slow"
  /\ pc' \in {"poll", "carry"}
  /\ UNCHANGED <<running, now, filled, serving, sharedVars, screenVars,
                 points, flips, owed>>

\* Slip: the back buffer keeps the graphs it had when it was last in front.
CarryHistorySkipped ==
  /\ pc = "carry"
  /\ pc' = "copy" /\ filled' = 0
  /\ UNCHANGED <<running, now, serving, sharedVars, screenVars, points,
                 flips, owed>>

\* The three histories, head and count of the front buffer go to the back.
CarryHistory ==
  /\ pc = "carry"
  /\ snapshots' = [snapshots EXCEPT ![Back].graph =
                                      snapshots[active_idx].graph]
  /\ pc' = "copy" /\ filled' = 0
  /\ UNCHANGED <<running, now, serving, active_idx, requests, quit,
                 screenVars, points, flips, owed>>

\* TUI_CopySnapshot, one group of fields at a time.
CopySnapshot ==
  /\ pc = "copy"
  /\ filled' = filled + 1
  /\ snapshots' = [snapshots EXCEPT ![Back] =
       [f \in DOMAIN @ |->
          IF f \in Filled[filled + 1] THEN now ELSE @[f]]]
  /\ pc' = IF filled + 1 = Len(Filled) THEN "append" ELSE pc
  /\ UNCHANGED <<running, now, serving, active_idx, requests, quit,
                 screenVars, points, flips, owed>>

AppendToGraphs ==
  /\ pc = "append"
  /\ snapshots' = [snapshots EXCEPT ![Back].graph =
                     AppendPoint(@, snapshots[Back].price)]
  /\ pc' = "publish"
  /\ UNCHANGED <<running, now, filled, serving, active_idx, requests, quit,
                 screenVars, points, flips, owed>>

\* The release store that swaps the buffers.
Publish ==
  /\ pc = "publish"
  /\ active_idx' = Back
  /\ points' = Append(points, now)
  /\ flips' = flips + 1
  /\ pc' = "poll"
  /\ UNCHANGED <<running, now, filled, serving, snapshots, requests, quit,
                 screenVars, owed>>

\* After the loop: ask the TUI thread to stop.
Leave ==
  /\ pc = "leave"
  /\ quit' = TRUE
  /\ pc' = "join"
  /\ UNCHANGED <<running, now, filled, serving, snapshots, active_idx,
                 requests, screenVars, points, flips, owed>>

Join ==
  /\ pc = "join" /\ tui.pc = "ended"
  /\ pc' = "returned"
  /\ UNCHANGED <<running, now, filled, serving, sharedVars, screenVars,
                 points, flips, owed>>

\* The TUI thread ----------------------------------------------------------

\* Raw mode; then the legacy interface installs its handlers, which the ANSI
\* one does not have.
StartTui ==
  /\ \/ /\ tui.pc = "init"
        /\ terminal' = "raw"
        /\ tui' = [tui EXCEPT !.pc = IF build = "legacy" THEN "handlers"
                                                        ELSE "loop"]
        /\ UNCHANGED handlers
     \/ /\ tui.pc = "handlers"
        /\ handlers' = TRUE
        /\ tui' = [tui EXCEPT !.pc = "loop"]
        /\ UNCHANGED terminal
  /\ UNCHANGED <<engineVars, sharedVars, build, frame, shown, points, flips,
                 owed>>

\* Slip: the frame takes the buffer the engine fills.
BeginFrameAtBack ==
  /\ tui.pc = "loop" /\ ~quit
  /\ tui' = [tui EXCEPT !.pc = "draw", !.held = Back, !.at = 1]
  /\ frame' = NoFrame /\ flips' = 0
  /\ UNCHANGED <<engineVars, sharedVars, build, terminal, handlers, shown,
                 points, owed>>

\* Slip: the loop's condition is not looked at.
BeginFrameRegardless ==
  /\ tui.pc = "loop"
  /\ tui' = [tui EXCEPT !.pc = "draw", !.held = active_idx, !.at = 1]
  /\ frame' = NoFrame /\ flips' = 0
  /\ UNCHANGED <<engineVars, sharedVars, build, terminal, handlers, shown,
                 points, owed>>

\* The frame's buffer is chosen once and kept until the frame is drawn.
BeginFrame ==
  /\ tui.pc = "loop" /\ ~quit
  /\ tui' = [tui EXCEPT !.pc = "draw", !.held = active_idx, !.at = 1]
  /\ frame' = NoFrame /\ flips' = 0
  /\ UNCHANGED <<engineVars, sharedVars, build, terminal, handlers, shown,
                 points, owed>>

\* What one section reads of snapshot s.
Seen(s, fields) ==
  [slow |-> {Version(s, f) : f \in fields \ Hot},
   hot  |-> {Version(s, f) : f \in fields \cap Hot}]

\* Slip: every section asks again which buffer is in front.
DrawSectionOfFront ==
  LET seen == Seen(snapshots[active_idx], Layout[tui.at])
  IN  /\ tui.pc = "draw"
      /\ frame' = [slow |-> frame.slow \cup seen.slow,
                   hot  |-> frame.hot \cup seen.hot]
      /\ IF tui.at < Len(Layout)
         THEN tui' = [tui EXCEPT !.at = @ + 1] /\ UNCHANGED shown
         ELSE tui' = [tui EXCEPT !.pc = "key"] /\ shown' = [slow |-> frame'.slow, inTime |-> InTime]
      /\ UNCHANGED <<engineVars, sharedVars, build, terminal, handlers,
                     points, flips, owed>>

DrawSection ==
  LET seen == Seen(snapshots[tui.held], Layout[tui.at])
  IN  /\ tui.pc = "draw"
      /\ frame' = [slow |-> frame.slow \cup seen.slow,
                   hot  |-> frame.hot \cup seen.hot]
      /\ IF tui.at < Len(Layout)
         THEN tui' = [tui EXCEPT !.at = @ + 1] /\ UNCHANGED shown
         ELSE tui' = [tui EXCEPT !.pc = "key"] /\ shown' = [slow |-> frame'.slow, inTime |-> InTime]
      /\ UNCHANGED <<engineVars, sharedVars, build, terminal, handlers,
                     points, flips, owed>>

\* One key at most is read after each frame, then the thread sleeps.
ReadKey ==
  /\ tui.pc = "key"
  /\ \/ UNCHANGED <<requests, quit, owed>>
     \/ \E r \in Keys \ {"quit"} :
          /\ requests' = requests \cup {r} /\ owed' = owed \cup {r}
          /\ UNCHANGED quit
     \/ /\ "quit" \in Keys /\ quit' = TRUE
        /\ UNCHANGED <<requests, owed>>
  /\ tui' = [tui EXCEPT !.pc = "loop"]
  /\ UNCHANGED <<engineVars, snapshots, active_idx, build, frame, shown,
                 terminal, handlers, points, flips>>

\* The key l: the next layout.  The legacy interface has one only.
SwitchLayout ==
  /\ tui.pc = "key" /\ build = "ansi"
  /\ tui' = [tui EXCEPT !.pc = "loop", !.layout = (@ % Len(Layouts)) + 1]
  /\ UNCHANGED <<engineVars, sharedVars, build, frame, shown, terminal,
                 handlers, points, flips, owed>>

EndTui ==
  /\ tui.pc = "loop" /\ quit
  /\ terminal' = "cooked"
  /\ tui' = [tui EXCEPT !.pc = "ended"]
  /\ UNCHANGED <<engineVars, sharedVars, build, frame, shown, handlers,
                 points, flips, owed>>

\* SIGINT or SIGTERM.  The handler puts the terminal back and raises the
\* signal again; without one the process just ends.
Interrupt ==
  /\ pc \notin {"returned", "killed"}
  /\ pc' = "killed"
  /\ tui' = [tui EXCEPT !.pc = "killed"]
  /\ terminal' = IF handlers THEN "cooked" ELSE terminal
  /\ UNCHANGED <<running, now, filled, serving, sharedVars, build, frame,
                 shown, handlers, points, flips, owed>>

Stopped == pc \in {"returned", "killed"} /\ UNCHANGED vars

EngineNext ==
  \/ Poll \/ CheckQuit
  \/ \E r \in Requests : TakeRequest(r) \/ ServeRequest(r)
  \/ TickStores \/ NoTick \/ ControllerTick
  \/ CarryHistory \/ CopySnapshot \/ AppendToGraphs \/ Publish
  \/ Leave \/ Join

TuiNext ==
  StartTui \/ BeginFrame \/ DrawSection \/ ReadKey \/ SwitchLayout \/ EndTui

Next == EngineNext \/ TuiNext \/ Interrupt \/ Stopped

\* Both threads are scheduled: the engine's poll has a timeout, and the TUI
\* neither waits for keys nor for the engine.
Spec == Init /\ [][Next]_vars /\ WF_vars(EngineNext) /\ WF_vars(TuiNext)

-----------------------------------------------------------------------------
\* Properties.

Versions == 0 .. MaxTicks
Graph == [ring : [0 .. GraphLen - 1 -> Versions],
          graph_head : 0 .. GraphLen - 1, graph_count : 0 .. GraphLen]
Frame == [slow : SUBSET Versions, hot : SUBSET Versions]

\* Every field and variable stays in its type; the head of a graph stays
\* inside its ring.
TypeOK ==
  /\ pc \in {"poll", "quit", "tick", "slow", "carry", "copy", "append",
             "publish", "leave", "join", "returned", "killed"}
            \cup Requests
  /\ running \in BOOLEAN /\ quit \in BOOLEAN /\ handlers \in BOOLEAN
  /\ now \in Versions /\ filled \in 0 .. Len(Filled)
  /\ serving \in Requests \cup {"none"}
  /\ \A i \in 0 .. 1 : /\ \A f \in Fields : snapshots[i][f] \in Versions
                      /\ snapshots[i].graph \in Graph
  /\ active_idx \in 0 .. 1
  /\ requests \subseteq Requests /\ owed \subseteq Requests
  /\ build \in Builds /\ terminal \in {"cooked", "raw"}
  /\ tui.pc \in {"init", "handlers", "loop", "draw", "key", "ended", "killed"}
  /\ tui.held \in 0 .. 1 /\ tui.layout \in 1 .. Len(Layouts)
  /\ frame \in Frame
  /\ shown \in [slow : SUBSET Versions, inTime : BOOLEAN]
  /\ points \in Seq(Versions) /\ flips \in 0 .. MaxTicks

\* A frame shows one slow path only, positions, money, counters and charts
\* alike, as long as the engine has not come round to the frame's buffer
\* again: until one publication has happened and the next copy has begun.
\* And what the ticks store is never older than the rest.
FrameWhole ==
  tui.pc \in {"draw", "key"} /\ InTime
    => /\ Cardinality(frame.slow) <= 1
       /\ \A h \in frame.hot, s \in frame.slow : h >= s

\* The charts drawn from the buffer in front are the last points published,
\* in order, none lost or doubled by carrying them from buffer to buffer.
GraphInOrder ==
  LET n == Len(points)
      k == IF n < GraphLen THEN n ELSE GraphLen
  IN  Sparkline(snapshots[active_idx].graph) = SubSeq(points, n - k + 1, n)

\* After a frame drawn in time nothing on the screen gets older, even if the
\* engine fills the next frame's buffer while it is drawn.
FramesNeverGoBack ==
  [][shown.inTime => \A v \in shown.slow, w \in shown'.slow : w >= v]_shown

\* A key pressed is taken by the engine, whatever it was doing when the flag
\* went up, unless the engine is leaving.
PressesServed ==
  \A r \in Requests : r \in owed ~> (r \notin owed \/ ~running \/ pc = "killed")

\* Once quit is asked for, the engine leaves its loop and joins the TUI
\* thread, which gives the terminal back first, and main returns.
QuitEndsBoth ==
  quit ~> \/ pc = "returned" /\ tui.pc = "ended" /\ terminal = "cooked"
          \/ pc = "killed"

\* A signal leaves the terminal as it was: what the change log says of
\* SIGINT and SIGTERM, and false, because the ANSI interface installs no
\* handler.
InterruptRestoresTerminal ==
  pc = "killed" => terminal = "cooked"
=============================================================================
