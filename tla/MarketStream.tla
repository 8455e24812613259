---------------------------- MODULE MarketStream ----------------------------
(***************************************************************************)
(* The exchange's trade stream: connecting in three layers (TCP, TLS,      *)
(* WebSocket), polling, reading frames, losing the stream and opening it   *)
(* again, as the engine loop of main.cpp drives it.                        *)
(*                                                                         *)
(* What the exchange sends arrives in TLS records, each carrying some      *)
(* frames.  A record waits in the socket; reading from it decrypts the     *)
(* whole record, and the frames not yet read are what SSL_pending counts.  *)
(* Reading with neither blocks the engine thread.                          *)
(***************************************************************************)
EXTENDS Integers, Sequences

CONSTANTS
  Records,    \* what the exchange may send: records, sequences of frames
  MaxWire,    \* records the socket buffer holds
  MaxFiles    \* sockets the process may have open

Frames == {"trade", "ping", "other", "close", "broken"}

ASSUME StreamAssumption ==
  /\ Records \subseteq Seq(Frames)
  /\ MaxWire \in Nat \ {0} /\ MaxFiles \in Nat \ {0}

VARIABLES
  at,             \* where the engine thread is
  caller,         \* who called Init: "start", "lost" or "session"
  connected,      \* the stream is up, as the program knows it
  sockets,        \* open descriptors
  contexts,       \* TLS contexts allocated
  wire,           \* records in the socket
  buffered,       \* frames decrypted and not read
  has_data,       \* a trade has been read since the start
  age,            \* of the session: new, open, or expired after 23h30m
  quit_requested, \* the TUI thread asked to quit
  looping,        \* the loop goes on
  lost            \* history: streams lost to a failed read or a close frame

linkVars   == <<connected, sockets, contexts>>
dataVars   == <<wire, buffered>>
loopVars   == <<has_data, looping>>
streamVars == <<at, caller, linkVars, dataVars, loopVars, age, quit_requested, lost>>

\* A record whose last frame ends the stream.
EndsStream(r) == r # <<>> /\ r[Len(r)] \in {"close", "broken"}

-----------------------------------------------------------------------------
\* The start of main: BinanceStream_Init has cleared its structure.
StreamInit ==
  /\ at = "tcp" /\ caller = "start"
  /\ connected = FALSE /\ sockets = 0 /\ contexts = 0
  /\ wire = <<>> /\ buffered = <<>>
  /\ has_data = FALSE /\ looping = TRUE
  /\ age = "new" /\ quit_requested = FALSE /\ lost = 0

\* Where Init's caller goes on.  Only the start looks at a failure.
AfterInit == IF caller = "lost" THEN "keys" ELSE "poll"
AfterFailedInit == IF caller = "start" THEN "stopped" ELSE AfterInit

\* Layer 1.  socket() needs a free descriptor.
TcpConnect ==
  /\ at = "tcp"
  /\ \/ /\ sockets < MaxFiles
        /\ sockets' = sockets + 1 /\ at' = "tls"
     \/ /\ at' = AfterFailedInit
        /\ UNCHANGED sockets
  /\ UNCHANGED <<caller, connected, contexts, dataVars, loopVars, age,
                 quit_requested, lost>>

\* Slip: a failed TLS layer leaves the socket of the layer below open.
TlsSetupKeepsSocket ==
  /\ at = "tls"
  /\ \/ /\ contexts' = contexts + 1 /\ at' = "ws"
        /\ UNCHANGED sockets
     \/ /\ at' = AfterFailedInit
        /\ UNCHANGED <<sockets, contexts>>
  /\ UNCHANGED <<caller, connected, dataVars, loopVars, age, quit_requested, lost>>

\* Layer 2.  On failure the context is freed and the caller closes the socket.
TlsSetup ==
  /\ at = "tls"
  /\ \/ /\ contexts' = contexts + 1 /\ at' = "ws"
        /\ UNCHANGED sockets
     \/ /\ sockets' = sockets - 1 /\ at' = AfterFailedInit
        /\ UNCHANGED contexts
  /\ UNCHANGED <<caller, connected, dataVars, loopVars, age, quit_requested, lost>>

\* Slip: the connect time of the old session is kept.
WsHandshakeKeepsTime ==
  /\ at = "ws"
  /\ \/ /\ connected' = TRUE
        /\ at' = AfterInit
        /\ UNCHANGED <<sockets, contexts, age>>
     \/ /\ sockets' = sockets - 1 /\ contexts' = contexts - 1
        /\ at' = AfterFailedInit
        /\ UNCHANGED <<connected, age>>
  /\ UNCHANGED <<caller, dataVars, loopVars, quit_requested, lost>>

\* Layer 3.  Success starts a new session.
WsHandshake ==
  /\ at = "ws"
  /\ \/ /\ connected' = TRUE /\ age' = "new"
        /\ at' = AfterInit
        /\ UNCHANGED <<sockets, contexts>>
     \/ /\ sockets' = sockets - 1 /\ contexts' = contexts - 1
        /\ at' = AfterFailedInit
        /\ UNCHANGED <<connected, age>>
  /\ UNCHANGED <<caller, dataVars, loopVars, quit_requested, lost>>

\* Close does nothing to a stream that is no longer marked connected; Init then
\* clears the structure, and what it held with it.
Reconnect ==
  /\ at = "reconnect"
  /\ IF connected
     THEN sockets' = sockets - 1 /\ contexts' = contexts - 1
     ELSE UNCHANGED <<sockets, contexts>>
  /\ connected' = FALSE
  /\ wire' = <<>> /\ buffered' = <<>>
  /\ at' = "tcp"
  /\ UNCHANGED <<caller, loopVars, age, quit_requested, lost>>

-----------------------------------------------------------------------------
SslPending == buffered # <<>>

\* The head of the loop.  Poll answers at once when there is something to read;
\* it times out with nothing.
Poll ==
  /\ at = "poll" /\ looping
  /\ at' = IF connected /\ (SslPending \/ wire # <<>>) THEN "read" ELSE "keys"
  /\ UNCHANGED <<caller, linkVars, dataVars, loopVars, age, quit_requested, lost>>

\* SSL_read goes to the socket when nothing is decrypted.
Decrypt ==
  /\ at = "read" /\ buffered = <<>> /\ wire # <<>>
  /\ buffered' = Head(wire) /\ wire' = Tail(wire)
  /\ UNCHANGED <<at, caller, linkVars, loopVars, age, quit_requested, lost>>

\* Slip: one trade for each poll.
AfterTradeReturns == "keys"

\* BinanceStream_HasPending: the burst goes on while decrypted frames remain.
AfterTrade == IF Len(buffered) > 1 THEN "read" ELSE "keys"

\* ReadTick returns a trade; the loop runs the exit gate on it.
ReadTrade ==
  /\ at = "read" /\ buffered # <<>> /\ Head(buffered) = "trade"
  /\ buffered' = Tail(buffered)
  /\ has_data' = TRUE
  /\ at' = AfterTrade
  /\ UNCHANGED <<caller, linkVars, wire, looping, age, quit_requested, lost>>

\* A ping is answered, any other frame skipped, and ReadTick reads on.
SkipFrame ==
  /\ at = "read" /\ buffered # <<>> /\ Head(buffered) \in {"ping", "other"}
  /\ buffered' = Tail(buffered)
  /\ UNCHANGED <<at, caller, linkVars, wire, loopVars, age, quit_requested, lost>>

\* A close frame or a failed read: the stream is marked as down and nothing
\* else, the snapshot is saved and Reconnect called.
LoseStream ==
  /\ at = "read" /\ buffered # <<>> /\ EndsStream(<<Head(buffered)>>)
  /\ connected' = FALSE /\ lost' = lost + 1
  /\ buffered' = Tail(buffered)
  /\ caller' = "lost" /\ at' = "reconnect"
  /\ UNCHANGED <<sockets, contexts, wire, loopVars, age, quit_requested>>

\* Slip: the request is looked at only while the stream is up.
KeysOnlyConnected ==
  /\ at = "keys"
  /\ looping' = (looping /\ ~(quit_requested /\ connected))
  /\ at' = "session"
  /\ UNCHANGED <<caller, linkVars, dataVars, has_data, age, quit_requested, lost>>

\* The request flags; quitting lets the iteration run to its end.
StreamKeys ==
  /\ at = "keys"
  /\ looping' = (looping /\ ~quit_requested)
  /\ at' = "session"
  /\ UNCHANGED <<caller, linkVars, dataVars, has_data, age, quit_requested, lost>>

\* The planned reconnect at the end of a session, which skips the engine tick.
\* Otherwise the tick runs, once a trade has been read, and the loop repeats.
Session ==
  /\ at = "session"
  /\ \/ /\ connected /\ age = "expired"
        /\ caller' = "session" /\ at' = "reconnect"
        /\ UNCHANGED age
     \/ /\ ~(connected /\ age = "expired")
        /\ at' = IF has_data THEN "tick" ELSE "poll"
        /\ age' = IF age = "new" THEN "open" ELSE age
        /\ UNCHANGED caller
  /\ UNCHANGED <<linkVars, dataVars, loopVars, quit_requested, lost>>

EngineTick ==
  /\ at = "tick" /\ at' = "poll"
  /\ UNCHANGED <<caller, linkVars, dataVars, loopVars, age, quit_requested, lost>>

\* The loop ends; Close is called and the process exits.
Cleanup ==
  /\ at = "poll" /\ ~looping
  /\ IF connected
     THEN sockets' = sockets - 1 /\ contexts' = contexts - 1
     ELSE UNCHANGED <<sockets, contexts>>
  /\ connected' = FALSE /\ at' = "stopped"
  /\ UNCHANGED <<caller, dataVars, loopVars, age, quit_requested, lost>>

-----------------------------------------------------------------------------
\* The exchange sends a record, and nothing more after one that ends the stream.
Send(r) ==
  /\ connected /\ Len(wire) < MaxWire
  /\ ~EndsStream(buffered)
  /\ wire # <<>> => ~EndsStream(wire[Len(wire)])
  /\ wire' = Append(wire, r)
  /\ UNCHANGED <<at, caller, linkVars, buffered, loopVars, age, quit_requested,
                 lost>>

\* A session lasts longer than one iteration of the loop.
SessionClock ==
  /\ connected /\ age = "open" /\ age' = "expired"
  /\ UNCHANGED <<at, caller, linkVars, dataVars, loopVars, quit_requested, lost>>

AskToQuit ==
  /\ ~quit_requested /\ at # "stopped" /\ quit_requested' = TRUE
  /\ UNCHANGED <<at, caller, linkVars, dataVars, loopVars, age, lost>>

Handshake == TcpConnect \/ TlsSetup \/ WsHandshake
Reading   == Decrypt \/ ReadTrade \/ SkipFrame \/ LoseStream
Engine    == Handshake \/ Reconnect \/ Poll \/ Reading \/ StreamKeys \/ Session
             \/ EngineTick \/ Cleanup

Environment == SessionClock \/ AskToQuit \/ \E r \in Records : Send(r)

Stopped == at = "stopped" /\ UNCHANGED streamVars

StreamNext == Engine \/ Environment \/ Stopped

StreamSpec == StreamInit /\ [][StreamNext]_streamVars

\* The engine thread keeps running, and a connection can be made whenever it is
\* tried often enough.
EngineFairness ==
  /\ WF_streamVars(Engine)
  /\ SF_streamVars(TcpConnect /\ sockets' > sockets)
  /\ SF_streamVars(TlsSetup /\ contexts' > contexts)
  /\ SF_streamVars(WsHandshake /\ connected')

FairSpec == StreamSpec /\ EngineFairness

Carries(r, frame) == \E i \in DOMAIN r : r[i] = frame

\* The market trades: among all it sends, the exchange keeps sending trades.
MarketSpec ==
  FairSpec /\ SF_streamVars(\E r \in Records : Carries(r, "trade") /\ Send(r))

-----------------------------------------------------------------------------
FlagsOK ==
  /\ connected \in BOOLEAN /\ has_data \in BOOLEAN
  /\ looping \in BOOLEAN /\ quit_requested \in BOOLEAN

StreamTypeOK ==
  /\ FlagsOK
  /\ at \in {"tcp", "tls", "ws", "reconnect", "poll", "read", "keys",
             "session", "tick", "stopped"}
  /\ caller \in {"start", "lost", "session"}
  /\ age \in {"new", "open", "expired"}
  /\ sockets \in 0 .. MaxFiles /\ contexts \in 0 .. MaxFiles
  /\ lost \in Nat
  /\ wire \in Seq(Seq(Frames)) /\ buffered \in Seq(Frames)

\* Every socket and every TLS context in use belongs to the stream in use, to
\* the layer being set up, or to a stream that was lost: no failed layer and no
\* planned reconnect leaves one behind (BinanceStream_Init and _Close).
OnlyLostStreamsLeak ==
  /\ contexts = IF connected \/ at = "ws" THEN lost + 1 ELSE lost
  /\ sockets  = IF at = "tls" THEN contexts + 1 ELSE contexts

\* The engine tick, and with it the buy gate, sees the last trade of a burst:
\* nothing decrypted is left behind when reading ends (main.cpp, burst drain).
DrainedBeforeTick ==
  at \in {"keys", "session", "tick", "poll"} => buffered = <<>>

\* Once a trade has been read the engine tick keeps coming, over lost streams
\* and session ends, as long as the process runs (main.cpp, the loop).
TicksGoOn == (at = "poll" /\ has_data) ~> (at = "tick" \/ at = "stopped")

\* A request to quit ends the process (the flag is looked at in every iteration).
QuitEnds == quit_requested ~> (at = "stopped")

\* A stream that was lost is open again in the end, unless the process ends
\* (the call to BinanceStream_Reconnect in main.cpp).
LostStreamReopened ==
  (~connected /\ has_data) ~> (connected \/ at = "stopped")
=============================================================================
