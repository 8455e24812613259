-------------------------- MODULE EngineLoopProofs --------------------------
(***************************************************************************)
(* Proofs about the two things the engine loop keeps besides its trading:  *)
(* the market stream it reads, whose sockets are accounted for and whose   *)
(* bursts are read to the end before the engine ticks, and the books it    *)
(* keeps with the snapshot they are saved in.  The two modules share no    *)
(* variable; each part uses one of them.                                   *)
(***************************************************************************)
EXTENDS MarketStream, Persistence, FiniteSetTheorems, TLAPS

-----------------------------------------------------------------------------
(* The market stream. *)

Connecting == at \in {"tcp", "tls", "ws"}

\* While a stream is being opened none is up and nothing is left of the last one.
FreshWhileConnecting == Connecting => ~connected /\ buffered = <<>>

\* Only a stream that is up is read from.
ReadWhileUp == at = "read" => connected

\* The inductive invariant: the types need that what is subtracted is there.
StreamInv ==
  /\ StreamTypeOK /\ OnlyLostStreamsLeak /\ DrainedBeforeTick
  /\ FreshWhileConnecting /\ ReadWhileUp

\* Where Init's caller goes on is a place of the loop.
LEMMA ReturnPlace ==
  AfterInit \in {"poll", "keys"} /\ AfterFailedInit \in {"stopped", "poll", "keys"}
BY DEF AfterInit, AfterFailedInit

\* Reading goes on only while something is decrypted.
LEMMA BurstEnd ==
  ASSUME buffered \in Seq(Frames), buffered # <<>>
  PROVE  /\ AfterTrade \in {"read", "keys"}
         /\ AfterTrade = "keys" => Tail(buffered) = <<>>
         /\ Tail(buffered) \in Seq(Frames)
BY DEF AfterTrade

LEMMA StreamStarts == StreamInit => StreamInv
<1> SUFFICES ASSUME StreamInit PROVE StreamInv
  OBVIOUS
<1>1. FlagsOK
  BY DEF StreamInit, FlagsOK
<1>2. StreamTypeOK
  BY <1>1, StreamAssumption DEF StreamInit, StreamTypeOK
<1>3. ~connected /\ at = "tcp" /\ contexts = 0 /\ sockets = 0 /\ lost = 0
  BY DEF StreamInit
<1>4. OnlyLostStreamsLeak
  BY <1>3 DEF OnlyLostStreamsLeak
<1> QED
  BY <1>2, <1>4
     DEF StreamInit, StreamInv, DrainedBeforeTick, FreshWhileConnecting, Connecting,
         ReadWhileUp

\* The flags stay Boolean: every action keeps them or assigns a truth value.
LEMMA FlagsStep == FlagsOK /\ [StreamNext]_streamVars => FlagsOK'
<1> SUFFICES ASSUME FlagsOK, [StreamNext]_streamVars PROVE FlagsOK'
  OBVIOUS
<1> USE DEF FlagsOK, linkVars, dataVars, loopVars
<1>1. CASE Handshake
  BY <1>1, Zenon DEF Handshake, TcpConnect, TlsSetup, WsHandshake
<1>2. CASE Reading
  BY <1>2, Zenon DEF Reading, Decrypt, ReadTrade, SkipFrame, LoseStream
<1>3. CASE Reconnect \/ Poll \/ EngineTick \/ Cleanup
  BY <1>3, Zenon DEF Reconnect, Poll, EngineTick, Cleanup
<1>4. CASE StreamKeys
  BY <1>4, Zenon DEF StreamKeys
<1>5. CASE Session
  BY <1>5, Zenon DEF Session
<1>6. CASE Environment
  BY <1>6, Zenon DEF Environment, SessionClock, AskToQuit, Send
<1>7. CASE UNCHANGED streamVars
  BY <1>7, Zenon DEF streamVars
<1> QED
  BY <1>1, <1>2, <1>3, <1>4, <1>5, <1>6, <1>7 DEF StreamNext, Engine, Stopped

\* Every step keeps the invariant: the handshake and Reconnect move the counts,
\* reading moves the frames.
LEMMA StreamSteps == StreamInv /\ [StreamNext]_streamVars => StreamInv'
<1> SUFFICES ASSUME StreamInv, [StreamNext]_streamVars PROVE StreamInv'
  OBVIOUS
<1>0. FlagsOK'
  BY FlagsStep DEF StreamInv, StreamTypeOK
<1> USE <1>0, StreamAssumption
    DEF StreamInv, StreamTypeOK, OnlyLostStreamsLeak, DrainedBeforeTick,
        FreshWhileConnecting, Connecting, ReadWhileUp, linkVars, dataVars,
        loopVars
<1>1. CASE TcpConnect
  BY <1>1, ReturnPlace DEF TcpConnect
<1>2. CASE TlsSetup
  BY <1>2, ReturnPlace DEF TlsSetup
<1>3. CASE WsHandshake
  BY <1>3, ReturnPlace DEF WsHandshake
<1>4. CASE Reconnect
  BY <1>4 DEF Reconnect
<1>5. CASE Poll
  BY <1>5 DEF Poll
<1>6. CASE Decrypt
  BY <1>6 DEF Decrypt
<1>7. CASE ReadTrade
  BY <1>7, BurstEnd DEF ReadTrade
<1>8. CASE SkipFrame
  BY <1>8, BurstEnd DEF SkipFrame
<1>9. CASE LoseStream
  BY <1>9, BurstEnd DEF LoseStream
<1>10. CASE StreamKeys
  BY <1>10 DEF StreamKeys
<1>11. CASE Session
  BY <1>11 DEF Session
<1>12. CASE EngineTick
  BY <1>12 DEF EngineTick
<1>13. CASE Cleanup
  BY <1>13 DEF Cleanup
<1>14. CASE SessionClock
  BY <1>14 DEF SessionClock
<1>15. CASE AskToQuit
  BY <1>15 DEF AskToQuit
<1>16. ASSUME NEW r \in Records, Send(r) PROVE StreamInv'
  BY <1>16 DEF Send
<1>17. CASE UNCHANGED streamVars
  BY <1>17 DEF streamVars
<1> QED
  BY <1>1, <1>2, <1>3, <1>4, <1>5, <1>6, <1>7, <1>8, <1>9, <1>10, <1>11, <1>12,
     <1>13, <1>14, <1>15, <1>16, <1>17
     DEF StreamNext, Engine, Handshake, Reading, Environment, Stopped

\* The invariant of the stream holds in every reachable state.
THEOREM StreamInvariant == StreamSpec => []StreamInv
BY StreamStarts, StreamSteps, PTL DEF StreamSpec

\* Every reachable state of the stream is well typed; in particular no count of
\* sockets or contexts falls below zero or passes the process's limit.
THEOREM StreamTypeCorrect == StreamSpec => []StreamTypeOK
<1>1. StreamInv => StreamTypeOK BY DEF StreamInv
<1> QED BY <1>1, StreamInvariant, PTL

\* No failed layer and no planned reconnect leaves a socket or a context open.
THEOREM LeaksAreLostStreams == StreamSpec => []OnlyLostStreamsLeak
<1>1. StreamInv => OnlyLostStreamsLeak BY DEF StreamInv
<1> QED BY <1>1, StreamInvariant, PTL

\* The engine tick sees the last trade of a burst.
THEOREM AlwaysDrainedBeforeTick == StreamSpec => []DrainedBeforeTick
<1>1. StreamInv => DrainedBeforeTick BY DEF StreamInv
<1> QED BY <1>1, StreamInvariant, PTL

-----------------------------------------------------------------------------
(* The books and their snapshot. *)

\* What HeldIsPaid and OnlyStrandedMissing say of the memory holds of the file.
FileIsPaid ==
  /\ file.open \subseteq file.spent \ file.booked
  /\ file.spent \subseteq file.open \cup file.booked \cup stranded

\* Between fopen and fflush what waits is already counted as stranded.
SavingStrands == pc = "saving" => pending \subseteq stranded

\* No lot is bought twice.
BoughtOnce ==
  spent \subseteq bought /\ booked \subseteq spent
  /\ file.spent \subseteq bought /\ file.booked \subseteq file.spent

\* At the slow path's snapshot no exit waits; when the process has stopped the
\* file is what it was saved from.
SavedWhole ==
  /\ pc \in {"slow_path", "snapshot"} => pending = {}
  /\ pc = "stopped" => file = Saved

BooksInv ==
  /\ TypeOK /\ HeldIsPaid /\ OnlyStrandedMissing
  /\ FileIsPaid /\ SavingStrands /\ BoughtOnce /\ SavedWhole

\* Removing keeps what fits; adding needs room.
LEMMA RemoveFits ==
  ASSUME NEW S, NEW n \in Nat, NEW l, Fits(S, n)
  PROVE  Fits(S \ {l}, n)
<1>1. IsFiniteSet(S \ {l}) /\ Cardinality(S \ {l}) <= Cardinality(S)
  BY FS_Subset DEF Fits
<1>2. Cardinality(S) \in Nat /\ Cardinality(S \ {l}) \in Nat
  BY <1>1, FS_CardinalityType DEF Fits
<1> QED
  BY <1>1, <1>2 DEF Fits

LEMMA AddFits ==
  ASSUME NEW S, NEW n \in Nat, NEW l, Fits(S, n), Cardinality(S) < n
  PROVE  Fits(S \cup {l}, n)
<1>1. IsFiniteSet(S \cup {l})
      /\ (Cardinality(S \cup {l}) = Cardinality(S)
          \/ Cardinality(S \cup {l}) = Cardinality(S) + 1)
  BY FS_AddElement DEF Fits
<1>2. Cardinality(S) \in Nat
  BY FS_CardinalityType DEF Fits
<1> QED
  BY <1>1, <1>2 DEF Fits

LEMMA EmptyFits == ASSUME NEW n \in Nat PROVE Fits({}, n)
BY FS_EmptySet DEF Fits

\* The record of the file's books, field by field.
LEMMA SavedFields ==
  /\ Saved.open = open /\ Saved.spent = spent /\ Saved.booked = booked
  /\ Fresh.open = {} /\ Fresh.spent = {} /\ Fresh.booked = {}
BY DEF Saved, Fresh

LEMMA BooksInit == Init => BooksInv
<1> SUFFICES ASSUME Init PROVE BooksInv
  OBVIOUS
<1>1. Fits(open, NSlots) /\ Fits(file.open, NSlots) /\ Fits(pending, BufCap)
  BY EmptyFits, SavedFields, PersistenceAssumption DEF Init
<1>2. Fresh \in SavedBooks
  BY DEF Fresh, SavedBooks
<1>3. TypeOK
  BY <1>1, <1>2 DEF Init, TypeOK
<1> QED
  BY <1>3, SavedFields
     DEF Init, BooksInv, HeldIsPaid, OnlyStrandedMissing, FileIsPaid,
         SavingStrands, BoughtOnce, SavedWhole

\* What the steps that leave books and file alone have in common.
LEMMA QuietStep ==
  ASSUME BooksInv, UNCHANGED <<books, file, bought, stranded>>,
         pc' # "saving", pc' # "stopped",
         pc' \in {"slow_path", "snapshot"} => pending = {}
  PROVE  /\ HeldIsPaid' /\ OnlyStrandedMissing' /\ FileIsPaid'
         /\ SavingStrands' /\ BoughtOnce' /\ SavedWhole'
BY DEF BooksInv, HeldIsPaid, OnlyStrandedMissing, FileIsPaid, SavingStrands,
       BoughtOnce, SavedWhole, books

\* Opening the file leaves the books alone and forgets the old snapshot.
LEMMA SaveStep ==
  ASSUME BooksInv, NEW then \in {"loop", "keys", "close", "stopped"}, Save(then),
         UNCHANGED <<state, books, control, bought>>
  PROVE  BooksInv'
<1>1. Fresh \in SavedBooks /\ Fits(Fresh.open, NSlots)
  BY EmptyFits, SavedFields, PersistenceAssumption DEF Fresh, SavedBooks
<1>2. TypeOK'
  BY <1>1 DEF BooksInv, TypeOK, Save, books, control
<1>3. HeldIsPaid' /\ OnlyStrandedMissing' /\ SavingStrands' /\ SavedWhole'
  BY DEF BooksInv, HeldIsPaid, OnlyStrandedMissing, SavingStrands, SavedWhole,
         TypeOK, Save, books
<1>4. FileIsPaid' /\ BoughtOnce'
  BY SavedFields DEF BooksInv, FileIsPaid, BoughtOnce, Save, books
<1> QED
  BY <1>2, <1>3, <1>4 DEF BooksInv

LEMMA BooksStep == BooksInv /\ [Next]_vars => BooksInv'
<1> SUFFICES ASSUME BooksInv, [Next]_vars PROVE BooksInv'
  OBVIOUS
<1> USE DEF books, control
<1>0. TypeOK
  BY DEF BooksInv
<1>1. ASSUME NEW l \in Lots, ExitGate(l) PROVE BooksInv'
  <2>1. Fits(open', NSlots)
    BY <1>0, <1>1, RemoveFits, PersistenceAssumption DEF ExitGate, TypeOK
  <2>2. Fits(pending', BufCap)
    BY <1>0, <1>1, AddFits, PersistenceAssumption DEF ExitGate, TypeOK
  <2>3. TypeOK'
    BY <1>0, <1>1, <2>1, <2>2 DEF ExitGate, TypeOK
  <2> QED
    BY <1>1, <2>3 DEF ExitGate, BooksInv, HeldIsPaid, OnlyStrandedMissing,
       FileIsPaid, SavingStrands, BoughtOnce, SavedWhole
<1>2. ASSUME NEW l \in Lots, ForceClose(l) \/ TimeExit(l) PROVE BooksInv'
  <2>0. open' = open \ {l}
    BY <1>2 DEF ForceClose, TimeExit
  <2>1. Fits(open', NSlots)
    BY <1>0, <2>0, RemoveFits, PersistenceAssumption DEF TypeOK
  <2>2. TypeOK'
    BY <1>0, <1>2, <2>1 DEF ForceClose, TimeExit, TypeOK
  <2> QED
    BY <1>2, <2>2 DEF ForceClose, TimeExit, BooksInv, HeldIsPaid,
       OnlyStrandedMissing, FileIsPaid, SavingStrands, BoughtOnce, SavedWhole
<1>3. ASSUME NEW l \in Lots, Buy(l) PROVE BooksInv'
  <2>1. Fits(open', NSlots)
    BY <1>0, <1>3, AddFits, PersistenceAssumption DEF Buy, TypeOK
  <2>2. TypeOK'
    BY <1>0, <1>3, <2>1 DEF Buy, TypeOK
  <2> QED
    BY <1>3, <2>2 DEF Buy, BooksInv, HeldIsPaid, OnlyStrandedMissing,
       FileIsPaid, SavingStrands, BoughtOnce, SavedWhole
<1>4. CASE NewSession
  <2>1. Fits(open', NSlots) /\ Fits(pending', BufCap)
    BY <1>4, EmptyFits, PersistenceAssumption DEF NewSession
  <2>2. TypeOK'
    BY <1>0, <1>4, <2>1 DEF NewSession, TypeOK
  <2> QED
    BY <1>4, <2>2 DEF NewSession, BooksInv, HeldIsPaid, OnlyStrandedMissing,
       FileIsPaid, SavingStrands, BoughtOnce, SavedWhole
<1>5. CASE WarmupTick \/ SlowPath
  <2>1. Fits(pending', BufCap)
    BY <1>5, EmptyFits, PersistenceAssumption DEF WarmupTick, SlowPath
  <2>2. TypeOK'
    BY <1>0, <1>5, <2>1 DEF WarmupTick, SlowPath, TypeOK
  <2> QED
    BY <1>5, <2>2 DEF WarmupTick, SlowPath, BooksInv, HeldIsPaid,
       OnlyStrandedMissing, FileIsPaid, SavingStrands, BoughtOnce, SavedWhole
<1>6. CASE StreamLost
  BY <1>6, SaveStep DEF StreamLost
<1>7. CASE SessionEnds
  BY <1>7, SaveStep DEF SessionEnds
<1>8. CASE Snapshot
  BY <1>8, SaveStep DEF Snapshot
<1>9. CASE Shutdown
  BY <1>9, SaveStep DEF Shutdown
<1>10. CASE Flush
  <2>1. Saved \in SavedBooks
    BY <1>0 DEF Saved, SavedBooks, TypeOK
  <2>2. TypeOK'
    BY <1>0, <1>10, <2>1, SavedFields DEF Flush, TypeOK
  <2>3. pc' \notin {"saving", "slow_path", "snapshot"} /\ Saved' = Saved
    BY <1>0, <1>10 DEF Flush, TypeOK, Saved
  <2> QED
    BY <1>10, <2>2, <2>3, SavedFields DEF Flush, BooksInv, HeldIsPaid,
       OnlyStrandedMissing, FileIsPaid, SavingStrands, BoughtOnce, SavedWhole
<1>11. CASE ReadDone \/ Keys \/ SessionGoesOn \/ Closed
  <2>1. TypeOK'
    BY <1>0, <1>11 DEF ReadDone, Keys, SessionGoesOn, Closed, TypeOK
  <2> QED
    BY <1>11, <2>1, QuietStep DEF ReadDone, Keys, SessionGoesOn, Closed, BooksInv
<1>12. CASE GateDone \/ TickDone \/ SlowPathDone \/ Crash
  <2>1. TypeOK'
    BY <1>0, <1>12 DEF GateDone, TickDone, SlowPathDone, Crash, TypeOK
  <2>2. pc = "slow_path" => pending = {}
    BY DEF BooksInv, SavedWhole
  <2> QED
    BY <1>12, <2>1, <2>2, QuietStep
       DEF GateDone, TickDone, SlowPathDone, Crash, BooksInv
<1>13. CASE PressQuit
  <2>1. TypeOK'
    BY <1>0, <1>13 DEF PressQuit, TypeOK
  <2> QED
    BY <1>13, <2>1 DEF PressQuit, BooksInv, HeldIsPaid, OnlyStrandedMissing,
       FileIsPaid, SavingStrands, BoughtOnce, SavedWhole, Saved
<1>14. CASE Restart
  <2>1. Fits(open', NSlots) /\ Fits(pending', BufCap)
    BY <1>0, <1>14, EmptyFits, PersistenceAssumption DEF Restart, TypeOK
  <2>2. TypeOK'
    <3>1. file.open \subseteq Lots /\ file.spent \subseteq Lots
          /\ file.booked \subseteq Lots
      BY <1>0 DEF TypeOK, SavedBooks
    <3>2. starts' \in Nat
      BY <1>0, <1>14 DEF Restart, TypeOK
    <3> QED
      BY <1>0, <1>14, <2>1, <3>1, <3>2 DEF Restart, TypeOK
  <2> QED
    BY <1>14, <2>2 DEF Restart, BooksInv, HeldIsPaid, OnlyStrandedMissing,
       FileIsPaid, SavingStrands, BoughtOnce, SavedWhole
<1>15. CASE UNCHANGED vars
  BY <1>15 DEF vars, BooksInv, TypeOK, HeldIsPaid, OnlyStrandedMissing, FileIsPaid,
     SavingStrands, BoughtOnce, SavedWhole, Saved
<1> QED
  BY <1>1, <1>2, <1>3, <1>4, <1>5, <1>6, <1>7, <1>8, <1>9, <1>10, <1>11, <1>12,
     <1>13, <1>14, <1>15
     DEF Next, Trading, Loop, Tick, Saving, Down

\* The invariant of the books holds in every reachable state.
THEOREM BooksInvariant == Spec => []BooksInv
BY BooksInit, BooksStep, PTL DEF Spec

\* The books are well typed, and no portfolio, restored ones included, outgrows
\* its slots, nor the exit buffer its records.
THEOREM BooksTypeCorrect == Spec => []TypeOK
<1>1. BooksInv => TypeOK BY DEF BooksInv
<1> QED BY <1>1, BooksInvariant, PTL

\* Whatever crashes and restarts, what is held has been paid for and not paid out.
THEOREM HeldIsAlwaysPaid == Spec => []HeldIsPaid
<1>1. BooksInv => HeldIsPaid BY DEF BooksInv
<1> QED BY <1>1, BooksInvariant, PTL

\* The only money the books lose is that of exits a snapshot left out.
THEOREM OnlyStrandedGoMissing == Spec => []OnlyStrandedMissing
<1>1. BooksInv => OnlyStrandedMissing BY DEF BooksInv
<1> QED BY <1>1, BooksInvariant, PTL

\* Only the slow path's snapshot itself runs there, and then nothing waits.
THEOREM SlowPathAlwaysSavesAll == Spec => SlowPathSavesAll
<1>1. BooksInv /\ [Next]_vars => [pc = "snapshot" => stranded' = stranded]_vars
  <2> SUFFICES ASSUME BooksInv, [Next]_vars, pc = "snapshot"
               PROVE  stranded' = stranded
    OBVIOUS
  <2>1. pending = {}
    BY DEF BooksInv, SavedWhole
  <2> QED
    BY <2>1 DEF Next, vars, Trading, ExitGate, ForceClose, Buy, TimeExit, Loop,
       StreamLost, ReadDone, Keys, SessionGoesOn, SessionEnds, Closed, NewSession,
       Tick, GateDone, WarmupTick, TickDone, SlowPath, SlowPathDone, Saving,
       Snapshot, Shutdown, Flush, Save, PressQuit, Crash, Restart, Down
<1> QED
  BY <1>1, BooksInvariant, PTL DEF Spec, SlowPathSavesAll

\* A restart after quitting finds what the engine had when it stopped.
THEOREM QuitAlwaysResumes == Spec => QuitResumes
<1>1. BooksInv /\ [Next]_vars
      => [Restart /\ pc = "stopped" =>
            open' = open /\ spent' = spent /\ booked' = booked]_vars
  BY SavedFields DEF BooksInv, SavedWhole, Restart
<1> QED
  BY <1>1, BooksInvariant, PTL DEF Spec, QuitResumes
=============================================================================
