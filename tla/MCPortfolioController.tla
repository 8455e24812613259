---------------------- MODULE MCPortfolioController ------------------------
(* Small instances of PortfolioController for TLC. *)
EXTENDS PortfolioController

\* A restart with no position, or with one that leaves the first slot free.
MCRestored == {{}, {1}}

\* Counters all zero: right for a first start, one purchase too few for a position
\* restored from an old file.
MCNoStats == {[total_buys |-> 0, wins |-> 0, losses |-> 0]}

\* Counters that fit one open position, and leave one exit unbooked when the file
\* was written with none open.
MCRestoredStats == MCNoStats \cup {[total_buys |-> 3, wins |-> 1, losses |-> 1]}

\* Two positions with the time exit, or one position without it.
MCConfigs == {[max_positions |-> 2, poll_interval |-> 2, max_hold_ticks |-> 1],
              [max_positions |-> 1, poll_interval |-> 2, max_hold_ticks |-> 0]}
=============================================================================
