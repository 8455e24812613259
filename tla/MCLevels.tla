----------------------------- MODULE MCLevels ------------------------------
(* A small instance of Levels for TLC. *)
EXTENDS Levels

\* Wide and narrow multiples, with trailing and without.
MCConfigs ==
  {[take_profit |-> 1, stop_loss |-> 1, momentum_tp |-> 3, momentum_sl |-> 1,
    tp_trail |-> 2, fee_floor |-> 3, sl_tp_ratio |-> 50,
    trailing |-> TRUE],
   [take_profit |-> 2, stop_loss |-> 3, momentum_tp |-> 2, momentum_sl |-> 2,
    tp_trail |-> 1, fee_floor |-> 4, sl_tp_ratio |-> 100,
    trailing |-> TRUE]}
=============================================================================
