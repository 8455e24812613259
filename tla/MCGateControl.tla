--------------------------- MODULE MCGateControl ---------------------------
(* Small instances of GateControl for TLC. *)
EXTENDS GateControl

\* A cooldown of two slow paths with a switch after two detections, and no
\* cooldown with a switch at once.
MCConfigs == {[sl_cooldown_cycles |-> 2, regime_hysteresis |-> 2],
              [sl_cooldown_cycles |-> 0, regime_hysteresis |-> 1]}

MCRegimes == {"RANGING", "TRENDING", "VOLATILE", "TRENDING_DOWN"}
=============================================================================
