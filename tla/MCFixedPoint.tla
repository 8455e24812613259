---------------------------- MODULE MCFixedPoint ----------------------------
(***************************************************************************)
(* A small instance of FPN: two words of four bits, which leave room for   *)
(* decimal digits, with operands at the boundaries.                        *)
(***************************************************************************)
EXTENDS FixedPoint

Number(m, s) == [w |-> [i \in 0 .. N - 1 |-> (m \div Powers[i]) % B], neg |-> s]

Numbers(ms) ==
  {Number(m, FALSE) : m \in ms} \cup {Number(m, TRUE) : m \in ms \ {0}}

TwoWordOperands == Numbers({0, 1, 24, 128, 255})
TwoWordEnds     == Numbers({0, 16})
=============================================================================
