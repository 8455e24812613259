------------------------------ MODULE MCBooks -------------------------------
(* A small instance of Books for TLC. *)
EXTENDS Books

\* Two prices a unit apart: with a fee of one per cent a sale at the higher one
\* just loses, so profits and losses of either reason occur.
MCPrices == {20, 21}
=============================================================================
