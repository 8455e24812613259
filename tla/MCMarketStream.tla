--------------------------- MODULE MCMarketStream ---------------------------
(* Instances of MarketStream. *)
EXTENDS MarketStream

\* Bursts of one and two trades, control frames before a trade, a record that
\* carries no frame (a TLS session ticket), and every way a stream ends.
MCRecords == {<<"trade">>, <<"trade", "trade">>, <<"ping", "trade">>,
              <<"other">>, <<>>, <<"close">>, <<"trade", "broken">>}
=============================================================================
