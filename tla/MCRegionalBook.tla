--------------------------- MODULE MCRegionalBook ---------------------------
(* Model checking of RegionalBook. *)
EXTENDS RegionalBook

Of(exchange, price, size) == [exchange |-> exchange, price |-> price, size |-> size]

\* Bids of three exchanges at three prices, one of them 0, an ask of the first;
\* the first exchange withdraws its offers, and one quote is of no exchange.
MCBids == {Of(r, p, 1) : r \in 1..3, p \in 0..2} \cup {Of(1, NaN, 1)}
MCAsks == {Of(1, 1, 1), Of(1, 1, 0)}
NoBid  == Of(0, 1, 1)
NoAsk  == Of(0, 0, 0)
MCQuotes == {[bid |-> b, ask |-> NoAsk] : b \in MCBids} \cup {[bid |-> NoBid, ask |-> a] : a \in MCAsks}
=============================================================================
