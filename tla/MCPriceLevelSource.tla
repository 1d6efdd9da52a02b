------------------------- MODULE MCPriceLevelSource -------------------------
(* Model checking of PriceLevelSource. *)
EXTENDS PriceLevelSource

\* Asks at three prices, a bid and an order of no side.  With whole numbers exact
\* up to 8, three asks of 5 add up to 16 and leave 2 when they are gone.
MCOrders == {[side |-> "sell", price |-> p, size |-> IF p = 2 THEN 5 ELSE 1] : p \in 1..3}
              \cup {[side |-> d, price |-> 1, size |-> 1] : d \in {"buy", "undefined"}}

\* Bounds: one order at a time is no ask.  Three orders at a time are of one price
\* while a rounding or an order of undefined side has spoilt the asks, and there
\* are two, at two prices, once there was a bid.
Bounded ==
  LET given  == {i \in Indices : orders[i] # NoOrder}
      prices == {orders[i].price : i \in given}
  IN  /\ Cardinality({i \in given : orders[i].side # "sell"}) <= 1
      /\ side["sell"].vague => Cardinality(given) <= 2 \/ Cardinality(prices) = 1
      /\ side["buy"].updated => Cardinality(given) <= 2 /\ 3 \notin prices
=============================================================================
