-------------------------- MODULE MCPriceLevelBook --------------------------
(* Model checking of PriceLevelBook. *)
EXTENDS PriceLevelBook

Of(price) == [price |-> price, size |-> 1]

\* Bids at three prices for a book of two levels, asks at one.
MCLevelsOf ==
  [buy  |-> {<<>>} \cup {<<Of(p)>> : p \in 1..3} \cup {<<Of(2), Of(1)>>, <<Of(3), Of(1)>>, <<Of(3), Of(2)>>},
   sell |-> {<<>>, <<Of(2)>>}]
=============================================================================
