-------------------------- MODULE PriceLevelSource --------------------------
(***************************************************************************)
(* A source of price levels (PriceLevelBook.c): the orders of one symbol   *)
(* on one exchange and, kept up to date order by order, the best MaxLevels *)
(* price levels of each side.  Books read the final levels, which change   *)
(* at the end of a transaction.                                            *)
(*                                                                         *)
(* Everything happens in the reader thread inside plb_event_listener, one  *)
(* event a step.  The array of orders, sorted by index, is a function of   *)
(* the index; only the order of indices matters, so they are numbered.     *)
(* All orders carry the same time, so a level is its price and its size.   *)
(*                                                                         *)
(* Sizes are doubles.  In units of the least bit any size needs they are   *)
(* whole numbers, exact up to Precise and rounded beyond: a sum that       *)
(* needs more digits loses the last ones, and taking the orders out of it  *)
(* again can leave a rest.                                                 *)
(***************************************************************************)
EXTENDS Integers, Sequences, FiniteSets

CONSTANTS NumOrders,   \* how many different order->index there are
          Orders,      \* what the server may send, a set of orders
          MaxLevels,   \* MAX_PRICE_LEVELS
          Precise,     \* the whole numbers up to it are doubles, 2^53 in the code
          NoOrder

ASSUME PriceLevelAssumption ==
  /\ NumOrders \in Nat
  /\ Orders \subseteq [side : {"buy", "sell", "undefined"}, price : Int, size : Nat \ {0}]
  /\ MaxLevels \in Nat \ {0} /\ Precise \in Nat \ {0}
  /\ NoOrder \notin Orders

Indices == 1..NumOrders
Sides == {"buy", "sell"}
OnSide(d, o) == o # NoOrder /\ o.side = d

\* The levels an order is counted in: all that is not a bid goes to the asks.
BookSide(o) == IF o.side = "buy" THEN "buy" ELSE "sell"

VARIABLES orders,   \* source->snapshot
          status,   \* source->snapshot_status
          side,     \* source->bids and asks: levels, rebuild, updated; and,
                    \* a history, vague: since they were last built from nothing
                    \* a sum was rounded or an order of no side was counted
          final     \* the levels of source->final_bids and final_asks

vars == <<orders, status, side, final>>

Level == [price : Int, size : Int]

TypeOK ==
  /\ orders \in [Indices -> Orders \cup {NoOrder}]
  /\ status \in {"begin", "full", "pending"}
  /\ \A d \in Sides :
       /\ side[d].levels \in Seq(Level) /\ Len(side[d].levels) <= MaxLevels
       /\ side[d].rebuild \in BOOLEAN /\ side[d].updated \in BOOLEAN
       /\ side[d].vague \in BOOLEAN
       /\ final[d] \in Seq(Level) /\ Len(final[d]) <= MaxLevels

\* dx_plb_source_create: the status is full before any event.
Init ==
  /\ orders = [i \in Indices |-> NoOrder]
  /\ status = "full"
  /\ side = [d \in Sides |-> [levels |-> <<>>, rebuild |-> FALSE, updated |-> FALSE, vague |-> FALSE]]
  /\ final = [d \in Sides |-> <<>>]

-----------------------------------------------------------------------------
\* The distance of two doubles near n: the largest power of two u such that n is
\* more than half of Precise * u.
Units(n) == {u \in {2^k : k \in 0..(n \div Precise)} : u = 1 \/ (u \in 1..n /\ Precise * (u \div 2) < n)}
Unit(n) == CHOOSE u \in Units(n) : \A t \in Units(n) : t <= u

\* A sum of doubles is rounded to the nearest one, to the even one of two.
Nearest(n) ==
  LET u == Unit(n)
      q == n \div u
      r == n % u
  IN u * (IF 2 * r > u \/ (2 * r = u /\ q % 2 = 1) THEN q + 1 ELSE q)
Round(n) == IF n > 0 THEN Nearest(n) ELSE IF n < 0 THEN -Nearest(-n) ELSE 0

\* The comparators of the two sides: bids descend, asks ascend.
Better(d, p, q) == IF d = "buy" THEN p > q ELSE p < q

\* DX_ARRAY_BINARY_SEARCH in a sorted side: the place of a price.
Place(d, levels, price) ==
  Cardinality({i \in 1..Len(levels) : Better(d, levels[i].price, price)}) + 1
Found(levels, price) == \E i \in 1..Len(levels) : levels[i].price = price

\* A new level at pos: dx_memmove shifts the ones behind it, and a full side
\* loses its last.
Insert(levels, pos, level) ==
  [i \in 1..(IF Len(levels) < MaxLevels THEN Len(levels) + 1 ELSE MaxLevels) |->
     IF i < pos THEN levels[i] ELSE IF i = pos THEN level ELSE levels[i - 1]]

\* The size of the level at pos becomes the sum n, rounded, for the order o.
Resize(d, ob, pos, n, o) ==
  [ob EXCEPT !.levels[pos].size = Round(n), !.updated = TRUE,
             !.vague = @ \/ Round(n) # n \/ o.side # d]

\* dx_plb_source_add_order_to_levels: behind the last of a full side there is no
\* place.
AddOrder(d, ob, o) ==
  LET pos == Place(d, ob.levels, o.price)
  IN IF Found(ob.levels, o.price) THEN Resize(d, ob, pos, ob.levels[pos].size + o.size, o)
     ELSE IF pos > MaxLevels THEN ob
     ELSE [ob EXCEPT !.levels = Insert(@, pos, [price |-> o.price, size |-> o.size]),
                     !.updated = TRUE, !.vague = @ \/ o.side # d]

\* Mutant of RemoveOrder: an emptied level does not ask for a rebuild.
RemoveOrderKeeps(d, ob, o) ==
  LET pos == Place(d, ob.levels, o.price)
  IN IF ~Found(ob.levels, o.price) THEN ob
     ELSE Resize(d, ob, pos, ob.levels[pos].size - o.size, o)

\* dx_plb_source_remove_order_from_levels
RemoveOrder(d, ob, o) ==
  LET pos == Place(d, ob.levels, o.price)
      n   == ob.levels[pos].size - o.size
  IN IF ~Found(ob.levels, o.price) THEN ob
     ELSE [Resize(d, ob, pos, n, o) EXCEPT !.rebuild = @ \/ Round(n) <= 0]

\* dx_plb_source_rebuild_levels: all orders of the side, by index.
Rebuild(d, table) ==
  LET ob[i \in 0..NumOrders] ==
        IF i = 0 THEN [levels |-> <<>>, rebuild |-> FALSE, updated |-> TRUE, vague |-> FALSE]
        ELSE IF OnSide(d, table[i]) THEN AddOrder(d, ob[i - 1], table[i]) ELSE ob[i - 1]
  IN ob
RebuildLevels(d, table) == Rebuild(d, table)[NumOrders]

\* dx_plb_source_process_order: an update adds the new order first and then
\* removes the one it replaces, which may be on the other side.  (An order that
\* size 0 has blanked is as good as none: taking it out subtracts 0.)
ProcessOrder(table, sides, i, o) ==
  LET old == table[i]
      added == IF o = NoOrder THEN sides
               ELSE [sides EXCEPT ![BookSide(o)] = AddOrder(BookSide(o), @, o)]
  IN IF old = NoOrder THEN added
     ELSE [added EXCEPT ![BookSide(old)] = RemoveOrder(BookSide(old), @, old)]

\* The transaction state of plb_event_listener.
StatusAfter(sb, se, tx) ==
  LET began == IF sb THEN "begin" ELSE status
      ended == IF se THEN "full" ELSE began
  IN IF tx /\ ended = "full" THEN "pending"
     ELSE IF ~tx /\ ended = "pending" THEN "full" ELSE ended

\* dx_plb_source_reset_snapshot empties the levels; the flags stay.
ResetSides == [d \in Sides |-> [side[d] EXCEPT !.levels = <<>>, !.vague = FALSE]]

\* plb_event_listener for the order with index i; o is NoOrder when the event
\* removes it (the flag, or size 0).  The flag "updated" is never reset.
Event(i, o, sb, se, tx) ==
  LET table  == IF sb THEN [j \in Indices |-> NoOrder] ELSE orders
      sides  == ProcessOrder(table, IF sb THEN ResetSides ELSE side, i, o)
      kept   == IF sb THEN [d \in Sides |-> <<>>] ELSE final
      table2 == [table EXCEPT ![i] = o]
      built  == [d \in Sides |-> IF sides[d].rebuild THEN RebuildLevels(d, table2) ELSE sides[d]]
      ends   == StatusAfter(sb, se, tx) = "full" /\ \E d \in Sides : sides[d].updated
  IN /\ orders' = table2
     /\ status' = StatusAfter(sb, se, tx)
     /\ side'   = IF ends THEN built ELSE sides
     /\ final'  = [d \in Sides |-> IF ends /\ built[d].updated THEN built[d].levels ELSE kept[d]]

Next == \E i \in Indices, o \in Orders \cup {NoOrder},
           sb \in BOOLEAN, se \in BOOLEAN, tx \in BOOLEAN : Event(i, o, sb, se, tx)

Spec == Init /\ [][Next]_vars

-----------------------------------------------------------------------------
\* Reference: the prices on a side, and the total size at a price.
PricesOf(d, table) == {table[i].price : i \in {j \in Indices : OnSide(d, table[j])}}
SizesAt(d, table, p) ==
  [i \in Indices |-> IF OnSide(d, table[i]) /\ table[i].price = p THEN table[i].size ELSE 0]
Sums(f) == LET sum[n \in 0..NumOrders] == IF n = 0 THEN 0 ELSE sum[n - 1] + f[n] IN sum
SizeAt(d, table, p) == Sums(SizesAt(d, table, p))[NumOrders]
BestPrices(d, table) ==
  {p \in PricesOf(d, table) : Cardinality({q \in PricesOf(d, table) : Better(d, q, p)}) < MaxLevels}
IsBest(levels, d, table) ==
  /\ {levels[i].price : i \in 1..Len(levels)} = BestPrices(d, table)
  /\ \A i \in 1..Len(levels) : levels[i].size = SizeAt(d, table, levels[i].price)
  /\ \A i, j \in 1..Len(levels) : i < j => Better(d, levels[i].price, levels[j].price)

\* At the end of a transaction the levels that the source has kept up to date
\* order by order, dropping what does not fit, are the best levels of all its
\* orders: none is lost behind one that was pushed out, none is counted twice,
\* whatever the orders of the transaction did to each other.  Two things in the
\* code can spoil a side, and only they do, until it is next built from nothing:
\* a size that had to be rounded, and an order of undefined side, which is added
\* to the asks and taken from them but left out when they are rebuilt.  Even
\* then the levels are sorted and none is without a size.
FinalLevelsExact ==
  \A d \in Sides :
    /\ status = "full" /\ ~side[d].vague => IsBest(final[d], d, orders)
    /\ \A i \in 1..Len(final[d]) : final[d][i].size > 0
    /\ \A i, j \in 1..Len(final[d]) : i < j => Better(d, final[d][i].price, final[d][j].price)
=============================================================================
