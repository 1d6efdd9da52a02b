---------------------------- MODULE RegionalBook ----------------------------
(***************************************************************************)
(* A regional book (RegionalBook.c): the last quote of each exchange, and  *)
(* price levels merged from them at each event.  The reader thread runs    *)
(* rb_event_listener in steps: the listeners of quotes are called, the     *)
(* book is brought up to date without its guard, and the listeners of the  *)
(* book are called if a level has changed.  Between these steps an         *)
(* application thread attaches and detaches listeners.  There is one such  *)
(* thread: two of them, which search the array before they lock it, would  *)
(* invalidate each other's place in it.                                    *)
(*                                                                         *)
(* All quotes carry the same time, so a level is a price and a size.       *)
(***************************************************************************)
EXTENDS Integers, Sequences, FiniteSets, SequencesExt

CONSTANTS Regions,     \* how many exchanges: dx_all_regional_count
          Quotes,      \* what the server may send
          MaxLevels,   \* MAX_PRICE_LEVELS
          Top,         \* 1.0E38, above every price
          QuoteListeners, BookListeners,   \* of version dx_rblv_v2 and dx_rblv_default
          NaN, None

Listeners == QuoteListeners \cup BookListeners
Sides     == {"bid", "ask"}
Level     == [price : Int \cup {NaN}, size : Nat]

ASSUME RegionalAssumption ==
  /\ Regions \in Nat /\ MaxLevels \in Nat \ {0} /\ Top \in Int
  /\ NaN \notin Int
  /\ QuoteListeners \cap BookListeners = {}
  \* A quote is of an exchange 1..Regions ('A' to 'Z'), or of another one.
  /\ Quotes \subseteq [Sides -> [exchange : Int, price : Int \cup {NaN}, size : Nat]]

VARIABLES regions,    \* book->regions, of each side
          book,       \* book->book: the array and the count of each side
          listeners,  \* book->listeners
          reader,     \* where the reader thread is
          quote,      \* the event it handles, or the last one
          changed,    \* whether a level has changed
          told,       \* history: what a listener was last called with, since it was attached
          closed      \* the book was freed

vars == <<regions, book, listeners, reader, quote, changed, told, closed>>

TypeOK ==
  /\ regions \in [Sides -> [1..Regions -> Level]]
  /\ \A d \in Sides : book[d].cells \in [1..MaxLevels -> Level] /\ book[d].count \in 0..MaxLevels
  /\ listeners \in Seq(Listeners)
  /\ reader \in {"idle", "quote", "update", "book"}
  /\ quote \in Quotes \cup {None}
  /\ changed \in BOOLEAN /\ closed \in BOOLEAN

\* dx_create_regional_book: everything is zero.
Zero == [price |-> 0, size |-> 0]
Init ==
  /\ regions = [d \in Sides |-> [r \in 1..Regions |-> Zero]]
  /\ book = [d \in Sides |-> [cells |-> [i \in 1..MaxLevels |-> Zero], count |-> 0]]
  /\ listeners = <<>> /\ reader = "idle" /\ quote = None /\ changed = FALSE
  /\ told = [l \in Listeners |-> None] /\ closed = FALSE

-----------------------------------------------------------------------------
Better(d, p, q) == IF d = "bid" THEN p > q ELSE p < q
Start(d) == IF d = "bid" THEN 0 ELSE Top
Void(level) == level.size = 0 \/ level.price = NaN

\* Mutant of Visit: a region that is not better takes the level, too.
VisitLast(d, rs, s, r) ==
  LET level == rs[r]
  IN IF r \in s.used THEN s
     ELSE IF Void(level) THEN [s EXCEPT !.used = @ \cup {r}]
     ELSE IF level.price = s.best.price
          THEN [best |-> [s.best EXCEPT !.size = @ + level.size], used |-> s.used \cup {r}]
     ELSE [best |-> level, used |-> s.used \cup {r}]

\* A region in the search for the next level: one with the best price so far
\* adds its size to the level, a better one takes its place, and both are used,
\* even if a still better one follows.
Visit(d, rs, s, r) ==
  LET level == rs[r]
  IN IF r \in s.used THEN s
     ELSE IF Void(level) THEN [s EXCEPT !.used = @ \cup {r}]
     ELSE IF level.price = s.best.price
          THEN [best |-> [s.best EXCEPT !.size = @ + level.size], used |-> s.used \cup {r}]
     ELSE IF Better(d, level.price, s.best.price) THEN [best |-> level, used |-> s.used \cup {r}]
     ELSE s

\* The search for a level when the regions used are taken: what is found in the
\* first r regions.
Search(d, rs, used) ==
  LET s[r \in 0..Regions] ==
        IF r = 0 THEN [best |-> [price |-> Start(d), size |-> 0], used |-> used]
        ELSE Visit(d, rs, s[r - 1], r)
  IN s

\* Mutant of NextLevel: the regions used are looked at again.
NextLevelAnew(d, rs, used) == Search(d, rs, {})[Regions]

NextLevel(d, rs, used) == Search(d, rs, used)[Regions]

\* A round of dx_rb_book_update_one_side: no region is left, or a level more.
Round(d, rs, s) ==
  LET n == NextLevel(d, rs, s.used)
  IN IF s.ended \/ n.best.size = 0 THEN [s EXCEPT !.ended = TRUE]
     ELSE [s EXCEPT !.levels = Append(@, n.best), !.used = n.used]

\* The state after each round, and the levels after the last one.
Rounds(d, rs) ==
  LET s[i \in 0..MaxLevels] == IF i = 0 THEN [levels |-> <<>>, used |-> {}, ended |-> FALSE]
                               ELSE Round(d, rs, s[i - 1])
  IN s
Levels(d, rs) == Rounds(d, rs)[MaxLevels].levels

\* The array keeps what stood behind its last level.
UpdateSide(d, levels) ==
  [cells |-> [i \in 1..MaxLevels |-> IF i <= Len(levels) THEN levels[i] ELSE book[d].cells[i]],
   count |-> Len(levels)]

\* The regions of a side after a quote; another exchange changes none.
UpdateRegions(d, q) ==
  [r \in 1..Regions |-> IF r = q.exchange THEN [price |-> q.price, size |-> q.size] ELSE regions[d][r]]

\* What a listener sees of the book.
Shown(d) == SubSeq(book[d].cells, 1, book[d].count)
ShownBook == [d \in Sides |-> Shown(d)]

Called(ls, what) == [l \in Listeners |-> IF l \in ToSet(listeners) \cap ls THEN what ELSE told[l]]

-----------------------------------------------------------------------------
\* rb_event_listener
Event ==
  /\ reader = "idle" /\ ~closed
  /\ quote' \in Quotes
  /\ reader' = "quote"
  /\ UNCHANGED <<regions, book, listeners, changed, told, closed>>

\* notify_regional_listeners
NotifyQuote ==
  /\ reader = "quote"
  /\ told' = Called(QuoteListeners, quote)
  /\ reader' = "update"
  /\ UNCHANGED <<regions, book, listeners, quote, changed, closed>>

\* Mutant of Update: the asks decide whether the book has changed.
UpdateForgetsBids ==
  /\ reader = "update"
  /\ regions' = [d \in Sides |-> UpdateRegions(d, quote[d])]
  /\ book' = [d \in Sides |-> UpdateSide(d, Levels(d, regions'[d]))]
  /\ changed' = (book'["ask"].cells # book["ask"].cells)
  /\ reader' = IF changed' THEN "book" ELSE "idle"
  /\ UNCHANGED <<listeners, quote, told, closed>>

\* Mutant of Update: the listeners are called at each event.
UpdateAlwaysTold ==
  /\ reader = "update"
  /\ regions' = [d \in Sides |-> UpdateRegions(d, quote[d])]
  /\ book' = [d \in Sides |-> UpdateSide(d, Levels(d, regions'[d]))]
  /\ changed' = TRUE
  /\ reader' = IF changed' THEN "book" ELSE "idle"
  /\ UNCHANGED <<listeners, quote, told, closed>>

\* dx_rb_book_update: changed says whether a cell was written, not whether the
\* count is another one.
Update ==
  /\ reader = "update"
  /\ regions' = [d \in Sides |-> UpdateRegions(d, quote[d])]
  /\ book' = [d \in Sides |-> UpdateSide(d, Levels(d, regions'[d]))]
  /\ changed' = \E d \in Sides : book'[d].cells # book[d].cells
  /\ reader' = IF changed' THEN "book" ELSE "idle"
  /\ UNCHANGED <<listeners, quote, told, closed>>

NotifyBook ==
  /\ reader = "book"
  /\ told' = Called(BookListeners, ShownBook)
  /\ reader' = "idle"
  /\ UNCHANGED <<regions, book, listeners, quote, changed, closed>>

\* dx_add_regional_book_listener_impl: a second time only the user data changes.
Attach(l) ==
  /\ ~closed
  /\ listeners' = IF l \in ToSet(listeners) THEN listeners ELSE Append(listeners, l)
  /\ UNCHANGED <<regions, book, reader, quote, changed, told, closed>>

\* dx_remove_regional_book_listener_impl: nothing happens if it is not found.
Detach(l) ==
  /\ ~closed
  /\ \E i \in DOMAIN listeners : listeners[i] = l /\ listeners' = RemoveAt(listeners, i)
  /\ told' = [told EXCEPT ![l] = None]
  /\ UNCHANGED <<regions, book, reader, quote, changed, closed>>

\* dx_rb_book_clear: the subscription's lock keeps it until the event is handled.
Close ==
  /\ reader = "idle" /\ ~closed
  /\ closed' = TRUE
  /\ UNCHANGED <<regions, book, listeners, reader, quote, changed, told>>

Reader == Event \/ NotifyQuote \/ Update \/ NotifyBook
Application == Close \/ \E l \in Listeners : Attach(l) \/ Detach(l)
Next == Reader \/ Application

Spec == Init /\ [][Next]_vars

-----------------------------------------------------------------------------
\* Reference: the prices that the exchanges offer, and the size at each.
Offers(rs) == {r \in 1..Regions : ~Void(rs[r])}
Prices(rs) == {rs[r].price : r \in Offers(rs)}
SizesTo(rs, p) ==
  LET sum[r \in 0..Regions] ==
        IF r = 0 THEN 0 ELSE sum[r - 1] + (IF r \in Offers(rs) /\ rs[r].price = p THEN rs[r].size ELSE 0)
  IN sum
SizeAt(rs, p) == SizesTo(rs, p)[Regions]

\* The first level of a side is the best price that any exchange offers, with
\* the sizes of all the exchanges that offer it, and there is none only when
\* there is no offer (dx_rb_book_update_one_side).
BestExact ==
  \A d \in Sides :
    IF Prices(regions[d]) = {} THEN book[d].count = 0
    ELSE LET best == CHOOSE p \in Prices(regions[d]) : \A q \in Prices(regions[d]) : p = q \/ Better(d, p, q)
         IN book[d].count > 0 /\ book[d].cells[1] = [price |-> best, size |-> SizeAt(regions[d], best)]

\* The levels are offered prices, best first and each once, none with more than
\* what is offered at it: a region that served one level serves no other.
LevelsSound ==
  \A d \in Sides :
    /\ \A i \in 1..book[d].count :
         LET level == book[d].cells[i]
         IN level.price \in Prices(regions[d]) /\ level.size <= SizeAt(regions[d], level.price)
    /\ \A i, j \in 1..book[d].count : i < j => Better(d, book[d].cells[i].price, book[d].cells[j].price)

\* When no event is being handled, a listener that has been called since it was
\* attached has the last quote, or, where both have a level, the levels of the
\* book: no written level is kept from it, whenever it was attached
\* (notify_regional_listeners, dx_rb_book_update).
ToldLast ==
  reader = "idle" => \A l \in ToSet(listeners) : told[l] # None =>
    IF l \in QuoteListeners THEN told[l] = quote
    ELSE \A d \in Sides : \A i \in 1..book[d].count :
           i <= Len(told[l][d]) => told[l][d][i] = book[d].cells[i]

\* The listeners of the book are called only when what they can see of it is
\* not what it was at the event before (dx_rb_book_update).
CalledOnlyOnChange ==
  [][reader = "update" /\ reader' = "book" => ShownBook' # ShownBook]_vars

\* A listener is called whenever what it can see of the book changes ("This
\* callback will be invoked when price levels created from regional data
\* change.", DXFeed.h:1228).  It does not hold: see README.
ToldOnChange ==
  [][reader = "update" /\ ShownBook' # ShownBook => reader' = "book"]_vars

\* The levels of the book are the best prices of all the exchanges.  It does
\* not hold: see README.
LevelsExact ==
  \A d \in Sides :
    {book[d].cells[i].price : i \in 1..book[d].count}
      = {p \in Prices(regions[d]) : Cardinality({q \in Prices(regions[d]) : Better(d, q, p)}) < MaxLevels}
=============================================================================
