--------------------------- MODULE PriceLevelBook ---------------------------
(***************************************************************************)
(* A price level book (PriceLevelBook.c) over several sources: when a      *)
(* source ends a transaction, the book merges the final levels of all its  *)
(* sources into an array that its listeners are shown.                     *)
(*                                                                         *)
(* What a source does inside a transaction is the subject of               *)
(* PriceLevelSource; here it changes its final levels, in the reader       *)
(* thread, when a snapshot begins (they are emptied) and when a            *)
(* transaction ends.                                                       *)
(***************************************************************************)
EXTENDS Integers, Sequences, FiniteSets

CONSTANTS NumSources,  \* book->sources_count
          LevelsOf,    \* for each side the final levels a source may have
          MaxLevels,   \* MAX_PRICE_LEVELS
          Top          \* 1.0E38

Sources == 1..NumSources
Sides == {"buy", "sell"}
Level == [price : Int, size : Nat]

\* The comparators of the two sides: bids descend, asks ascend.
Better(d, p, q) == IF d = "buy" THEN p > q ELSE p < q

\* A source's levels are sorted, and those without a size are gone at the end of
\* a transaction (PriceLevelSource).
ASSUME BookAssumption ==
  /\ NumSources \in Nat /\ MaxLevels \in Nat \ {0} /\ Top \in Int
  /\ \A d \in Sides : \A levels \in LevelsOf[d] :
       /\ levels \in Seq(Level)
       /\ \A i \in 1..Len(levels) : levels[i].size # 0
       /\ \A i, j \in 1..Len(levels) : i < j => Better(d, levels[i].price, levels[j].price)

VARIABLES final,     \* source->final_bids and final_asks
          inside,    \* the sources inside a snapshot
          updated,   \* for each source the sides that were ever updated
          book,      \* book->bids and asks: the array of levels and its count
          public,    \* book->book: the counts handed to listeners
          called     \* whether the last step called the listeners

vars == <<final, inside, updated, book, public, called>>

TypeOK ==
  /\ \A s \in Sources, d \in Sides : final[s][d] \in LevelsOf[d] \cup {<<>>}
  /\ inside \subseteq Sources /\ updated \in [Sources -> SUBSET Sides]
  /\ \A d \in Sides : book[d].array \in [1..MaxLevels -> Level] /\ book[d].count \in 0..MaxLevels
  /\ public \in [Sides -> 0..MaxLevels] /\ called \in BOOLEAN

\* dx_create_price_level_book, with sources that have no orders yet.
Init ==
  /\ final = [s \in Sources |-> [d \in Sides |-> <<>>]]
  /\ inside = {} /\ updated = [s \in Sources |-> {}]
  /\ book = [d \in Sides |-> [array |-> [i \in 1..MaxLevels |-> [price |-> 0, size |-> 0]],
                              count |-> 0]]
  /\ public = [d \in Sides |-> 0] /\ called = FALSE

-----------------------------------------------------------------------------
\* Where the search for the best level starts.
Start(d) == IF d = "buy" THEN 0 ELSE Top

\* Mutant of Compare: the first source with the best price is used alone.
CompareFirst(d, best, level) == IF Better(d, level.price, best.price) THEN level ELSE best

\* The level of a source next to the best so far.
Compare(d, best, level) ==
  IF level.price = best.price THEN [best EXCEPT !.size = @ + level.size]
  ELSE IF Better(d, level.price, best.price) THEN level ELSE best

\* What a source has still to offer, from its index (sidx) on.
Left(srcs, at, i)   == at[i] < Len(srcs[i])
NextOf(srcs, at, i) == srcs[i][at[i] + 1]

\* The best level among the first sources.
Search(d, srcs, at) ==
  LET best[i \in 0..NumSources] ==
        IF i = 0 THEN [price |-> Start(d), size |-> 0]
        ELSE IF Left(srcs, at, i) THEN Compare(d, best[i - 1], NextOf(srcs, at, i)) ELSE best[i - 1]
  IN best

\* A round of dx_plb_book_update_one_side: all sources are gone, or a level more
\* and all the sources that were used go on.
Round(d, srcs, s) ==
  LET best == Search(d, srcs, s.at)[NumSources]
  IN IF best.size = 0 THEN s
     ELSE [levels |-> Append(s.levels, best),
           at |-> [i \in Sources |->
                     IF Left(srcs, s.at, i) /\ NextOf(srcs, s.at, i).price = best.price
                     THEN s.at[i] + 1 ELSE s.at[i]]]

\* dx_plb_book_update_one_side: a merge of the sources, best price first.
Rounds(d, srcs) ==
  LET s[k \in 0..MaxLevels] == IF k = 0 THEN [levels |-> <<>>, at |-> [i \in Sources |-> 0]]
                               ELSE Round(d, srcs, s[k - 1])
  IN s
Merge(d, srcs) == Rounds(d, srcs)[MaxLevels].levels

\* Mutant of Changed: every merge counts as a change.
ChangedAny(dst, merged) == merged # <<>>

\* ... whose result overwrites the front of the array; only a level that
\* differs from what the array holds at its place counts as a change.
Overwrite(dst, merged) ==
  [array |-> [i \in 1..MaxLevels |-> IF i <= Len(merged) THEN merged[i] ELSE dst.array[i]],
   count |-> Len(merged)]
Changed(dst, merged) == \E i \in 1..Len(merged) : dst.array[i] # merged[i]

\* dx_plb_book_update for the source s.
BookUpdate(s) ==
  LET merged == [d \in updated'[s] |-> Merge(d, [t \in Sources |-> final'[t][d]])]
      changed == \E d \in updated'[s] : Changed(book[d], merged[d])
  IN /\ book' = [d \in Sides |-> IF d \in updated'[s] THEN Overwrite(book[d], merged[d]) ELSE book[d]]
     /\ public' = IF changed THEN [d \in Sides |-> book'[d].count] ELSE public
     /\ called' = changed

\* A snapshot begins: dx_plb_source_reset_snapshot empties the final levels.
BeginSnapshot(s) ==
  /\ final' = [final EXCEPT ![s] = [d \in Sides |-> <<>>]]
  /\ inside' = inside \cup {s}
  /\ called' = FALSE
  /\ UNCHANGED <<updated, book, public>>

\* A transaction or a snapshot ends: plb_event_listener stores the final
\* levels of the updated sides and updates the book.  "touched" are the sides
\* that the transaction is the first to update, even if no level is left.
EndTransaction(s, bids, asks, touched) ==
  LET levels == [buy |-> bids, sell |-> asks]
  IN /\ touched \cap updated[s] = {}
     /\ \A d \in Sides : levels[d] # <<>> => d \in updated[s] \cup touched
     /\ updated' = [updated EXCEPT ![s] = @ \cup touched]
     /\ final' = [final EXCEPT ![s] = levels]
     /\ inside' = inside \ {s}
     /\ IF updated'[s] = {} THEN called' = FALSE /\ UNCHANGED <<book, public>>
        ELSE BookUpdate(s)

Next == \E s \in Sources :
          \/ BeginSnapshot(s)
          \/ \E bids \in LevelsOf["buy"], asks \in LevelsOf["sell"], touched \in SUBSET Sides :
               EndTransaction(s, bids, asks, touched)

Spec == Init /\ [][Next]_vars

-----------------------------------------------------------------------------
Shown(b, n) == [d \in Sides |-> SubSeq(b[d].array, 1, n[d])]
Levels(b)   == [d \in Sides |-> SubSeq(b[d].array, 1, b[d].count)]

\* Reference: the prices of all sources, and the total size at a price.
Prices(srcs) == UNION {{srcs[s][i].price : i \in 1..Len(srcs[s])} : s \in Sources}
SizeIn(levels, p) ==
  LET at == {i \in 1..Len(levels) : levels[i].price = p}
  IN IF at = {} THEN 0 ELSE levels[CHOOSE i \in at : TRUE].size
Sums(f) == LET sum[n \in 0..NumSources] == IF n = 0 THEN 0 ELSE sum[n - 1] + f[n] IN sum
SizeAt(srcs, p) == Sums([s \in Sources |-> SizeIn(srcs[s], p)])[NumSources]
IsBest(levels, d, srcs) ==
  /\ {levels[i].price : i \in 1..Len(levels)}
       = {p \in Prices(srcs) : Cardinality({q \in Prices(srcs) : Better(d, q, p)}) < MaxLevels}
  /\ \A i \in 1..Len(levels) : levels[i].size = SizeAt(srcs, levels[i].price)
  /\ \A i, j \in 1..Len(levels) : i < j => Better(d, levels[i].price, levels[j].price)

\* When no source is inside a snapshot, the levels of the book are the best
\* levels of all sources together, although each merge starts from the sides
\* that one source has ever updated.
BookExact ==
  inside = {} => \A d \in Sides : IsBest(Levels(book)[d], d, [s \in Sources |-> final[s][d]])

\* DXFeed.h says of the listener: "This callback will be invoked when price
\* levels change."
InvokedOnChange == [][Levels(book)' # Levels(book) => called']_vars

\* Listeners are not called for nothing: what they are shown has changed.
CalledOnlyOnChange == [][called' => Shown(book, public)' # Shown(book, public)]_vars
=============================================================================
