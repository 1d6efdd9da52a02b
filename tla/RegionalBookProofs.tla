------------------------- MODULE RegionalBookProofs -------------------------
(***************************************************************************)
(* Proofs about RegionalBook, for any number of exchanges, levels, quotes  *)
(* and listeners.                                                          *)
(***************************************************************************)
EXTENDS RegionalBook, FiniteSetTheorems, WellFoundedInduction, SequenceTheorems, TLAPS

\* A set of natural numbers has a least one: the intervals below them, ordered
\* by inclusion, are well founded.
LEMMA Least ==
  ASSUME NEW T \in SUBSET Nat, T # {}
  PROVE  \E m \in T : \A n \in T : m <= n
<1> DEFINE Up(n) == 0..(n - 1)
           Sets == {Up(n) : n \in T}
<1>1. \A n \in T : IsFiniteSet(Up(n)) /\ Up(n) \in SUBSET Nat
  BY FS_Interval
<1>2. Sets \subseteq FiniteSubsetsOf(Nat) /\ Sets # {}
  BY <1>1 DEF FiniteSubsetsOf
<1>3. PICK U \in Sets : \A V \in Sets : ~(<<V, U>> \in StrictSubsetOrdering(Nat))
  <2> HIDE DEF Sets
  <2> QED
    BY <1>2, WFMin, FS_StrictSubsetOrderingWellFounded
<1>4. PICK m \in T : U = Up(m)
  OBVIOUS
<1>5. ASSUME NEW n \in T PROVE m <= n
  <2>1. Up(n) \in Sets /\ Up(n) \in SUBSET Nat /\ Up(m) \in SUBSET Nat
    BY <1>1
  <2>2. ~(Up(n) \subseteq Up(m) /\ Up(n) # Up(m))
    <3> HIDE DEF Up, Sets
    <3> QED
      BY <1>3, <1>4, <2>1 DEF StrictSubsetOrdering
  <2>3. ASSUME n < m PROVE FALSE
    <3>1. n \in Up(m) /\ n \notin Up(n)
      BY <2>3
    <3>2. Up(n) \subseteq Up(m)
      BY <2>3
    <3> QED
      BY <2>2, <3>1, <3>2
  <2> QED
    BY <2>3
<1> QED
  BY <1>5

\* Induction up to N, with a set in the place of a predicate.
LEMMA UpTo ==
  ASSUME NEW N \in Nat, NEW G, 0 \in G, \A n \in 1..N : n - 1 \in G => n \in G
  PROVE  \A n \in 0..N : n \in G
<1> DEFINE T == {n \in 0..N : n \notin G}
<1> SUFFICES ASSUME T # {} PROVE FALSE
  OBVIOUS
<1>1. T \in SUBSET Nat
  OBVIOUS
<1>2. PICK m \in T : \A n \in T : m <= n
  <2> HIDE DEF T
  <2> QED
    BY <1>1, Least
<1>3. m \in 1..N /\ m - 1 \notin T
  BY <1>2
<1> QED
  BY <1>3
-----------------------------------------------------------------------------
\* The recursive functions of the model exist, and satisfy their definitions.
LEMMA SearchDef ==
  ASSUME NEW d, NEW rs, NEW used
  PROVE  Search(d, rs, used) =
           [r \in 0..Regions |-> IF r = 0 THEN [best |-> [price |-> Start(d), size |-> 0], used |-> used]
                                 ELSE Visit(d, rs, Search(d, rs, used)[r - 1], r)]
<1> DEFINE Zeroth == [best |-> [price |-> Start(d), size |-> 0], used |-> used]
           Body(f, r) == IF r = 0 THEN Zeroth ELSE Visit(d, rs, f[r - 1], r)
           G == {m \in 0..Regions : \E f : f = [r \in 0..m |-> Body(f, r)]}
<1>0. Regions \in Nat
  BY RegionalAssumption
<1> HIDE DEF Zeroth
<1>1. 0 \in G
  <2> DEFINE g == [r \in 0..0 |-> Zeroth]
  <2>1. g = [r \in 0..0 |-> Body(g, r)]
    OBVIOUS
  <2>2. \E f : f = [r \in 0..0 |-> Body(f, r)]
    <3> HIDE DEF g, Body
    <3> QED
      BY <2>1
  <2> QED
    BY <1>0, <2>2
<1>2. ASSUME NEW m \in 1..Regions, m - 1 \in G PROVE m \in G
  <2>1. PICK f : f = [r \in 0..(m - 1) |-> Body(f, r)]
    BY <1>2
  <2> DEFINE g == [r \in 0..m |-> IF r < m THEN f[r] ELSE Body(f, m)]
  <2>2. ASSUME NEW r \in 0..m PROVE g[r] = Body(g, r)
    <3>1. CASE r = 0
      <4>1. f[0] = Zeroth
        BY <2>1, <1>0
      <4> QED
        BY <3>1, <4>1, <1>0
    <3>2. CASE r # 0
      <4>1. g[r - 1] = f[r - 1]
        BY <3>2, <1>0
      <4>2. g[r] = Body(f, r)
        BY <2>1, <1>0
      <4> QED
        BY <4>1, <4>2, <3>2
    <3> QED
      BY <3>1, <3>2
  <2>3. g = [r \in 0..m |-> Body(g, r)]
    BY <2>2
  <2>4. \E h : h = [r \in 0..m |-> Body(h, r)]
    <3> HIDE DEF g, Body
    <3> QED
      BY <2>3
  <2> QED
    BY <2>4
<1>3. Regions \in G
  <2> HIDE DEF G
  <2> QED
    BY <1>0, <1>1, <1>2, UpTo
<1>4. \E f : f = [r \in 0..Regions |-> Body(f, r)]
  BY <1>3
<1> QED
  BY <1>4, Zenon DEF Search, Zeroth

LEMMA RoundsDef ==
  ASSUME NEW d, NEW rs
  PROVE  Rounds(d, rs) =
           [r \in 0..MaxLevels |-> IF r = 0 THEN [levels |-> <<>>, used |-> {}, ended |-> FALSE]
                                 ELSE Round(d, rs, Rounds(d, rs)[r - 1])]
<1> DEFINE Zeroth == [levels |-> <<>>, used |-> {}, ended |-> FALSE]
           Body(f, r) == IF r = 0 THEN Zeroth ELSE Round(d, rs, f[r - 1])
           G == {m \in 0..MaxLevels : \E f : f = [r \in 0..m |-> Body(f, r)]}
<1>0. MaxLevels \in Nat
  BY RegionalAssumption
<1> HIDE DEF Zeroth
<1>1. 0 \in G
  <2> DEFINE g == [r \in 0..0 |-> Zeroth]
  <2>1. g = [r \in 0..0 |-> Body(g, r)]
    OBVIOUS
  <2>2. \E f : f = [r \in 0..0 |-> Body(f, r)]
    <3> HIDE DEF g, Body
    <3> QED
      BY <2>1
  <2> QED
    BY <1>0, <2>2
<1>2. ASSUME NEW m \in 1..MaxLevels, m - 1 \in G PROVE m \in G
  <2>1. PICK f : f = [r \in 0..(m - 1) |-> Body(f, r)]
    BY <1>2
  <2> DEFINE g == [r \in 0..m |-> IF r < m THEN f[r] ELSE Body(f, m)]
  <2>2. ASSUME NEW r \in 0..m PROVE g[r] = Body(g, r)
    <3>1. CASE r = 0
      <4>1. f[0] = Zeroth
        BY <2>1, <1>0
      <4> QED
        BY <3>1, <4>1, <1>0
    <3>2. CASE r # 0
      <4>1. g[r - 1] = f[r - 1]
        BY <3>2, <1>0
      <4>2. g[r] = Body(f, r)
        BY <2>1, <1>0
      <4> QED
        BY <4>1, <4>2, <3>2
    <3> QED
      BY <3>1, <3>2
  <2>3. g = [r \in 0..m |-> Body(g, r)]
    BY <2>2
  <2>4. \E h : h = [r \in 0..m |-> Body(h, r)]
    <3> HIDE DEF g, Body
    <3> QED
      BY <2>3
  <2> QED
    BY <2>4
<1>3. MaxLevels \in G
  <2> HIDE DEF G
  <2> QED
    BY <1>0, <1>1, <1>2, UpTo
<1>4. \E f : f = [r \in 0..MaxLevels |-> Body(f, r)]
  BY <1>3
<1> QED
  BY <1>4, Zenon DEF Rounds, Zeroth

LEMMA SizesDef ==
  ASSUME NEW rs, NEW p
  PROVE  SizesTo(rs, p) =
           [r \in 0..Regions |-> IF r = 0 THEN 0
                                 ELSE SizesTo(rs, p)[r - 1] + (IF r \in Offers(rs) /\ rs[r].price = p THEN rs[r].size ELSE 0)]
<1> DEFINE Zeroth == 0
           Body(f, r) == IF r = 0 THEN Zeroth ELSE f[r - 1] + (IF r \in Offers(rs) /\ rs[r].price = p THEN rs[r].size ELSE 0)
           G == {m \in 0..Regions : \E f : f = [r \in 0..m |-> Body(f, r)]}
<1>0. Regions \in Nat
  BY RegionalAssumption
<1> HIDE DEF Zeroth
<1>1. 0 \in G
  <2> DEFINE g == [r \in 0..0 |-> Zeroth]
  <2>1. g = [r \in 0..0 |-> Body(g, r)]
    OBVIOUS
  <2>2. \E f : f = [r \in 0..0 |-> Body(f, r)]
    <3> HIDE DEF g, Body
    <3> QED
      BY <2>1
  <2> QED
    BY <1>0, <2>2
<1>2. ASSUME NEW m \in 1..Regions, m - 1 \in G PROVE m \in G
  <2>1. PICK f : f = [r \in 0..(m - 1) |-> Body(f, r)]
    BY <1>2
  <2> DEFINE g == [r \in 0..m |-> IF r < m THEN f[r] ELSE Body(f, m)]
  <2>2. ASSUME NEW r \in 0..m PROVE g[r] = Body(g, r)
    <3>1. CASE r = 0
      <4>1. f[0] = Zeroth
        BY <2>1, <1>0
      <4> QED
        BY <3>1, <4>1, <1>0
    <3>2. CASE r # 0
      <4>1. g[r - 1] = f[r - 1]
        BY <3>2, <1>0
      <4>2. g[r] = Body(f, r)
        BY <2>1, <1>0
      <4> QED
        BY <4>1, <4>2, <3>2
    <3> QED
      BY <3>1, <3>2
  <2>3. g = [r \in 0..m |-> Body(g, r)]
    BY <2>2
  <2>4. \E h : h = [r \in 0..m |-> Body(h, r)]
    <3> HIDE DEF g, Body
    <3> QED
      BY <2>3
  <2> QED
    BY <2>4
<1>3. Regions \in G
  <2> HIDE DEF G
  <2> QED
    BY <1>0, <1>1, <1>2, UpTo
<1>4. \E f : f = [r \in 0..Regions |-> Body(f, r)]
  BY <1>3
<1> QED
  BY <1>4, Zenon DEF SizesTo, Zeroth
-----------------------------------------------------------------------------
Region == [1..Regions -> Level]
Found  == [price : Int, size : Nat]
SearchState == [best : Found, used : SUBSET (1..Regions)]

LEMMA SidesOrdered ==
  ASSUME NEW d \in Sides, NEW p \in Int, NEW q \in Int
  PROVE  /\ p = q \/ Better(d, p, q) \/ Better(d, q, p)
         /\ ~(Better(d, p, q) /\ (p = q \/ Better(d, q, p)))
         /\ \A t \in Int : Better(d, p, q) /\ Better(d, q, t) => Better(d, p, t)
BY DEF Better, Sides

\* What a visit does to the search, and when.
LEMMA VisitCases ==
  ASSUME NEW d \in Sides, NEW rs \in Region, NEW r \in 1..Regions, NEW s \in SearchState, NEW t,
         t = Visit(d, rs, s, r)
  PROVE  /\ t \in SearchState
         /\ \/ r \in s.used /\ t = s
            \/ /\ r \notin s.used /\ Void(rs[r])
               /\ t.best = s.best /\ t.used = s.used \cup {r}
            \/ /\ r \notin s.used /\ ~Void(rs[r]) /\ rs[r].price = s.best.price
               /\ t.best.price = s.best.price /\ t.best.size = s.best.size + rs[r].size
               /\ t.used = s.used \cup {r}
            \/ /\ r \notin s.used /\ ~Void(rs[r]) /\ Better(d, rs[r].price, s.best.price)
               /\ t.best = rs[r] /\ t.used = s.used \cup {r}
            \/ /\ r \notin s.used /\ ~Void(rs[r]) /\ Better(d, s.best.price, rs[r].price)
               /\ t = s
<1>1. /\ s.best \in Found /\ s.used \in SUBSET (1..Regions) /\ rs[r] \in Level
      /\ s.best.price \in Int /\ s.best.size \in Nat /\ rs[r].size \in Nat
      /\ ~Void(rs[r]) => rs[r].price \in Int /\ rs[r] \in Found
  BY DEF SearchState, Found, Region, Level, Void
<1>2. CASE r \in s.used
  BY <1>2 DEF Visit
<1>3. CASE r \notin s.used /\ Void(rs[r])
  BY <1>1, <1>3 DEF Visit, SearchState
<1>4. CASE r \notin s.used /\ ~Void(rs[r]) /\ rs[r].price = s.best.price
  <2>1. t = [best |-> [s.best EXCEPT !.size = @ + rs[r].size], used |-> s.used \cup {r}]
    BY <1>4 DEF Visit
  <2>2. [s.best EXCEPT !.size = @ + rs[r].size] \in Found
    BY <1>1 DEF Found
  <2>3. /\ [s.best EXCEPT !.size = @ + rs[r].size].price = s.best.price
        /\ [s.best EXCEPT !.size = @ + rs[r].size].size = s.best.size + rs[r].size
    BY <1>1 DEF Found
  <2> DEFINE b == [s.best EXCEPT !.size = @ + rs[r].size]
  <2> HIDE DEF b
  <2>4. t = [best |-> b, used |-> s.used \cup {r}] /\ b \in Found
    BY <2>1, <2>2, Zenon DEF b
  <2>5. t.best = b /\ t.used = s.used \cup {r} /\ t \in SearchState
    BY <1>1, <2>4 DEF SearchState
  <2>6. t.best.price = s.best.price /\ t.best.size = s.best.size + rs[r].size
    BY <2>3, <2>5, Zenon DEF b
  <2> QED
    BY <1>4, <2>5, <2>6
<1>5. CASE r \notin s.used /\ ~Void(rs[r]) /\ rs[r].price # s.best.price /\ Better(d, rs[r].price, s.best.price)
  BY <1>1, <1>5 DEF Visit, SearchState
<1>6. CASE r \notin s.used /\ ~Void(rs[r]) /\ rs[r].price # s.best.price /\ ~Better(d, rs[r].price, s.best.price)
  BY <1>1, <1>6, SidesOrdered DEF Visit
<1> QED
  BY <1>2, <1>3, <1>4, <1>5, <1>6

\* The reference sums are natural numbers that grow offer by offer.
LEMMA SizesGrow ==
  ASSUME NEW rs \in Region, NEW p
  PROVE  /\ SizesTo(rs, p)[0] = 0
         /\ \A r \in 0..Regions : SizesTo(rs, p)[r] \in Nat
         /\ \A r \in 1..Regions :
              SizesTo(rs, p)[r] = SizesTo(rs, p)[r - 1] +
                                  (IF r \in Offers(rs) /\ rs[r].price = p THEN rs[r].size ELSE 0)
<1> DEFINE f == SizesTo(rs, p)
           G == {r \in 0..Regions : f[r] \in Nat}
<1>0. Regions \in Nat
  BY RegionalAssumption
<1>1. f = [r \in 0..Regions |-> IF r = 0 THEN 0
             ELSE f[r - 1] + (IF r \in Offers(rs) /\ rs[r].price = p THEN rs[r].size ELSE 0)]
  BY SizesDef
<1> HIDE DEF f
<1>2. f[0] = 0
  BY <1>0, <1>1
<1>3. \A r \in 1..Regions : f[r] = f[r - 1] + (IF r \in Offers(rs) /\ rs[r].price = p THEN rs[r].size ELSE 0)
  BY <1>0, <1>1
<1>4. \A r \in 1..Regions : rs[r].size \in Nat
  BY DEF Region, Level
<1>5. \A r \in 0..Regions : r \in G
  <2>1. 0 \in G
    BY <1>0, <1>2
  <2>2. \A r \in 1..Regions : r - 1 \in G => r \in G
    BY <1>0, <1>3, <1>4
  <2> HIDE DEF G
  <2> QED
    BY <1>0, <2>1, <2>2, UpTo
<1> QED
  BY <1>2, <1>3, <1>5 DEF f

LEMMA SearchStart ==
  ASSUME NEW d, NEW rs, NEW used, NEW f, f = Search(d, rs, used)
  PROVE  f[0] = [best |-> [price |-> Start(d), size |-> 0], used |-> used]
<1>1. Regions \in Nat
  BY RegionalAssumption
<1> QED
  BY <1>1, SearchDef

LEMMA SearchStep ==
  ASSUME NEW d, NEW rs, NEW used, NEW f, f = Search(d, rs, used), NEW r \in 1..Regions
  PROVE  f[r] = Visit(d, rs, f[r - 1], r)
<1>1. Regions \in Nat
  BY RegionalAssumption
<1>2. f = [x \in 0..Regions |-> IF x = 0 THEN [best |-> [price |-> Start(d), size |-> 0], used |-> used]
                                ELSE Visit(d, rs, f[x - 1], x)]
  BY SearchDef
<1> QED
  BY ONLY <1>1, <1>2, r \in 1..Regions

\* What is known after the first r regions, whichever are used: a level is the
\* price of an unused offer with at most what is offered there, and the offers
\* left unused are worse.
SoundAt(d, rs, used, r, s) ==
  /\ s \in SearchState /\ used \subseteq s.used /\ s.used \subseteq used \cup (1..r)
  /\ s.best.size <= SizesTo(rs, s.best.price)[r]
  /\ s.best.size # 0 => \E i \in Offers(rs) : i \notin used /\ rs[i].price = s.best.price
  /\ \A i \in 1..r : i \notin s.used => i \in Offers(rs) /\ Better(d, s.best.price, rs[i].price)

LEMMA SoundStart ==
  ASSUME NEW d \in Sides, NEW rs \in Region, NEW used \in SUBSET (1..Regions), NEW s,
         s = [best |-> [price |-> Start(d), size |-> 0], used |-> used]
  PROVE  SoundAt(d, rs, used, 0, s)
<1> DEFINE b == [price |-> Start(d), size |-> 0]
<1>1. Start(d) \in Int
  BY RegionalAssumption DEF Start
<1>2. b \in Found /\ b.price = Start(d) /\ b.size = 0
  BY <1>1 DEF Found
<1>3. s = [best |-> b, used |-> used]
  OBVIOUS
<1> HIDE DEF b
<1>4. s.best = b /\ s.used = used /\ s \in SearchState
  BY <1>2, <1>3 DEF SearchState
<1>5. SizesTo(rs, Start(d))[0] = 0
  BY SizesGrow
<1>6. s.best.size = 0 /\ s.best.price = Start(d)
  BY <1>2, <1>4, Zenon
<1> QED
  BY <1>4, <1>5, <1>6 DEF SoundAt

LEMMA SoundStep ==
  ASSUME NEW d \in Sides, NEW rs \in Region, NEW used \in SUBSET (1..Regions),
         NEW r \in 1..Regions, NEW s, NEW t,
         SoundAt(d, rs, used, r - 1, s), t = Visit(d, rs, s, r)
  PROVE  SoundAt(d, rs, used, r, t)
<1>0. Regions \in Nat
  BY RegionalAssumption
<1>1. /\ s \in SearchState /\ used \subseteq s.used /\ s.used \subseteq used \cup (1..(r - 1))
      /\ s.best.size <= SizesTo(rs, s.best.price)[r - 1]
      /\ s.best.size # 0 => \E i \in Offers(rs) : i \notin used /\ rs[i].price = s.best.price
      /\ \A i \in 1..(r - 1) : i \notin s.used => i \in Offers(rs) /\ Better(d, s.best.price, rs[i].price)
  BY DEF SoundAt
<1>2. /\ s.best.price \in Int /\ s.best.size \in Nat
      /\ rs[r].size \in Nat /\ (~Void(rs[r]) => rs[r].price \in Int)
  BY <1>0, <1>1 DEF SearchState, Found, Region, Level, Void
<1>3. r \in Offers(rs) <=> ~Void(rs[r])
  BY DEF Offers
<1>4. r \in Nat /\ r - 1 \in 0..Regions /\ \A i \in 1..r : i = r \/ i \in 1..(r - 1)
  BY <1>0
<1>5. \A p : /\ SizesTo(rs, p)[r - 1] \in Nat
             /\ SizesTo(rs, p)[r] = SizesTo(rs, p)[r - 1] +
                                    (IF r \in Offers(rs) /\ rs[r].price = p THEN rs[r].size ELSE 0)
  BY <1>4, SizesGrow
<1>6. /\ t \in SearchState
      /\ \/ r \in s.used /\ t = s
         \/ /\ r \notin s.used /\ Void(rs[r])
            /\ t.best = s.best /\ t.used = s.used \cup {r}
         \/ /\ r \notin s.used /\ ~Void(rs[r]) /\ rs[r].price = s.best.price
            /\ t.best.price = s.best.price /\ t.best.size = s.best.size + rs[r].size
            /\ t.used = s.used \cup {r}
         \/ /\ r \notin s.used /\ ~Void(rs[r]) /\ Better(d, rs[r].price, s.best.price)
            /\ t.best = rs[r] /\ t.used = s.used \cup {r}
         \/ /\ r \notin s.used /\ ~Void(rs[r]) /\ Better(d, s.best.price, rs[r].price)
            /\ t = s
  BY <1>1, VisitCases
<1>7. used \subseteq t.used /\ t.used \subseteq used \cup (1..r)
  BY <1>1, <1>4, <1>6
<1>8. t.best.size <= SizesTo(rs, t.best.price)[r]
  <2>1. CASE t.best = s.best
    <3>1. SizesTo(rs, s.best.price)[r] >= SizesTo(rs, s.best.price)[r - 1]
      BY <1>2, <1>5
    <3>2. SizesTo(rs, s.best.price)[r] \in Nat /\ SizesTo(rs, s.best.price)[r - 1] \in Nat
      BY <1>2, <1>5
    <3> QED
      BY <1>1, <1>2, <2>1, <3>1, <3>2
  <2>2. CASE /\ ~Void(rs[r]) /\ rs[r].price = s.best.price
             /\ t.best.price = s.best.price /\ t.best.size = s.best.size + rs[r].size
    <3>1. SizesTo(rs, s.best.price)[r] = SizesTo(rs, s.best.price)[r - 1] + rs[r].size
      BY <1>3, <1>5, <2>2
    <3> QED
      BY <1>1, <1>2, <1>5, <2>2, <3>1
  <2>3. CASE ~Void(rs[r]) /\ t.best = rs[r]
    <3>1. SizesTo(rs, rs[r].price)[r] = SizesTo(rs, rs[r].price)[r - 1] + rs[r].size
      BY <1>3, <1>5, <2>3
    <3> QED
      BY <1>2, <1>5, <2>3, <3>1
  <2> QED
    BY <1>6, <2>1, <2>2, <2>3
<1>9. t.best.size # 0 => \E i \in Offers(rs) : i \notin used /\ rs[i].price = t.best.price
  BY <1>1, <1>2, <1>3, <1>6
<1>10. ASSUME NEW i \in 1..r, i \notin t.used
       PROVE  i \in Offers(rs) /\ Better(d, t.best.price, rs[i].price)
  <2>1. CASE i = r
    BY <1>3, <1>6, <1>10, <2>1
  <2>2. CASE i \in 1..(r - 1)
    <3>1. i \notin s.used
      BY <1>6, <1>10
    <3>2. i \in Offers(rs) /\ Better(d, s.best.price, rs[i].price)
      BY <1>1, <2>2, <3>1
    <3>3. rs[i].price \in Int
      BY <3>2 DEF Offers, Void, Region, Level
    <3>4. t.best.price = s.best.price \/ Better(d, t.best.price, s.best.price)
      BY <1>6
    <3>5. t.best.price \in Int
      BY <1>6 DEF SearchState, Found
    <3> QED
      BY <1>2, <3>2, <3>3, <3>4, <3>5, SidesOrdered
  <2> QED
    BY <1>4, <2>1, <2>2
<1> QED
  BY <1>6, <1>7, <1>8, <1>9, <1>10 DEF SoundAt

LEMMA SearchSound ==
  ASSUME NEW d \in Sides, NEW rs \in Region, NEW used \in SUBSET (1..Regions)
  PROVE  \A r \in 0..Regions : SoundAt(d, rs, used, r, Search(d, rs, used)[r])
<1> DEFINE f == Search(d, rs, used)
           G == {r \in 0..Regions : SoundAt(d, rs, used, r, f[r])}
<1>0. Regions \in Nat
  BY RegionalAssumption
<1>6. f = Search(d, rs, used)
  OBVIOUS
<1> HIDE DEF f
<1>1. f[0] = [best |-> [price |-> Start(d), size |-> 0], used |-> used]
  BY <1>6, SearchStart
<1>2. ASSUME NEW r \in 1..Regions PROVE f[r] = Visit(d, rs, f[r - 1], r)
  BY <1>6, SearchStep
<1>3. SoundAt(d, rs, used, 0, f[0])
  BY <1>1, SoundStart, Zenon
<1>4. ASSUME NEW r \in 1..Regions, SoundAt(d, rs, used, r - 1, f[r - 1]) PROVE SoundAt(d, rs, used, r, f[r])
  <2>1. f[r] = Visit(d, rs, f[r - 1], r)
    BY <1>2
  <2> QED
    BY <1>4, <2>1, SoundStep, Zenon
<1>5. \A r \in 0..Regions : r \in G
  <2>1. 0 \in G
    BY <1>0, <1>3
  <2>2. \A r \in 1..Regions : r - 1 \in G => r \in G
    BY <1>0, <1>4
  <2> HIDE DEF G
  <2> QED
    BY <1>0, <2>1, <2>2, UpTo
<1> QED
  BY <1>5 DEF f
-----------------------------------------------------------------------------
\* What is known after the first r regions when none was used before: the level
\* is the best offer among them, with all that is offered at its price.
ExactAt(d, rs, r, s) ==
  /\ s \in SearchState /\ s.used \subseteq 1..r
  /\ s.best.size = SizesTo(rs, s.best.price)[r]
  /\ s.best.size = 0 => s.best.price = Start(d)
  /\ \A i \in 1..r : i \in Offers(rs) =>
       \/ rs[i].price = s.best.price /\ s.best.size # 0
       \/ Better(d, s.best.price, rs[i].price)
  /\ \A p \in Int : Better(d, p, s.best.price) => SizesTo(rs, p)[r] = 0

LEMMA ExactStart ==
  ASSUME NEW d \in Sides, NEW rs \in Region, NEW s,
         s = [best |-> [price |-> Start(d), size |-> 0], used |-> {}]
  PROVE  ExactAt(d, rs, 0, s)
<1> DEFINE b == [price |-> Start(d), size |-> 0]
<1>1. Start(d) \in Int
  BY RegionalAssumption DEF Start
<1>2. b \in Found /\ b.price = Start(d) /\ b.size = 0
  BY <1>1 DEF Found
<1>3. s = [best |-> b, used |-> {}]
  OBVIOUS
<1> HIDE DEF b
<1>4. s.best = b /\ s.used = {} /\ s \in SearchState
  BY <1>2, <1>3 DEF SearchState
<1>5. \A p : SizesTo(rs, p)[0] = 0
  BY SizesGrow
<1>6. s.best.size = 0 /\ s.best.price = Start(d)
  BY <1>2, <1>4, Zenon
<1> QED
  BY <1>4, <1>5, <1>6 DEF ExactAt

LEMMA ExactStep ==
  ASSUME NEW d \in Sides, NEW rs \in Region, NEW r \in 1..Regions, NEW s, NEW t,
         ExactAt(d, rs, r - 1, s), t = Visit(d, rs, s, r)
  PROVE  ExactAt(d, rs, r, t)
<1>0. Regions \in Nat
  BY RegionalAssumption
<1>1. /\ s \in SearchState /\ s.used \subseteq 1..(r - 1)
      /\ s.best.size = SizesTo(rs, s.best.price)[r - 1]
      /\ s.best.size = 0 => s.best.price = Start(d)
      /\ \A i \in 1..(r - 1) : i \in Offers(rs) =>
           \/ rs[i].price = s.best.price /\ s.best.size # 0
           \/ Better(d, s.best.price, rs[i].price)
      /\ \A p \in Int : Better(d, p, s.best.price) => SizesTo(rs, p)[r - 1] = 0
  BY DEF ExactAt
<1>2. /\ s.best.price \in Int /\ s.best.size \in Nat
      /\ rs[r].size \in Nat /\ (~Void(rs[r]) => rs[r].price \in Int /\ rs[r].size # 0)
  BY <1>0, <1>1 DEF SearchState, Found, Region, Level, Void
<1>3. r \in Offers(rs) <=> ~Void(rs[r])
  BY DEF Offers
<1>4. r \in Nat /\ r - 1 \in 0..Regions /\ r \notin s.used /\ \A i \in 1..r : i = r \/ i \in 1..(r - 1)
  BY <1>0, <1>1
<1>5. \A p : /\ SizesTo(rs, p)[r - 1] \in Nat
             /\ SizesTo(rs, p)[r] = SizesTo(rs, p)[r - 1] +
                                    (IF r \in Offers(rs) /\ rs[r].price = p THEN rs[r].size ELSE 0)
  BY <1>4, SizesGrow
<1>6. /\ t \in SearchState
      /\ \/ /\ Void(rs[r])
            /\ t.best = s.best /\ t.used = s.used \cup {r}
         \/ /\ ~Void(rs[r]) /\ rs[r].price = s.best.price
            /\ t.best.price = s.best.price /\ t.best.size = s.best.size + rs[r].size
            /\ t.used = s.used \cup {r}
         \/ /\ ~Void(rs[r]) /\ Better(d, rs[r].price, s.best.price)
            /\ t.best = rs[r] /\ t.used = s.used \cup {r}
         \/ /\ ~Void(rs[r]) /\ Better(d, s.best.price, rs[r].price)
            /\ t = s
  BY <1>1, <1>4, VisitCases
<1>7. t.used \subseteq 1..r
  BY <1>1, <1>4, <1>6
<1>8. t.best.price \in Int /\ (t.best.price = s.best.price \/ Better(d, t.best.price, s.best.price))
  BY <1>2, <1>6
<1>9. \A p : ~(r \in Offers(rs) /\ rs[r].price = p) => SizesTo(rs, p)[r] = SizesTo(rs, p)[r - 1]
  BY <1>5
<1>10. t.best.size = SizesTo(rs, t.best.price)[r]
  <2>1. CASE Void(rs[r]) /\ t.best = s.best
    BY <1>1, <1>3, <1>9, <2>1
  <2>2. CASE ~Void(rs[r]) /\ Better(d, s.best.price, rs[r].price) /\ t = s
    <3>1. rs[r].price # s.best.price
      BY <1>2, <2>2, SidesOrdered
    <3> QED
      BY <1>1, <1>9, <2>2, <3>1
  <2>3. CASE /\ ~Void(rs[r]) /\ rs[r].price = s.best.price
             /\ t.best.price = s.best.price /\ t.best.size = s.best.size + rs[r].size
    <3>1. SizesTo(rs, s.best.price)[r] = SizesTo(rs, s.best.price)[r - 1] + rs[r].size
      BY <1>3, <1>5, <2>3
    <3> QED
      BY <1>1, <2>3, <3>1
  <2>4. CASE ~Void(rs[r]) /\ Better(d, rs[r].price, s.best.price) /\ t.best = rs[r]
    <3>1. SizesTo(rs, rs[r].price)[r - 1] = 0
      BY <1>1, <1>2, <2>4
    <3>2. SizesTo(rs, rs[r].price)[r] = SizesTo(rs, rs[r].price)[r - 1] + rs[r].size
      BY <1>3, <1>5, <2>4
    <3> QED
      BY <1>2, <2>4, <3>1, <3>2
  <2> QED
    BY <1>6, <2>1, <2>2, <2>3, <2>4
<1>11. t.best.size = 0 => t.best.price = Start(d)
  BY <1>1, <1>2, <1>6
<1>12. s.best.size # 0 => t.best.size # 0
  BY <1>2, <1>6
<1>13. ASSUME NEW i \in 1..r, i \in Offers(rs)
       PROVE  \/ rs[i].price = t.best.price /\ t.best.size # 0
              \/ Better(d, t.best.price, rs[i].price)
  <2>1. CASE i = r
    <3>1. ~Void(rs[r])
      BY <1>3, <1>13, <2>1
    <3>2. \/ rs[r].price = t.best.price /\ t.best.size # 0
          \/ Better(d, t.best.price, rs[r].price)
      BY <1>2, <1>6, <3>1
    <3> QED
      BY <2>1, <3>2
  <2>2. CASE i \in 1..(r - 1)
    <3>1. \/ rs[i].price = s.best.price /\ s.best.size # 0
          \/ Better(d, s.best.price, rs[i].price)
      BY <1>1, <1>13, <2>2
    <3>2. rs[i].price \in Int
      BY <1>13 DEF Offers, Void, Region, Level
    <3> QED
      BY <1>2, <1>8, <1>12, <3>1, <3>2, SidesOrdered
  <2> QED
    BY <1>4, <2>1, <2>2
<1>14. ASSUME NEW p \in Int, Better(d, p, t.best.price) PROVE SizesTo(rs, p)[r] = 0
  <2>1. Better(d, p, s.best.price)
    BY <1>2, <1>8, <1>14, SidesOrdered
  <2>2. ~(r \in Offers(rs) /\ rs[r].price = p)
    <3> SUFFICES ASSUME ~Void(rs[r]), rs[r].price = p PROVE FALSE
      BY <1>3
    <3>1. rs[r].price = t.best.price \/ Better(d, t.best.price, rs[r].price)
      BY <1>6
    <3> QED
      BY <1>8, <1>14, <3>1, SidesOrdered
  <2> QED
    BY <1>1, <1>9, <2>1, <2>2
<1> QED
  BY <1>6, <1>7, <1>10, <1>11, <1>13, <1>14 DEF ExactAt

LEMMA SearchExact ==
  ASSUME NEW d \in Sides, NEW rs \in Region
  PROVE  \A r \in 0..Regions : ExactAt(d, rs, r, Search(d, rs, {})[r])
<1> DEFINE f == Search(d, rs, {})
           G == {r \in 0..Regions : ExactAt(d, rs, r, f[r])}
<1>0. Regions \in Nat
  BY RegionalAssumption
<1>1. f = Search(d, rs, {})
  OBVIOUS
<1> HIDE DEF f
<1>2. f[0] = [best |-> [price |-> Start(d), size |-> 0], used |-> {}]
  BY <1>1, SearchStart
<1>3. ExactAt(d, rs, 0, f[0])
  BY <1>2, ExactStart, Zenon
<1>4. ASSUME NEW r \in 1..Regions, ExactAt(d, rs, r - 1, f[r - 1]) PROVE ExactAt(d, rs, r, f[r])
  <2>1. f[r] = Visit(d, rs, f[r - 1], r)
    BY <1>1, SearchStep
  <2> QED
    BY <1>4, <2>1, ExactStep, Zenon
<1>5. \A r \in 0..Regions : r \in G
  <2>1. 0 \in G
    BY <1>0, <1>3
  <2>2. \A r \in 1..Regions : r - 1 \in G => r \in G
    BY <1>0, <1>4
  <2> HIDE DEF G
  <2> QED
    BY <1>0, <2>1, <2>2, UpTo
<1> QED
  BY <1>5 DEF f
-----------------------------------------------------------------------------
LEMMA RoundsStart ==
  ASSUME NEW d, NEW rs, NEW f, f = Rounds(d, rs)
  PROVE  f[0] = [levels |-> <<>>, used |-> {}, ended |-> FALSE]
<1>1. MaxLevels \in Nat
  BY RegionalAssumption
<1>2. f = [x \in 0..MaxLevels |-> IF x = 0 THEN [levels |-> <<>>, used |-> {}, ended |-> FALSE]
                                  ELSE Round(d, rs, f[x - 1])]
  BY RoundsDef
<1>3. 0 \in 0..MaxLevels
  BY <1>1
<1> QED
  BY ONLY <1>2, <1>3, Zenon

LEMMA RoundsStep ==
  ASSUME NEW d, NEW rs, NEW f, f = Rounds(d, rs), NEW r \in 1..MaxLevels
  PROVE  f[r] = Round(d, rs, f[r - 1])
<1>1. MaxLevels \in Nat
  BY RegionalAssumption
<1>2. f = [x \in 0..MaxLevels |-> IF x = 0 THEN [levels |-> <<>>, used |-> {}, ended |-> FALSE]
                                  ELSE Round(d, rs, f[x - 1])]
  BY RoundsDef
<1>3. r \in 0..MaxLevels /\ r # 0
  BY <1>1
<1> QED
  BY ONLY <1>2, <1>3, Zenon

\* The levels of a side: offered prices, best first, none with more than what is
\* offered at it.
LevelsOf(d, rs, levels) ==
  /\ levels \in Seq(Found)
  /\ \A k \in 1..Len(levels) : /\ levels[k].price \in Prices(rs)
                               /\ levels[k].size <= SizeAt(rs, levels[k].price)
  /\ \A j, k \in 1..Len(levels) : j < k => Better(d, levels[j].price, levels[k].price)

\* The first level is what the first search finds, if it finds something.
FirstOf(d, rs, levels) ==
  LET first == NextLevel(d, rs, {}).best
  IN IF first.size = 0 THEN levels = <<>> ELSE levels # <<>> /\ levels[1] = first

\* What is known after n rounds: the regions left unused are worse than every
\* level so far.
RoundAt(d, rs, n, s) ==
  /\ s \in [levels : Seq(Found), used : SUBSET (1..Regions), ended : BOOLEAN]
  /\ LevelsOf(d, rs, s.levels) /\ Len(s.levels) <= n
  /\ \A i \in Offers(rs) : i \notin s.used =>
       \A k \in 1..Len(s.levels) : Better(d, s.levels[k].price, rs[i].price)
  /\ IF n = 0 THEN s.levels = <<>> /\ s.used = {} /\ ~s.ended
     ELSE FirstOf(d, rs, s.levels) /\ (s.levels = <<>> => s.ended)

LEMMA RoundZero ==
  ASSUME NEW d \in Sides, NEW rs \in Region, NEW s,
         s = [levels |-> <<>>, used |-> {}, ended |-> FALSE]
  PROVE  RoundAt(d, rs, 0, s)
<1>1. s.levels = <<>> /\ s.used = {} /\ ~s.ended
  OBVIOUS
<1>2. <<>> \in Seq(Found) /\ Len(<<>>) = 0 /\ 1..0 = {}
  OBVIOUS
<1>3. s \in [levels : Seq(Found), used : SUBSET (1..Regions), ended : BOOLEAN]
  BY <1>2
<1>4. LevelsOf(d, rs, s.levels)
  BY <1>1, <1>2 DEF LevelsOf
<1> QED
  BY <1>1, <1>2, <1>3, <1>4 DEF RoundAt

LEMMA RoundStep ==
  ASSUME NEW d \in Sides, NEW rs \in Region, NEW n \in 1..MaxLevels, NEW s, NEW t,
         RoundAt(d, rs, n - 1, s), t = Round(d, rs, s)
  PROVE  RoundAt(d, rs, n, t)
<1> DEFINE St == [levels : Seq(Found), used : SUBSET (1..Regions), ended : BOOLEAN]
<1>0. Regions \in Nat /\ MaxLevels \in Nat /\ n \in Nat
  BY RegionalAssumption
<1>1. /\ s \in St /\ LevelsOf(d, rs, s.levels) /\ Len(s.levels) <= n - 1
      /\ \A i \in Offers(rs) : i \notin s.used =>
           \A k \in 1..Len(s.levels) : Better(d, s.levels[k].price, rs[i].price)
      /\ IF n = 1 THEN s.levels = <<>> /\ s.used = {} /\ ~s.ended
         ELSE FirstOf(d, rs, s.levels) /\ (s.levels = <<>> => s.ended)
  BY <1>0 DEF RoundAt
<1>2. s.levels \in Seq(Found) /\ s.used \in SUBSET (1..Regions) /\ s.ended \in BOOLEAN
  BY <1>1
<1> DEFINE m == NextLevel(d, rs, s.used)
<1>3. SoundAt(d, rs, s.used, Regions, m)
  BY <1>0, <1>2, SearchSound DEF NextLevel
<1>4. t = IF s.ended \/ m.best.size = 0 THEN [s EXCEPT !.ended = TRUE]
          ELSE [s EXCEPT !.levels = Append(@, m.best), !.used = m.used]
  BY DEF Round
<1>5. n = 1 => m.best = NextLevel(d, rs, {}).best
  BY <1>1
<1> HIDE DEF m
<1>6. CASE s.ended \/ m.best.size = 0
  <2>1. t = [s EXCEPT !.ended = TRUE]
    BY <1>4, <1>6
  <2>2. t \in St /\ t.levels = s.levels /\ t.used = s.used /\ t.ended = TRUE
    BY <1>1, <2>1
  <2> HIDE DEF St
  <2>3. FirstOf(d, rs, t.levels)
    BY <1>1, <1>5, <1>6, <2>2 DEF FirstOf
  <2>4. LevelsOf(d, rs, t.levels) /\ Len(t.levels) <= n
    <3>1. Len(s.levels) \in Nat
      BY <1>2
    <3> QED
      BY <1>0, <1>1, <2>2, <3>1
  <2> QED
    BY <1>0, <1>1, <2>2, <2>3, <2>4 DEF RoundAt, St
<1>7. CASE ~s.ended /\ m.best.size # 0
  <2>1. t = [s EXCEPT !.levels = Append(@, m.best), !.used = m.used]
    BY <1>4, <1>7
  <2>2. m \in SearchState /\ m.best \in Found /\ m.used \in SUBSET (1..Regions)
    BY <1>3 DEF SoundAt, SearchState
  <2> DEFINE ls == Append(s.levels, m.best)
             len == Len(s.levels)
  <2>3. /\ ls \in Seq(Found) /\ Len(ls) = len + 1 /\ len \in Nat
        /\ ls[len + 1] = m.best /\ \A k \in 1..len : ls[k] = s.levels[k]
    BY <1>2, <2>2
  <2>4. t.levels = ls /\ t.used = m.used /\ t.ended = s.ended /\ t \in St
    BY <1>1, <2>1, <2>2, <2>3
  <2> HIDE DEF ls, len, St
  <2>5. PICK o \in Offers(rs) : o \notin s.used /\ rs[o].price = m.best.price
    BY <1>3, <1>7 DEF SoundAt
  <2>6. m.best.price \in Prices(rs) /\ m.best.size <= SizeAt(rs, m.best.price)
    BY <1>3, <2>5 DEF SoundAt, Prices, SizeAt
  <2>7. \A k \in 1..len : /\ s.levels[k].price \in Prices(rs)
                          /\ s.levels[k].size <= SizeAt(rs, s.levels[k].price)
                          /\ Better(d, s.levels[k].price, m.best.price)
    <3>1. \A k \in 1..len : Better(d, s.levels[k].price, rs[o].price)
      BY <1>1, <2>5 DEF len
    <3> QED
      BY <1>1, <2>5, <3>1 DEF LevelsOf, len
  <2>8. \A k \in 1..(len + 1) : k = len + 1 \/ k \in 1..len
    BY <2>3
  <2>9. LevelsOf(d, rs, ls)
    <3>1. ASSUME NEW k \in 1..(len + 1)
          PROVE  ls[k].price \in Prices(rs) /\ ls[k].size <= SizeAt(rs, ls[k].price)
      BY <2>3, <2>6, <2>7, <2>8
    <3>2. ASSUME NEW j \in 1..(len + 1), NEW k \in 1..(len + 1), j < k
          PROVE  Better(d, ls[j].price, ls[k].price)
      <4>1. j \in 1..len
        BY <2>3, <3>2
      <4>2. CASE k = len + 1
        BY <2>3, <2>7, <4>1, <4>2
      <4>3. CASE k \in 1..len
        <5>1. Better(d, s.levels[j].price, s.levels[k].price)
          BY <1>1, <3>2, <4>1, <4>3 DEF LevelsOf, len
        <5> QED
          BY <2>3, <4>1, <4>3, <5>1
      <4> QED
        BY <2>8, <4>2, <4>3
    <3> QED
      BY <2>3, <3>1, <3>2 DEF LevelsOf
  <2>10. ASSUME NEW i \in Offers(rs), i \notin m.used, NEW k \in 1..(len + 1)
         PROVE  Better(d, ls[k].price, rs[i].price)
    <3>1. i \notin s.used /\ i \in 1..Regions
      BY <1>3, <2>10 DEF SoundAt, Offers
    <3>2. Better(d, m.best.price, rs[i].price)
      BY <1>3, <2>10, <3>1 DEF SoundAt
    <3>3. k \in 1..len => Better(d, s.levels[k].price, rs[i].price)
      BY <1>1, <2>10, <3>1 DEF len
    <3> QED
      BY <2>3, <2>8, <3>2, <3>3
  <2>11. FirstOf(d, rs, ls) /\ ls # <<>>
    <3>1. ls # <<>>
      BY <2>3
    <3>2. CASE n = 1
      <4>1. len = 0
        BY <1>1, <3>2 DEF len
      <4>2. ls[1] = m.best
        BY <2>3, <4>1
      <4> QED
        BY <1>5, <1>7, <3>1, <3>2, <4>2 DEF FirstOf
    <3>3. CASE n # 1
      <4>1. FirstOf(d, rs, s.levels) /\ s.levels # <<>>
        BY <1>1, <1>7, <3>3
      <4>2. 1 \in 1..len
        BY <1>2, <4>1, EmptySeq DEF len
      <4>3. ls[1] = s.levels[1]
        BY <2>3, <4>2
      <4> QED
        BY <3>1, <4>1, <4>3 DEF FirstOf
    <3> QED
      BY <3>2, <3>3
  <2>12. Len(ls) <= n
    BY <1>0, <1>1, <2>3 DEF len
  <2> QED
    BY <1>0, <2>3, <2>4, <2>9, <2>10, <2>11, <2>12 DEF RoundAt, St
<1> QED
  BY <1>6, <1>7

LEMMA LevelsFacts ==
  ASSUME NEW d \in Sides, NEW rs \in Region
  PROVE  /\ LevelsOf(d, rs, Levels(d, rs)) /\ FirstOf(d, rs, Levels(d, rs))
         /\ Len(Levels(d, rs)) \in 0..MaxLevels
<1> DEFINE f == Rounds(d, rs)
           G == {n \in 0..MaxLevels : RoundAt(d, rs, n, f[n])}
<1>0. MaxLevels \in Nat \ {0}
  BY RegionalAssumption
<1>1. f = Rounds(d, rs)
  OBVIOUS
<1> HIDE DEF f
<1>2. f[0] = [levels |-> <<>>, used |-> {}, ended |-> FALSE]
  BY <1>1, RoundsStart
<1>3. RoundAt(d, rs, 0, f[0])
  BY <1>2, RoundZero, Zenon
<1>4. ASSUME NEW n \in 1..MaxLevels, RoundAt(d, rs, n - 1, f[n - 1]) PROVE RoundAt(d, rs, n, f[n])
  <2>1. f[n] = Round(d, rs, f[n - 1])
    BY <1>1, RoundsStep
  <2> QED
    BY <1>4, <2>1, RoundStep, Zenon
<1>5. MaxLevels \in G
  <2>1. 0 \in G
    BY <1>0, <1>3
  <2>2. \A n \in 1..MaxLevels : n - 1 \in G => n \in G
    BY <1>0, <1>4
  <2> HIDE DEF G
  <2> QED
    BY <1>0, <2>1, <2>2, UpTo
<1>6. RoundAt(d, rs, MaxLevels, f[MaxLevels]) /\ Levels(d, rs) = f[MaxLevels].levels
  BY <1>1, <1>5 DEF Levels
<1>7. LevelsOf(d, rs, Levels(d, rs)) /\ FirstOf(d, rs, Levels(d, rs)) /\ Len(Levels(d, rs)) <= MaxLevels
  BY <1>0, <1>6 DEF RoundAt
<1>8. Levels(d, rs) \in Seq(Found)
  BY <1>7 DEF LevelsOf
<1> QED
  BY <1>0, <1>7, <1>8
-----------------------------------------------------------------------------
Cells == [1..MaxLevels -> Level]

\* The book is what the exchanges' last quotes make of it.
BookInv ==
  /\ regions \in [Sides -> Region]
  /\ book \in [Sides -> [cells : Cells, count : 0..MaxLevels]]
  /\ \A d \in Sides : /\ book[d].count = Len(Levels(d, regions[d]))
                      /\ \A i \in 1..book[d].count : book[d].cells[i] = Levels(d, regions[d])[i]
  /\ listeners \in Seq(Listeners)
  /\ reader \in {"idle", "quote", "update", "book"}
  /\ quote \in Quotes \cup {None}
  /\ reader \in {"quote", "update"} => quote \in Quotes
  /\ changed \in BOOLEAN /\ closed \in BOOLEAN

\* Where there is no offer there is no level.
LEMMA NoOffers ==
  ASSUME NEW d \in Sides, NEW rs \in Region, Offers(rs) = {}
  PROVE  Levels(d, rs) = <<>>
<1>1. Regions \in Nat
  BY RegionalAssumption
<1>2. SoundAt(d, rs, {}, Regions, NextLevel(d, rs, {}))
  BY <1>1, SearchSound DEF NextLevel
<1>3. NextLevel(d, rs, {}).best.size = 0
  BY <1>2 DEF SoundAt
<1> QED
  BY <1>3, LevelsFacts DEF FirstOf

\* A quote brings a side of the book up to date.
LEMMA SideUpdated ==
  ASSUME BookInv, reader = "update", NEW d \in Sides, NEW rs, NEW b,
         rs = UpdateRegions(d, quote[d]), b = UpdateSide(d, Levels(d, rs))
  PROVE  /\ rs \in Region /\ b \in [cells : Cells, count : 0..MaxLevels]
         /\ b.count = Len(Levels(d, rs))
         /\ \A i \in 1..b.count : b.cells[i] = Levels(d, rs)[i]
         /\ \A i \in 1..MaxLevels : i > b.count => b.cells[i] = book[d].cells[i]
<1>1. /\ quote[d].exchange \in Int /\ quote[d].price \in Int \cup {NaN} /\ quote[d].size \in Nat
      /\ regions[d] \in Region /\ book[d].cells \in Cells
      /\ Regions \in Nat /\ MaxLevels \in Nat \ {0}
  BY RegionalAssumption DEF BookInv
<1>2. rs \in Region
  <2>1. [price |-> quote[d].price, size |-> quote[d].size] \in Level
    BY <1>1 DEF Level
  <2>2. \A r \in 1..Regions : regions[d][r] \in Level
    BY <1>1 DEF Region
  <2> QED
    BY <2>1, <2>2 DEF UpdateRegions, Region
<1> DEFINE ls == Levels(d, rs)
<1>3. ls \in Seq(Found) /\ Len(ls) \in 0..MaxLevels
  BY <1>2, LevelsFacts DEF LevelsOf
<1> HIDE DEF ls
<1>4. b = [cells |-> [i \in 1..MaxLevels |-> IF i <= Len(ls) THEN ls[i] ELSE book[d].cells[i]],
           count |-> Len(ls)]
  BY DEF UpdateSide, ls
<1> DEFINE c == [i \in 1..MaxLevels |-> IF i <= Len(ls) THEN ls[i] ELSE book[d].cells[i]]
<1>5. b = [cells |-> c, count |-> Len(ls)]
  BY <1>4
<1>6. /\ \A i \in 1..Len(ls) : c[i] = ls[i]
      /\ \A i \in 1..MaxLevels : i > Len(ls) => c[i] = book[d].cells[i]
  BY <1>1, <1>3
<1>7. c \in Cells
  <2>0. \A i \in 1..Len(ls) : ls[i] \in Found
    BY <1>3
  <2>4. \A x \in Found : x \in Level
    BY DEF Found, Level
  <2>1. \A i \in 1..Len(ls) : ls[i] \in Level
    BY <2>0, <2>4, Zenon
  <2>2. \A i \in 1..MaxLevels : book[d].cells[i] \in Level
    BY <1>1 DEF Cells
  <2>3. ASSUME NEW i \in 1..MaxLevels PROVE (IF i <= Len(ls) THEN ls[i] ELSE book[d].cells[i]) \in Level
    BY <1>1, <1>3, <2>1, <2>2
  <2> QED
    BY <2>3 DEF Cells
<1> HIDE DEF c
<1>8. b.cells = c /\ b.count = Len(ls) /\ b \in [cells : Cells, count : 0..MaxLevels]
  BY <1>3, <1>5, <1>7
<1> QED
  BY <1>2, <1>6, <1>8 DEF ls

LEMMA BookInitially == Init => BookInv
<1> SUFFICES ASSUME Init PROVE BookInv
  OBVIOUS
<1>0. Regions \in Nat /\ MaxLevels \in Nat
  BY RegionalAssumption
<1>1. Zero \in Level /\ Zero.size = 0
  BY DEF Zero, Level
<1>2. regions \in [Sides -> Region]
  BY <1>1 DEF Init, Region
<1> DEFINE c == [i \in 1..MaxLevels |-> Zero]
<1>3. c \in Cells
  BY <1>1 DEF Cells
<1>4. book = [d \in Sides |-> [cells |-> c, count |-> 0]]
  BY DEF Init
<1> HIDE DEF c
<1>5. book \in [Sides -> [cells : Cells, count : 0..MaxLevels]]
  BY <1>0, <1>3, <1>4
<1>6. ASSUME NEW d \in Sides PROVE book[d].count = 0 /\ Levels(d, regions[d]) = <<>>
  <2>1. regions[d] = [r \in 1..Regions |-> Zero]
    BY DEF Init
  <2>2. Offers(regions[d]) = {}
    BY <1>1, <2>1 DEF Offers, Void
  <2> QED
    BY <1>2, <1>4, <2>2, NoOffers
<1>7. \A d \in Sides : /\ book[d].count = Len(Levels(d, regions[d]))
                       /\ \A i \in 1..book[d].count : book[d].cells[i] = Levels(d, regions[d])[i]
  BY <1>6
<1>8. /\ listeners \in Seq(Listeners)
      /\ reader \in {"idle", "quote", "update", "book"}
      /\ quote \in Quotes \cup {None}
      /\ reader \in {"quote", "update"} => quote \in Quotes
  BY DEF Init
<1>9. changed \in BOOLEAN /\ closed \in BOOLEAN
  BY Zenon DEF Init
<1> QED
  BY <1>2, <1>5, <1>7, <1>8, <1>9 DEF BookInv

\* What Update leaves behind.
LEMMA Updated ==
  ASSUME BookInv, Update
  PROVE  /\ regions' \in [Sides -> Region]
         /\ book' \in [Sides -> [cells : Cells, count : 0..MaxLevels]]
         /\ \A d \in Sides : /\ book'[d].count = Len(Levels(d, regions'[d]))
                             /\ \A i \in 1..book'[d].count : book'[d].cells[i] = Levels(d, regions'[d])[i]
                             /\ \A i \in 1..MaxLevels :
                                  i > book'[d].count => book'[d].cells[i] = book[d].cells[i]
<1>1. ASSUME NEW d \in Sides
      PROVE  /\ regions'[d] \in Region /\ book'[d] \in [cells : Cells, count : 0..MaxLevels]
             /\ book'[d].count = Len(Levels(d, regions'[d]))
             /\ \A i \in 1..book'[d].count : book'[d].cells[i] = Levels(d, regions'[d])[i]
             /\ \A i \in 1..MaxLevels : i > book'[d].count => book'[d].cells[i] = book[d].cells[i]
  <2>1. /\ regions'[d] = UpdateRegions(d, quote[d])
        /\ book'[d] = UpdateSide(d, Levels(d, regions'[d])) /\ reader = "update"
    BY DEF Update
  <2>2. PICK rs, b : rs = regions'[d] /\ b = book'[d]
    OBVIOUS
  <2>3. /\ rs \in Region /\ b \in [cells : Cells, count : 0..MaxLevels]
        /\ b.count = Len(Levels(d, rs))
        /\ \A i \in 1..b.count : b.cells[i] = Levels(d, rs)[i]
        /\ \A i \in 1..MaxLevels : i > b.count => b.cells[i] = book[d].cells[i]
    <3>1. rs = UpdateRegions(d, quote[d]) /\ b = UpdateSide(d, Levels(d, rs)) /\ reader = "update"
      BY <2>1, <2>2
    <3> QED
      BY <3>1, SideUpdated
  <2> QED
    BY <2>2, <2>3
<1>2. regions' = [d \in Sides |-> regions'[d]] /\ book' = [d \in Sides |-> book'[d]]
  BY DEF Update
<1> QED
  BY <1>1, <1>2

LEMMA BookStep == BookInv /\ [Next]_vars => BookInv'
<1> SUFFICES ASSUME BookInv, [Next]_vars PROVE BookInv'
  OBVIOUS
<1> USE DEF BookInv
<1>1. CASE Event
  BY <1>1 DEF Event
<1>2. CASE NotifyQuote
  BY <1>2 DEF NotifyQuote
<1>3. CASE Update
  <2>1. /\ listeners' \in Seq(Listeners) /\ reader' \in {"idle", "book"} /\ quote' = quote
        /\ closed' \in BOOLEAN
    BY <1>3 DEF Update
  <2>2. changed' \in BOOLEAN
    BY <1>3, Zenon DEF Update
  <2> QED
    BY <1>3, <2>1, <2>2, Updated
<1>4. CASE NotifyBook
  BY <1>4 DEF NotifyBook
<1>5. ASSUME NEW l \in Listeners, Attach(l) PROVE BookInv'
  BY <1>5 DEF Attach
<1>6. ASSUME NEW l \in Listeners, Detach(l) PROVE BookInv'
  <2>1. PICK i \in DOMAIN listeners : listeners' = RemoveAt(listeners, i)
    BY <1>6 DEF Detach
  <2>2. listeners' \in Seq(Listeners)
    BY <2>1 DEF RemoveAt
  <2> QED
    BY <1>6, <2>2 DEF Detach
<1>7. CASE Close
  BY <1>7 DEF Close
<1>8. CASE UNCHANGED vars
  BY <1>8 DEF vars
<1> QED
  BY <1>1, <1>2, <1>3, <1>4, <1>5, <1>6, <1>7, <1>8 DEF Next, Reader, Application

\* The book is always what the last quotes of the exchanges make of it
\* (dx_rb_book_update).
THEOREM BookInvariant == Spec => []BookInv
BY BookInitially, BookStep, PTL DEF Spec

\* The levels are offered prices, best first and each once, none with more than
\* what is offered at it, for any quotes, prices and exchanges.
THEOREM LevelsSoundTheorem == Spec => []LevelsSound
<1>1. BookInv => LevelsSound
  <2> SUFFICES ASSUME BookInv, NEW d \in Sides
               PROVE  /\ \A i \in 1..book[d].count :
                           /\ book[d].cells[i].price \in Prices(regions[d])
                           /\ book[d].cells[i].size <= SizeAt(regions[d], book[d].cells[i].price)
                      /\ \A i, j \in 1..book[d].count :
                           i < j => Better(d, book[d].cells[i].price, book[d].cells[j].price)
    BY DEF LevelsSound
  <2>1. LevelsOf(d, regions[d], Levels(d, regions[d]))
    BY LevelsFacts DEF BookInv
  <2>2. /\ book[d].count = Len(Levels(d, regions[d]))
        /\ \A i \in 1..book[d].count : book[d].cells[i] = Levels(d, regions[d])[i]
    BY DEF BookInv
  <2> QED
    BY <2>1, <2>2 DEF LevelsOf
<1> QED
  BY <1>1, BookInvariant, PTL

\* The listeners of the book are called only when what they can see of it has
\* changed, for any quotes, prices and exchanges (dx_rb_book_update).
THEOREM CalledOnlyOnChangeTheorem == Spec => CalledOnlyOnChange
<1>1. BookInv /\ [Next]_vars => [reader = "update" /\ reader' = "book" => ShownBook' # ShownBook]_vars
  <2> SUFFICES ASSUME BookInv, Next, reader = "update", reader' = "book", ShownBook' = ShownBook
               PROVE  FALSE
    OBVIOUS
  <2>0. MaxLevels \in Nat
    BY RegionalAssumption
  <2>1. Update
    BY DEF Next, Reader, Application, Event, NotifyQuote, NotifyBook, Attach, Detach, Close
  <2>2. PICK d \in Sides : book'[d].cells # book[d].cells
    BY <2>1 DEF Update
  <2>3. /\ book[d].cells \in Cells /\ book[d].count \in 0..MaxLevels
        /\ book'[d].cells \in Cells /\ book'[d].count \in 0..MaxLevels
        /\ \A i \in 1..MaxLevels : i > book'[d].count => book'[d].cells[i] = book[d].cells[i]
    BY <2>1, Updated DEF BookInv
  <2>4. PICK i \in 1..MaxLevels : book'[d].cells[i] # book[d].cells[i]
    <3>1. PICK c, e : c = book[d].cells /\ e = book'[d].cells
      OBVIOUS
    <3>2. c \in [1..MaxLevels -> Level] /\ e \in [1..MaxLevels -> Level] /\ e # c
      BY <2>2, <2>3, <3>1 DEF Cells
    <3>3. \E i \in 1..MaxLevels : e[i] # c[i]
      <4> SUFFICES ASSUME \A i \in 1..MaxLevels : e[i] = c[i] PROVE e = c
        BY <3>2
      <4>1. c = [i \in 1..MaxLevels |-> c[i]] /\ e = [i \in 1..MaxLevels |-> e[i]]
        BY <3>2
      <4> QED
        BY <4>1, Zenon
    <3> QED
      BY <3>1, <3>3
  <2>5. i \in 1..book'[d].count
    BY <2>0, <2>3, <2>4
  <2>6. SubSeq(book'[d].cells, 1, book'[d].count) = SubSeq(book[d].cells, 1, book[d].count)
    BY DEF ShownBook, Shown
  <2>7. PICK c, n, e, m : c = book[d].cells /\ n = book[d].count /\ e = book'[d].cells /\ m = book'[d].count
    OBVIOUS
  <2>8. /\ c \in Cells /\ e \in Cells /\ n \in 0..MaxLevels /\ m \in 0..MaxLevels
        /\ SubSeq(e, 1, m) = SubSeq(c, 1, n) /\ i \in 1..m /\ e[i] # c[i]
    BY <2>3, <2>4, <2>5, <2>6, <2>7
  <2>9. c \in Seq(Level) /\ e \in Seq(Level) /\ Len(c) = MaxLevels /\ Len(e) = MaxLevels
    BY <2>0, <2>8 DEF Cells
  <2>10. /\ Len(SubSeq(e, 1, m)) = m /\ Len(SubSeq(c, 1, n)) = n
         /\ SubSeq(e, 1, m)[i] = e[i] /\ (i <= n => SubSeq(c, 1, n)[i] = c[i])
    BY <2>0, <2>8, <2>9
  <2> QED
    BY <2>0, <2>8, <2>10
<1> QED
  BY <1>1, BookInvariant, PTL DEF Spec, CalledOnlyOnChange

\* The cells that x shows are those of the book b.
Shows(x, b) ==
  \A d \in Sides : /\ Len(x[d]) \in 0..MaxLevels
                   /\ \A i \in 1..Len(x[d]) : x[d][i] = b[d].cells[i]

\* Only a listener in the array has been told something; those of quotes have
\* the last one, and the cells that one of the book was shown are those of the
\* array, also behind its last level.
ToldInv ==
  /\ told = [l \in Listeners |-> told[l]]
  /\ \A l \in Listeners : told[l] # None => l \in ToSet(listeners)
  /\ reader # "quote" => \A l \in QuoteListeners : told[l] # None => told[l] = quote
  /\ reader # "book" => \A l \in BookListeners : told[l] # None => Shows(told[l], book)

\* A listener that is taken out leaves the others in.
LEMMA Removed ==
  ASSUME NEW S, NEW s \in Seq(S), NEW i \in DOMAIN s, NEW l \in ToSet(s), l # s[i]
  PROVE  l \in ToSet(RemoveAt(s, i))
<1>1. Len(s) \in Nat /\ DOMAIN s = 1..Len(s)
  OBVIOUS
<1>2. PICK j \in 1..Len(s) : s[j] = l
  BY <1>1 DEF ToSet
<1> DEFINE a == SubSeq(s, 1, i - 1)
           b == SubSeq(s, i + 1, Len(s))
<1>3. /\ a \in Seq(S) /\ b \in Seq(S) /\ Len(a) = i - 1 /\ Len(b) = Len(s) - i
      /\ \A k \in 1..(i - 1) : a[k] = s[k]
      /\ \A k \in 1..(Len(s) - i) : b[k] = s[k + i]
  BY <1>1
<1>4. RemoveAt(s, i) = a \o b
  BY DEF RemoveAt
<1> HIDE DEF a, b
<1>5. /\ a \o b \in Seq(S) /\ Len(a \o b) = Len(s) - 1
      /\ \A k \in 1..(i - 1) : (a \o b)[k] = s[k]
      /\ \A k \in i..(Len(s) - 1) : (a \o b)[k] = s[k + 1]
  <2>1. /\ a \o b \in Seq(S) /\ Len(a \o b) = Len(a) + Len(b)
        /\ \A k \in 1..(Len(a) + Len(b)) : (a \o b)[k] = IF k <= Len(a) THEN a[k] ELSE b[k - Len(a)]
    BY <1>3, ConcatProperties
  <2>2. \A k \in 1..(i - 1) : (a \o b)[k] = s[k]
    BY <1>1, <1>3, <2>1
  <2>3. ASSUME NEW k \in i..(Len(s) - 1) PROVE (a \o b)[k] = s[k + 1]
    <3>1. k - (i - 1) \in 1..(Len(s) - i) /\ (k - (i - 1)) + i = k + 1
      BY <1>1, <2>3
    <3>2. (a \o b)[k] = b[k - (i - 1)]
      BY <1>1, <1>3, <2>1, <2>3
    <3> QED
      BY <1>3, <3>1, <3>2
  <2> QED
    BY <1>1, <1>3, <2>1, <2>2, <2>3
<1>6. \E k \in 1..Len(a \o b) : (a \o b)[k] = l
  <2>1. CASE j < i
    <3>1. (a \o b)[j] = l /\ j \in 1..Len(a \o b)
      BY <1>1, <1>2, <1>5, <2>1
    <3> QED
      BY <3>1
  <2>2. CASE j > i
    <3>1. j - 1 \in i..(Len(s) - 1) /\ (j - 1) + 1 = j
      BY <1>1, <1>2, <2>2
    <3>2. (a \o b)[j - 1] = l /\ j - 1 \in 1..Len(a \o b)
      BY <1>1, <1>2, <1>5, <3>1
    <3> QED
      BY <3>2
  <2>3. j # i
    BY <1>2
  <2> QED
    BY <1>1, <2>1, <2>2, <2>3
<1>7. DOMAIN (a \o b) = 1..Len(a \o b)
  BY <1>5
<1> QED
  BY <1>4, <1>6, <1>7, Zenon DEF ToSet

LEMMA ToldStep == BookInv /\ ToldInv /\ [Next]_vars => ToldInv'
<1> SUFFICES ASSUME BookInv, ToldInv, [Next]_vars PROVE ToldInv'
  OBVIOUS
<1>0. /\ MaxLevels \in Nat
      /\ \A l \in Listeners : ~(l \in QuoteListeners /\ l \in BookListeners)
      /\ QuoteListeners \subseteq Listeners /\ BookListeners \subseteq Listeners
  BY RegionalAssumption DEF Listeners
<1>1. CASE Event
  BY <1>1 DEF ToldInv, Event
<1>2. CASE NotifyQuote
  <2>1. /\ told' = [l \in Listeners |-> IF l \in ToSet(listeners) /\ l \in QuoteListeners THEN quote ELSE told[l]]
        /\ reader' = "update" /\ reader = "quote" /\ UNCHANGED <<listeners, quote, book>>
    BY <1>2 DEF NotifyQuote, Called
  <2>2. \A l \in Listeners :
           told'[l] = IF l \in ToSet(listeners) /\ l \in QuoteListeners THEN quote ELSE told[l]
    BY <2>1
  <2>3. told' = [l \in Listeners |-> told'[l]]
    BY <2>1
  <2>4. \A l \in BookListeners : told'[l] = told[l]
    BY <1>0, <2>2
  <2>5. \A l \in QuoteListeners : told'[l] # None => told'[l] = quote
    BY <1>0, <2>2 DEF ToldInv
  <2>6. \A l \in Listeners : told'[l] # None => l \in ToSet(listeners)
    BY <2>2 DEF ToldInv
  <2>7. \A l \in BookListeners : told'[l] # None => Shows(told'[l], book)
    BY <2>1, <2>4 DEF ToldInv
  <2> QED
    BY <2>1, <2>3, <2>5, <2>6, <2>7 DEF ToldInv
<1>3. CASE Update
  <2>1. UNCHANGED <<listeners, quote, told>> /\ reader = "update" /\ reader' = IF changed' THEN "book" ELSE "idle"
    BY <1>3 DEF Update
  <2>2. reader' # "book" => \A d \in Sides : book'[d].cells = book[d].cells
    BY <1>3 DEF Update
  <2>3. \A x : reader' # "book" /\ Shows(x, book) => Shows(x, book')
    BY <2>2 DEF Shows
  <2> QED
    BY <2>1, <2>3 DEF ToldInv
<1>4. CASE NotifyBook
  <2>1. /\ told' = [l \in Listeners |-> IF l \in ToSet(listeners) /\ l \in BookListeners THEN ShownBook ELSE told[l]]
        /\ reader' = "idle" /\ reader = "book" /\ UNCHANGED <<listeners, quote, book>>
    BY <1>4 DEF NotifyBook, Called
  <2>2. \A l \in Listeners :
           told'[l] = IF l \in ToSet(listeners) /\ l \in BookListeners THEN ShownBook ELSE told[l]
    BY <2>1
  <2>3. told' = [l \in Listeners |-> told'[l]]
    BY <2>1
  <2>4. \A l \in QuoteListeners : told'[l] = told[l]
    BY <1>0, <2>2
  <2>5. \A l \in BookListeners : told'[l] # None => told'[l] = ShownBook
    BY <1>0, <2>2 DEF ToldInv
  <2>6. \A l \in Listeners : told'[l] # None => l \in ToSet(listeners)
    BY <2>2 DEF ToldInv
  <2>7. ASSUME NEW d \in Sides
        PROVE  /\ Len(ShownBook[d]) \in 0..MaxLevels
               /\ \A i \in 1..Len(ShownBook[d]) : ShownBook[d][i] = book[d].cells[i]
    <3>1. PICK c, n : c = book[d].cells /\ n = book[d].count
      OBVIOUS
    <3>2. c \in Cells /\ n \in 0..MaxLevels
      BY <3>1 DEF BookInv
    <3>3. c \in Seq(Level) /\ Len(c) = MaxLevels
      BY <1>0, <3>2 DEF Cells
    <3>4. Len(SubSeq(c, 1, n)) = n /\ \A i \in 1..n : SubSeq(c, 1, n)[i] = c[i]
      BY <1>0, <3>2, <3>3
    <3>5. ShownBook[d] = SubSeq(c, 1, n)
      BY <3>1 DEF ShownBook, Shown
    <3> QED
      BY <3>1, <3>2, <3>4, <3>5
  <2>8. Shows(ShownBook, book)
    BY <2>7 DEF Shows
  <2>9. \A l \in BookListeners : told'[l] # None => Shows(told'[l], book)
    BY <2>5, <2>8, Zenon
  <2> QED
    BY <2>1, <2>3, <2>4, <2>6, <2>9 DEF ToldInv
<1>5. ASSUME NEW l \in Listeners, Attach(l) PROVE ToldInv'
  <2>1. UNCHANGED <<told, reader, quote, book>>
    BY <1>5 DEF Attach
  <2>2. ASSUME NEW k \in ToSet(listeners) PROVE k \in ToSet(listeners')
    <3>1. CASE listeners' = listeners
      BY <3>1
    <3>2. CASE listeners' = Append(listeners, l)
      BY <3>2 DEF ToSet, BookInv
    <3> QED
      BY <1>5, <3>1, <3>2 DEF Attach
  <2> QED
    BY <2>1, <2>2 DEF ToldInv
<1>6. ASSUME NEW l \in Listeners, Detach(l) PROVE ToldInv'
  <2>1. UNCHANGED <<reader, quote, book>> /\ told' = [told EXCEPT ![l] = None]
    BY <1>6 DEF Detach
  <2>2. PICK i \in DOMAIN listeners : listeners[i] = l /\ listeners' = RemoveAt(listeners, i)
    BY <1>6 DEF Detach
  <2>3. \A k \in Listeners : told'[k] = IF k = l THEN None ELSE told[k]
    BY <2>1 DEF ToldInv
  <2>4. told' = [k \in Listeners |-> told'[k]]
    BY <2>1 DEF ToldInv
  <2>5. ASSUME NEW k \in Listeners, told'[k] # None PROVE k \in ToSet(listeners')
    <3>1. k # l /\ k \in ToSet(listeners)
      BY <2>3, <2>5 DEF ToldInv
    <3>2. listeners \in Seq(Listeners)
      BY DEF BookInv
    <3>3. k \in ToSet(RemoveAt(listeners, i))
      BY <2>2, <3>1, <3>2, Removed
    <3> QED
      BY <2>2, <3>3
  <2>6. \A k \in Listeners : told'[k] # None => told'[k] = told[k]
    BY <2>3
  <2>7. reader # "quote" => \A k \in QuoteListeners : told'[k] # None => told'[k] = quote
    BY <1>0, <2>6 DEF ToldInv
  <2>8. reader # "book" => \A k \in BookListeners : told'[k] # None => Shows(told'[k], book)
    BY <1>0, <2>6 DEF ToldInv
  <2> QED
    BY <2>1, <2>4, <2>5, <2>7, <2>8 DEF ToldInv
<1>7. CASE Close
  BY <1>7 DEF ToldInv, Close
<1>8. CASE UNCHANGED vars
  BY <1>8 DEF ToldInv, vars
<1> QED
  BY <1>1, <1>2, <1>3, <1>4, <1>5, <1>6, <1>7, <1>8 DEF Next, Reader, Application

\* What the listeners in the array were told last, at each step of
\* rb_event_listener.
THEOREM ToldInvariant == Spec => []ToldInv
<1>1. Init => ToldInv
  BY DEF Init, ToldInv, Listeners
<1> QED
  BY <1>1, ToldStep, BookInvariant, PTL DEF Spec

\* When no event is being handled, a listener that has been called since it was
\* attached has the last quote, or no level that differs from the book's,
\* whenever listeners are attached and detached.
THEOREM ToldLastTheorem == Spec => []ToldLast
<1>1. BookInv /\ ToldInv => ToldLast
  <2> SUFFICES ASSUME BookInv, ToldInv, reader = "idle", NEW l \in ToSet(listeners), told[l] # None
               PROVE  IF l \in QuoteListeners THEN told[l] = quote
                      ELSE \A d \in Sides : \A i \in 1..book[d].count :
                             i <= Len(told[l][d]) => told[l][d][i] = book[d].cells[i]
    BY DEF ToldLast
  <2>1. l \in QuoteListeners \/ l \in BookListeners
    BY DEF BookInv, ToSet, Listeners
  <2>2. l \in QuoteListeners => told[l] = quote
    BY DEF ToldInv
  <2>3. ASSUME l \in BookListeners, NEW d \in Sides, NEW i \in 1..book[d].count, i <= Len(told[l][d])
        PROVE  told[l][d][i] = book[d].cells[i]
    <3>1. /\ Len(told[l][d]) \in 0..MaxLevels
          /\ \A j \in 1..Len(told[l][d]) : told[l][d][j] = book[d].cells[j]
      BY <2>3 DEF ToldInv, Shows
    <3>2. book[d].count \in 0..MaxLevels /\ MaxLevels \in Nat
      BY RegionalAssumption DEF BookInv
    <3> QED
      BY <2>3, <3>1, <3>2
  <2> QED
    BY <2>1, <2>2, <2>3
<1> QED
  BY <1>1, BookInvariant, ToldInvariant, PTL

\* The prices that the code can find: it starts a side's search at the price 0,
\* or at 1.0E38, and a bid below or an ask above it is no level.
InRange == \A q \in Quotes : /\ q["bid"].price \in Int => q["bid"].price >= 0
                             /\ q["ask"].price \in Int => q["ask"].price <= Top

NoneBeyond == \A d \in Sides : \A r \in Offers(regions[d]) : ~Better(d, Start(d), regions[d][r].price)

LEMMA NoneBeyondStep ==
  ASSUME InRange
  PROVE  BookInv /\ NoneBeyond /\ [Next]_vars => NoneBeyond'
<1> SUFFICES ASSUME BookInv, NoneBeyond, [Next]_vars PROVE NoneBeyond'
  OBVIOUS
<1>1. CASE Update
  <2> SUFFICES ASSUME NEW d \in Sides, NEW r \in Offers(regions'[d])
               PROVE  ~Better(d, Start(d), regions'[d][r].price)
    BY DEF NoneBeyond
  <2>1. r \in 1..Regions /\ ~Void(regions'[d][r])
    BY DEF Offers
  <2>2. /\ quote \in Quotes /\ quote[d].price \in Int \cup {NaN}
        /\ regions'[d] = UpdateRegions(d, quote[d])
    BY <1>1, RegionalAssumption DEF Update, BookInv
  <2>3. CASE r = quote[d].exchange
    <3>1. regions'[d][r] = [price |-> quote[d].price, size |-> quote[d].size]
      BY <2>1, <2>2, <2>3 DEF UpdateRegions
    <3>2. quote[d].price \in Int
      BY <2>1, <2>2, <3>1 DEF Void
    <3> QED
      BY <2>2, <3>1, <3>2, RegionalAssumption DEF InRange, Better, Start, Sides
  <2>4. CASE r # quote[d].exchange
    <3>1. regions'[d][r] = regions[d][r]
      BY <2>1, <2>2, <2>4 DEF UpdateRegions
    <3> QED
      BY <2>1, <3>1 DEF NoneBeyond, Offers
  <2> QED
    BY <2>3, <2>4
<1>2. CASE UNCHANGED regions
  BY <1>2 DEF NoneBeyond
<1> QED
  BY <1>1, <1>2 DEF Next, Reader, Application, Event, NotifyQuote, NotifyBook, Attach, Detach, Close, vars

\* The first level of a side is the best price that any exchange offers, with
\* the sizes of all the exchanges that offer it, for quotes whose bids are not
\* negative and whose asks are at most 1.0E38 (dx_rb_book_update_one_side).
THEOREM BestExactTheorem ==
  ASSUME InRange
  PROVE  Spec => []BestExact
<1>1. Init => NoneBeyond
  BY DEF Init, NoneBeyond, Offers, Void, Zero
<1>2. Spec => []NoneBeyond
  BY <1>1, NoneBeyondStep, BookInvariant, PTL DEF Spec
<1>3. BookInv /\ NoneBeyond => BestExact
  <2> SUFFICES ASSUME BookInv, NoneBeyond, NEW d \in Sides
               PROVE  IF Prices(regions[d]) = {} THEN book[d].count = 0
                      ELSE LET best == CHOOSE p \in Prices(regions[d]) :
                                         \A q \in Prices(regions[d]) : p = q \/ Better(d, p, q)
                           IN /\ book[d].count > 0
                              /\ book[d].cells[1] = [price |-> best, size |-> SizeAt(regions[d], best)]
    BY DEF BestExact
  <2>0. PICK rs : rs = regions[d]
    OBVIOUS
  <2>1. /\ rs \in Region /\ Regions \in Nat
        /\ \A r \in Offers(rs) : ~Better(d, Start(d), rs[r].price)
    BY <2>0, RegionalAssumption DEF BookInv, NoneBeyond
  <2> DEFINE ls == Levels(d, rs)
             n == NextLevel(d, rs, {})
  <2>2. book[d].count = Len(ls) /\ \A i \in 1..Len(ls) : book[d].cells[i] = ls[i]
    BY <2>0 DEF BookInv
  <2>3. ls \in Seq(Found) /\ FirstOf(d, rs, ls)
    BY <2>1, LevelsFacts DEF LevelsOf
  <2>4. ExactAt(d, rs, Regions, n) /\ SoundAt(d, rs, {}, Regions, n)
    BY <2>1, SearchExact, SearchSound DEF NextLevel
  <2>5. IF n.best.size = 0 THEN ls = <<>> ELSE ls # <<>> /\ ls[1] = n.best
    BY <2>3 DEF FirstOf
  <2> HIDE DEF ls, n
  <2>6. CASE Prices(rs) = {}
    <3>1. n.best.size = 0
      BY <2>4, <2>6 DEF SoundAt, Prices
    <3> QED
      BY <2>0, <2>2, <2>5, <2>6, <3>1
  <2>7. CASE Prices(rs) # {}
    <3>1. PICK o \in Offers(rs) : TRUE
      BY <2>7 DEF Prices
    <3>2. n.best.size # 0
      <4>1. o \in 1..Regions
        BY DEF Offers
      <4> QED
        BY <2>1, <2>4, <4>1 DEF ExactAt
    <3>3. ls # <<>> /\ ls[1] = n.best
      BY <2>5, <3>2
    <3>4. /\ n.best.price \in Prices(rs)
          /\ \A q \in Prices(rs) : n.best.price = q \/ Better(d, n.best.price, q)
      <4>1. n.best.price \in Prices(rs)
        BY <2>4, <3>2 DEF SoundAt, Prices
      <4>2. ASSUME NEW r \in Offers(rs)
            PROVE  n.best.price = rs[r].price \/ Better(d, n.best.price, rs[r].price)
        <5>1. r \in 1..Regions
          BY DEF Offers
        <5> QED
          BY <2>4, <5>1 DEF ExactAt
      <4> QED
        BY <4>1, <4>2 DEF Prices
    <3>5. Prices(rs) \subseteq Int
      BY <2>1 DEF Prices, Offers, Void, Region, Level
    <3>6. n.best.price = CHOOSE p \in Prices(rs) : \A q \in Prices(rs) : p = q \/ Better(d, p, q)
      <4>1. \A p \in Prices(rs) : (\A q \in Prices(rs) : p = q \/ Better(d, p, q)) => p = n.best.price
        BY <3>4, <3>5, SidesOrdered
      <4> QED
        BY <3>4, <4>1
    <3>7. n.best.size = SizeAt(rs, n.best.price) /\ n.best \in Found
      BY <2>4 DEF ExactAt, SizeAt, SearchState
    <3>8. n.best = [price |-> n.best.price, size |-> SizeAt(rs, n.best.price)]
      BY <3>7 DEF Found
    <3>9. Len(ls) > 0 /\ 1 \in 1..Len(ls)
      BY <2>3, <3>3, EmptySeq
    <3> QED
      BY <2>0, <2>2, <2>7, <3>3, <3>6, <3>8, <3>9
  <2> QED
    BY <2>0, <2>6, <2>7
<1> QED
  BY <1>2, <1>3, BookInvariant, PTL
=============================================================================
