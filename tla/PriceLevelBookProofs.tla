----------------------- MODULE PriceLevelBookProofs -----------------------
(***************************************************************************)
(* Proofs about PriceLevelBook, for any number of sources and levels.      *)
(***************************************************************************)
EXTENDS PriceLevelBook, FiniteSetTheorems, FunctionTheorems, WellFoundedInduction, SequenceTheorems, TLAPS

\* A set of natural numbers has a least one: the intervals below them, ordered
\* by inclusion, are well founded.
LEMMA Least ==
  ASSUME NEW T \in SUBSET Nat, T # {}
  PROVE  \E m \in T : \A n \in T : m <= n
<1> DEFINE Up(n) == 0..(n - 1)
           Sets == {Up(n) : n \in T}
<1>1. \A n \in T : IsFiniteSet(Up(n)) /\ Up(n) \in SUBSET Nat
  BY FS_Interval
<1>2. Sets \subseteq FiniteSubsetsOf(Nat) /\ Sets # {}
  BY <1>1 DEF FiniteSubsetsOf
<1>3. PICK U \in Sets : \A V \in Sets : ~(<<V, U>> \in StrictSubsetOrdering(Nat))
  <2> HIDE DEF Sets
  <2> QED
    BY <1>2, WFMin, FS_StrictSubsetOrderingWellFounded
<1>4. PICK m \in T : U = Up(m)
  OBVIOUS
<1>5. ASSUME NEW n \in T PROVE m <= n
  <2>1. Up(n) \in Sets /\ Up(n) \in SUBSET Nat /\ Up(m) \in SUBSET Nat
    BY <1>1
  <2>2. ~(Up(n) \subseteq Up(m) /\ Up(n) # Up(m))
    <3> HIDE DEF Up, Sets
    <3> QED
      BY <1>3, <1>4, <2>1 DEF StrictSubsetOrdering
  <2>3. ASSUME n < m PROVE FALSE
    <3>1. n \in Up(m) /\ n \notin Up(n)
      BY <2>3
    <3>2. Up(n) \subseteq Up(m)
      BY <2>3
    <3> QED
      BY <2>2, <3>1, <3>2
  <2> QED
    BY <2>3
<1> QED
  BY <1>5

\* Induction up to N, with a set in the place of a predicate.
LEMMA UpTo ==
  ASSUME NEW N \in Nat, NEW G, 0 \in G, \A n \in 1..N : n - 1 \in G => n \in G
  PROVE  \A n \in 0..N : n \in G
<1> DEFINE T == {n \in 0..N : n \notin G}
<1> SUFFICES ASSUME T # {} PROVE FALSE
  OBVIOUS
<1>1. T \in SUBSET Nat
  OBVIOUS
<1>2. PICK m \in T : \A n \in T : m <= n
  <2> HIDE DEF T
  <2> QED
    BY <1>1, Least
<1>3. m \in 1..N /\ m - 1 \notin T
  BY <1>2
<1> QED
  BY <1>3
-----------------------------------------------------------------------------
\* The recursive functions of the model exist, and satisfy their definitions.
LEMMA SumsDef ==
  ASSUME NEW e
  PROVE  Sums(e) =
           [r \in 0..NumSources |-> IF r = 0 THEN 0
                                 ELSE Sums(e)[r - 1] + e[r]]
<1> DEFINE Zeroth == 0
           Body(f, r) == IF r = 0 THEN Zeroth ELSE f[r - 1] + e[r]
           G == {m \in 0..NumSources : \E f : f = [r \in 0..m |-> Body(f, r)]}
<1>0. NumSources \in Nat
  BY BookAssumption
<1> HIDE DEF Zeroth
<1>1. 0 \in G
  <2> DEFINE g == [r \in 0..0 |-> Zeroth]
  <2>1. g = [r \in 0..0 |-> Body(g, r)]
    OBVIOUS
  <2>2. \E f : f = [r \in 0..0 |-> Body(f, r)]
    <3> HIDE DEF g, Body
    <3> QED
      BY <2>1
  <2> QED
    BY <1>0, <2>2
<1>2. ASSUME NEW m \in 1..NumSources, m - 1 \in G PROVE m \in G
  <2>1. PICK f : f = [r \in 0..(m - 1) |-> Body(f, r)]
    BY <1>2
  <2> DEFINE g == [r \in 0..m |-> IF r < m THEN f[r] ELSE Body(f, m)]
  <2>2. ASSUME NEW r \in 0..m PROVE g[r] = Body(g, r)
    <3>1. CASE r = 0
      <4>1. f[0] = Zeroth
        BY <2>1, <1>0
      <4> QED
        BY <3>1, <4>1, <1>0
    <3>2. CASE r # 0
      <4>1. g[r - 1] = f[r - 1]
        BY <3>2, <1>0
      <4>2. g[r] = Body(f, r)
        BY <2>1, <1>0
      <4> QED
        BY <4>1, <4>2, <3>2
    <3> QED
      BY <3>1, <3>2
  <2>3. g = [r \in 0..m |-> Body(g, r)]
    BY <2>2
  <2>4. \E h : h = [r \in 0..m |-> Body(h, r)]
    <3> HIDE DEF g, Body
    <3> QED
      BY <2>3
  <2> QED
    BY <2>4
<1>3. NumSources \in G
  <2> HIDE DEF G
  <2> QED
    BY <1>0, <1>1, <1>2, UpTo
<1>4. \E f : f = [r \in 0..NumSources |-> Body(f, r)]
  BY <1>3
<1> QED
  BY <1>4, Zenon DEF Sums, Zeroth

LEMMA SearchDef ==
  ASSUME NEW d, NEW srcs, NEW at
  PROVE  Search(d, srcs, at) =
           [r \in 0..NumSources |-> IF r = 0 THEN [price |-> Start(d), size |-> 0]
                                 ELSE IF Left(srcs, at, r) THEN Compare(d, Search(d, srcs, at)[r - 1], NextOf(srcs, at, r)) ELSE Search(d, srcs, at)[r - 1]]
<1> DEFINE Zeroth == [price |-> Start(d), size |-> 0]
           Body(f, r) == IF r = 0 THEN Zeroth ELSE IF Left(srcs, at, r) THEN Compare(d, f[r - 1], NextOf(srcs, at, r)) ELSE f[r - 1]
           G == {m \in 0..NumSources : \E f : f = [r \in 0..m |-> Body(f, r)]}
<1>0. NumSources \in Nat
  BY BookAssumption
<1> HIDE DEF Zeroth
<1>1. 0 \in G
  <2> DEFINE g == [r \in 0..0 |-> Zeroth]
  <2>1. g = [r \in 0..0 |-> Body(g, r)]
    OBVIOUS
  <2>2. \E f : f = [r \in 0..0 |-> Body(f, r)]
    <3> HIDE DEF g, Body
    <3> QED
      BY <2>1
  <2> QED
    BY <1>0, <2>2
<1>2. ASSUME NEW m \in 1..NumSources, m - 1 \in G PROVE m \in G
  <2>1. PICK f : f = [r \in 0..(m - 1) |-> Body(f, r)]
    BY <1>2
  <2> DEFINE g == [r \in 0..m |-> IF r < m THEN f[r] ELSE Body(f, m)]
  <2>2. ASSUME NEW r \in 0..m PROVE g[r] = Body(g, r)
    <3>1. CASE r = 0
      <4>1. f[0] = Zeroth
        BY <2>1, <1>0
      <4> QED
        BY <3>1, <4>1, <1>0
    <3>2. CASE r # 0
      <4>1. g[r - 1] = f[r - 1]
        BY <3>2, <1>0
      <4>2. g[r] = Body(f, r)
        BY <2>1, <1>0
      <4> QED
        BY <4>1, <4>2, <3>2
    <3> QED
      BY <3>1, <3>2
  <2>3. g = [r \in 0..m |-> Body(g, r)]
    BY <2>2
  <2>4. \E h : h = [r \in 0..m |-> Body(h, r)]
    <3> HIDE DEF g, Body
    <3> QED
      BY <2>3
  <2> QED
    BY <2>4
<1>3. NumSources \in G
  <2> HIDE DEF G
  <2> QED
    BY <1>0, <1>1, <1>2, UpTo
<1>4. \E f : f = [r \in 0..NumSources |-> Body(f, r)]
  BY <1>3
<1> QED
  BY <1>4, Zenon DEF Search, Zeroth

LEMMA RoundsDef ==
  ASSUME NEW d, NEW srcs
  PROVE  Rounds(d, srcs) =
           [r \in 0..MaxLevels |-> IF r = 0 THEN [levels |-> <<>>, at |-> [i \in Sources |-> 0]]
                                 ELSE Round(d, srcs, Rounds(d, srcs)[r - 1])]
<1> DEFINE Zeroth == [levels |-> <<>>, at |-> [i \in Sources |-> 0]]
           Body(f, r) == IF r = 0 THEN Zeroth ELSE Round(d, srcs, f[r - 1])
           G == {m \in 0..MaxLevels : \E f : f = [r \in 0..m |-> Body(f, r)]}
<1>0. MaxLevels \in Nat
  BY BookAssumption
<1> HIDE DEF Zeroth
<1>1. 0 \in G
  <2> DEFINE g == [r \in 0..0 |-> Zeroth]
  <2>1. g = [r \in 0..0 |-> Body(g, r)]
    OBVIOUS
  <2>2. \E f : f = [r \in 0..0 |-> Body(f, r)]
    <3> HIDE DEF g, Body
    <3> QED
      BY <2>1
  <2> QED
    BY <1>0, <2>2
<1>2. ASSUME NEW m \in 1..MaxLevels, m - 1 \in G PROVE m \in G
  <2>1. PICK f : f = [r \in 0..(m - 1) |-> Body(f, r)]
    BY <1>2
  <2> DEFINE g == [r \in 0..m |-> IF r < m THEN f[r] ELSE Body(f, m)]
  <2>2. ASSUME NEW r \in 0..m PROVE g[r] = Body(g, r)
    <3>1. CASE r = 0
      <4>1. f[0] = Zeroth
        BY <2>1, <1>0
      <4> QED
        BY <3>1, <4>1, <1>0
    <3>2. CASE r # 0
      <4>1. g[r - 1] = f[r - 1]
        BY <3>2, <1>0
      <4>2. g[r] = Body(f, r)
        BY <2>1, <1>0
      <4> QED
        BY <4>1, <4>2, <3>2
    <3> QED
      BY <3>1, <3>2
  <2>3. g = [r \in 0..m |-> Body(g, r)]
    BY <2>2
  <2>4. \E h : h = [r \in 0..m |-> Body(h, r)]
    <3> HIDE DEF g, Body
    <3> QED
      BY <2>3
  <2> QED
    BY <2>4
<1>3. MaxLevels \in G
  <2> HIDE DEF G
  <2> QED
    BY <1>0, <1>1, <1>2, UpTo
<1>4. \E f : f = [r \in 0..MaxLevels |-> Body(f, r)]
  BY <1>3
<1> QED
  BY <1>4, Zenon DEF Rounds, Zeroth

LEMMA SumsStart ==
  ASSUME NEW e, NEW f, f = Sums(e)
  PROVE  f[0] = 0
<1>1. NumSources \in Nat
  BY BookAssumption
<1>2. f = [x \in 0..NumSources |-> IF x = 0 THEN 0
                             ELSE f[x - 1] + e[x]]
  BY SumsDef
<1>3. 0 \in 0..NumSources
  BY <1>1
<1> QED
  BY ONLY <1>2, <1>3, Zenon

LEMMA SumsStep ==
  ASSUME NEW e, NEW f, f = Sums(e), NEW r \in 1..NumSources
  PROVE  f[r] = f[r - 1] + e[r]
<1>1. NumSources \in Nat
  BY BookAssumption
<1>2. f = [x \in 0..NumSources |-> IF x = 0 THEN 0
                             ELSE f[x - 1] + e[x]]
  BY SumsDef
<1>3. r \in 0..NumSources /\ r # 0
  BY <1>1
<1> QED
  BY ONLY <1>2, <1>3, Zenon

LEMMA SearchStart ==
  ASSUME NEW d, NEW srcs, NEW at, NEW f, f = Search(d, srcs, at)
  PROVE  f[0] = [price |-> Start(d), size |-> 0]
<1>1. NumSources \in Nat
  BY BookAssumption
<1>2. f = [x \in 0..NumSources |-> IF x = 0 THEN [price |-> Start(d), size |-> 0]
                             ELSE IF Left(srcs, at, x) THEN Compare(d, f[x - 1], NextOf(srcs, at, x)) ELSE f[x - 1]]
  BY SearchDef
<1>3. 0 \in 0..NumSources
  BY <1>1
<1> QED
  BY ONLY <1>2, <1>3, Zenon

LEMMA SearchStep ==
  ASSUME NEW d, NEW srcs, NEW at, NEW f, f = Search(d, srcs, at), NEW r \in 1..NumSources
  PROVE  f[r] = IF Left(srcs, at, r) THEN Compare(d, f[r - 1], NextOf(srcs, at, r)) ELSE f[r - 1]
<1>1. NumSources \in Nat
  BY BookAssumption
<1>2. f = [x \in 0..NumSources |-> IF x = 0 THEN [price |-> Start(d), size |-> 0]
                             ELSE IF Left(srcs, at, x) THEN Compare(d, f[x - 1], NextOf(srcs, at, x)) ELSE f[x - 1]]
  BY SearchDef
<1>3. r \in 0..NumSources /\ r # 0
  BY <1>1
<1> QED
  BY ONLY <1>2, <1>3, Zenon

LEMMA RoundsStart ==
  ASSUME NEW d, NEW srcs, NEW f, f = Rounds(d, srcs)
  PROVE  f[0] = [levels |-> <<>>, at |-> [i \in Sources |-> 0]]
<1>1. MaxLevels \in Nat
  BY BookAssumption
<1>2. f = [x \in 0..MaxLevels |-> IF x = 0 THEN [levels |-> <<>>, at |-> [i \in Sources |-> 0]]
                             ELSE Round(d, srcs, f[x - 1])]
  BY RoundsDef
<1>3. 0 \in 0..MaxLevels
  BY <1>1
<1> QED
  BY ONLY <1>2, <1>3, Zenon

LEMMA RoundsStep ==
  ASSUME NEW d, NEW srcs, NEW f, f = Rounds(d, srcs), NEW r \in 1..MaxLevels
  PROVE  f[r] = Round(d, srcs, f[r - 1])
<1>1. MaxLevels \in Nat
  BY BookAssumption
<1>2. f = [x \in 0..MaxLevels |-> IF x = 0 THEN [levels |-> <<>>, at |-> [i \in Sources |-> 0]]
                             ELSE Round(d, srcs, f[x - 1])]
  BY RoundsDef
<1>3. r \in 0..MaxLevels /\ r # 0
  BY <1>1
<1> QED
  BY ONLY <1>2, <1>3, Zenon

-----------------------------------------------------------------------------
\* The levels of the sources on a side: sorted, with a size, and at prices that
\* a search can find.
Sound(d, srcs) ==
  /\ srcs \in [Sources -> Seq(Level)]
  /\ \A s \in Sources : \A i \in 1..Len(srcs[s]) :
       srcs[s][i].size # 0 /\ ~Better(d, Start(d), srcs[s][i].price)
  /\ \A s \in Sources : \A i, j \in 1..Len(srcs[s]) :
       i < j => Better(d, srcs[s][i].price, srcs[s][j].price)

Indices(srcs, at) == at \in [Sources -> Nat] /\ \A i \in Sources : at[i] <= Len(srcs[i])

LEMMA SidesOrdered ==
  ASSUME NEW d \in Sides, NEW p \in Int, NEW q \in Int
  PROVE  /\ p = q \/ Better(d, p, q) \/ Better(d, q, p)
         /\ ~(Better(d, p, q) /\ (p = q \/ Better(d, q, p)))
         /\ \A t \in Int : Better(d, p, q) /\ Better(d, q, t) => Better(d, p, t)
BY DEF Better, Sides

\* The sums of natural numbers are natural numbers.
LEMMA SumsNat ==
  ASSUME NEW e \in [Sources -> Nat]
  PROVE  /\ Sums(e)[0] = 0
         /\ \A r \in 0..NumSources : Sums(e)[r] \in Nat
         /\ \A r \in 1..NumSources : Sums(e)[r] = Sums(e)[r - 1] + e[r]
<1> DEFINE f == Sums(e)
           G == {r \in 0..NumSources : f[r] \in Nat}
<1>0. NumSources \in Nat
  BY BookAssumption
<1>1. f = Sums(e)
  OBVIOUS
<1> HIDE DEF f
<1>2. f[0] = 0
  BY <1>1, SumsStart
<1>3. ASSUME NEW r \in 1..NumSources PROVE f[r] = f[r - 1] + e[r]
  BY <1>1, SumsStep
<1>4. \A r \in 1..NumSources : e[r] \in Nat
  BY DEF Sources
<1>5. \A r \in 0..NumSources : r \in G
  <2>1. 0 \in G
    BY <1>0, <1>2
  <2>2. \A r \in 1..NumSources : r - 1 \in G => r \in G
    BY <1>0, <1>3, <1>4
  <2> HIDE DEF G
  <2> QED
    BY <1>0, <2>1, <2>2, UpTo
<1> QED
  BY <1>2, <1>3, <1>5 DEF f

\* What each source has at the price p when it is its turn.
HeadSize(srcs, at, p) ==
  [i \in Sources |-> IF Left(srcs, at, i) /\ NextOf(srcs, at, i).price = p THEN NextOf(srcs, at, i).size ELSE 0]

LEMMA Heads ==
  ASSUME NEW d \in Sides, NEW srcs, NEW at, Sound(d, srcs), Indices(srcs, at)
  PROVE  /\ \A i \in Sources : Left(srcs, at, i) =>
              /\ NextOf(srcs, at, i) \in Level
              /\ NextOf(srcs, at, i).price \in Int /\ NextOf(srcs, at, i).size \in Nat \ {0}
              /\ ~Better(d, Start(d), NextOf(srcs, at, i).price)
         /\ \A p : HeadSize(srcs, at, p) \in [Sources -> Nat]
<1>1. ASSUME NEW i \in Sources, Left(srcs, at, i)
      PROVE  /\ NextOf(srcs, at, i) \in Level
             /\ NextOf(srcs, at, i).price \in Int /\ NextOf(srcs, at, i).size \in Nat \ {0}
             /\ ~Better(d, Start(d), NextOf(srcs, at, i).price)
  <2>1. srcs[i] \in Seq(Level) /\ at[i] \in Nat /\ at[i] < Len(srcs[i])
    BY <1>1 DEF Sound, Indices, Left
  <2>2. at[i] + 1 \in 1..Len(srcs[i])
    BY <2>1
  <2>3. srcs[i][at[i] + 1] \in Level
    BY <2>1, <2>2
  <2>4. srcs[i][at[i] + 1].size # 0 /\ ~Better(d, Start(d), srcs[i][at[i] + 1].price)
    BY <2>2 DEF Sound
  <2> QED
    BY <2>3, <2>4 DEF NextOf, Level
<1> QED
  BY <1>1 DEF HeadSize

\* What is known after the first n sources: the level is the best that is next
\* in one of them, with all that is offered at its price.
ExactAt(d, srcs, at, n, b) ==
  /\ b \in Level
  /\ b.size = Sums(HeadSize(srcs, at, b.price))[n]
  /\ b.size = 0 => b.price = Start(d)
  /\ b.size # 0 => \E i \in 1..n : Left(srcs, at, i) /\ NextOf(srcs, at, i).price = b.price
  /\ \A i \in 1..n : Left(srcs, at, i) =>
       \/ NextOf(srcs, at, i).price = b.price /\ b.size # 0
       \/ Better(d, b.price, NextOf(srcs, at, i).price)
  /\ \A p \in Int : Better(d, p, b.price) => Sums(HeadSize(srcs, at, p))[n] = 0

LEMMA ExactStart ==
  ASSUME NEW d \in Sides, NEW srcs, NEW at, Sound(d, srcs), Indices(srcs, at), NEW b,
         b = [price |-> Start(d), size |-> 0]
  PROVE  ExactAt(d, srcs, at, 0, b) /\ b.price \in Int
<1>1. Start(d) \in Int
  BY BookAssumption DEF Start
<1>2. b \in [price : Int, size : Nat] /\ b.price = Start(d) /\ b.size = 0
  BY <1>1
<1>3. \A p : Sums(HeadSize(srcs, at, p))[0] = 0
  BY Heads, SumsNat
<1> QED
  BY <1>1, <1>2, <1>3 DEF ExactAt, Level

LEMMA ExactStep ==
  ASSUME NEW d \in Sides, NEW srcs, NEW at, Sound(d, srcs), Indices(srcs, at),
         NEW r \in 1..NumSources, NEW b, NEW c, ExactAt(d, srcs, at, r - 1, b),
         c = IF Left(srcs, at, r) THEN Compare(d, b, NextOf(srcs, at, r)) ELSE b
  PROVE  ExactAt(d, srcs, at, r, c)
<1> DEFINE S(p, n) == Sums(HeadSize(srcs, at, p))[n]
           h(i) == NextOf(srcs, at, i)
           left(i) == Left(srcs, at, i)
<1>0. NumSources \in Nat /\ r \in Sources
  BY BookAssumption DEF Sources
<1>1. /\ b \in Level /\ b.size = S(b.price, r - 1)
      /\ b.size = 0 => b.price = Start(d)
      /\ b.size # 0 => \E i \in 1..(r - 1) : left(i) /\ h(i).price = b.price
      /\ \A i \in 1..(r - 1) : left(i) =>
           \/ h(i).price = b.price /\ b.size # 0
           \/ Better(d, b.price, h(i).price)
      /\ \A p \in Int : Better(d, p, b.price) => S(p, r - 1) = 0
  BY DEF ExactAt
<1>2. /\ b.price \in Int /\ b.size \in Nat
      /\ left(r) => h(r) \in Level /\ h(r).price \in Int /\ h(r).size \in Nat \ {0}
  BY <1>0, <1>1, Heads DEF Level
<1>3. r \in Nat /\ r - 1 \in 0..NumSources /\ \A i \in 1..r : i \in Sources /\ (i = r \/ i \in 1..(r - 1))
  BY <1>0 DEF Sources
<1>4. \A i \in 1..(r - 1) : i \in 1..r /\ i \in Sources
  BY <1>0 DEF Sources
<1>5. ASSUME NEW p
      PROVE  /\ S(p, r - 1) \in Nat
             /\ S(p, r) = S(p, r - 1) + (IF left(r) /\ h(r).price = p THEN h(r).size ELSE 0)
  <2>1. HeadSize(srcs, at, p) \in [Sources -> Nat]
    BY Heads
  <2>2. S(p, r - 1) \in Nat /\ S(p, r) = S(p, r - 1) + HeadSize(srcs, at, p)[r]
    BY <1>3, <2>1, SumsNat
  <2>3. HeadSize(srcs, at, p)[r] = IF left(r) /\ h(r).price = p THEN h(r).size ELSE 0
    BY <1>0 DEF HeadSize
  <2> QED
    BY <2>2, <2>3, Zenon
<1> HIDE DEF S, h, left
<1>6. /\ c \in Level
      /\ \/ ~left(r) /\ c = b
         \/ /\ left(r) /\ h(r).price = b.price
            /\ c.price = b.price /\ c.size = b.size + h(r).size
         \/ left(r) /\ Better(d, h(r).price, b.price) /\ c = h(r)
         \/ left(r) /\ Better(d, b.price, h(r).price) /\ c = b
  <2>1. CASE ~left(r)
    BY <1>1, <2>1 DEF left
  <2>2. CASE left(r) /\ h(r).price = b.price
    <3>1. c = [b EXCEPT !.size = @ + h(r).size]
      BY <2>2 DEF left, h, Compare
    <3> QED
      BY <1>1, <1>2, <2>2, <3>1 DEF Level
  <2>3. CASE left(r) /\ h(r).price # b.price /\ Better(d, h(r).price, b.price)
    <3>1. c = h(r)
      BY <2>3 DEF left, h, Compare
    <3> QED
      BY <1>2, <2>3, <3>1
  <2>4. CASE left(r) /\ h(r).price # b.price /\ ~Better(d, h(r).price, b.price)
    <3>1. c = b
      BY <2>4 DEF left, h, Compare
    <3> QED
      BY <1>1, <1>2, <2>4, <3>1, SidesOrdered
  <2> QED
    BY <2>1, <2>2, <2>3, <2>4
<1>7. /\ c.price \in Int /\ (c.price = b.price \/ Better(d, c.price, b.price))
      /\ b.size # 0 => c.size # 0
      /\ c.size = 0 => c.price = Start(d)
      /\ left(r) => (h(r).price = c.price /\ c.size # 0) \/ Better(d, c.price, h(r).price)
  BY <1>1, <1>2, <1>6
<1>8. \A p : ~(left(r) /\ h(r).price = p) => S(p, r) = S(p, r - 1)
  BY <1>5
<1>9. c.size = S(c.price, r)
  <2>1. CASE ~left(r) /\ c = b
    BY <1>1, <1>8, <2>1
  <2>2. CASE left(r) /\ Better(d, b.price, h(r).price) /\ c = b
    <3>1. h(r).price # b.price
      BY <1>2, <2>2, SidesOrdered
    <3> QED
      BY <1>1, <1>8, <2>2, <3>1
  <2>3. CASE left(r) /\ h(r).price = b.price /\ c.price = b.price /\ c.size = b.size + h(r).size
    BY <1>1, <1>5, <2>3
  <2>4. CASE left(r) /\ Better(d, h(r).price, b.price) /\ c = h(r)
    <3>1. S(h(r).price, r - 1) = 0
      BY <1>1, <1>2, <2>4
    <3>2. S(h(r).price, r) = S(h(r).price, r - 1) + h(r).size
      BY <1>5, <2>4
    <3> QED
      BY <1>2, <2>4, <3>1, <3>2
  <2> QED
    BY <1>6, <2>1, <2>2, <2>3, <2>4
<1>10. ASSUME c.size # 0 PROVE \E i \in 1..r : left(i) /\ h(i).price = c.price
  <2>1. CASE c = b
    BY <1>1, <1>4, <1>10, <2>1
  <2>2. CASE left(r) /\ h(r).price = c.price
    BY <1>3, <2>2
  <2> QED
    BY <1>6, <2>1, <2>2
<1>11. ASSUME NEW i \in 1..r, left(i)
       PROVE  (h(i).price = c.price /\ c.size # 0) \/ Better(d, c.price, h(i).price)
  <2>1. CASE i = r
    BY <1>7, <1>11, <2>1
  <2>2. CASE i \in 1..(r - 1)
    <3>1. (h(i).price = b.price /\ b.size # 0) \/ Better(d, b.price, h(i).price)
      BY <1>1, <1>11, <2>2
    <3>2. h(i).price \in Int
      BY <1>3, <1>11, Heads DEF left, h
    <3> QED
      BY <1>2, <1>7, <3>1, <3>2, SidesOrdered
  <2> QED
    BY <1>3, <2>1, <2>2
<1>12. ASSUME NEW p \in Int, Better(d, p, c.price) PROVE S(p, r) = 0
  <2>1. Better(d, p, b.price)
    BY <1>2, <1>7, <1>12, SidesOrdered
  <2>2. ~(left(r) /\ h(r).price = p)
    BY <1>7, <1>12, SidesOrdered
  <2> QED
    BY <1>1, <1>8, <2>1, <2>2
<1> QED
  BY <1>6, <1>7, <1>9, <1>10, <1>11, <1>12 DEF ExactAt, S, h, left

LEMMA SearchExact ==
  ASSUME NEW d \in Sides, NEW srcs, NEW at, Sound(d, srcs), Indices(srcs, at)
  PROVE  ExactAt(d, srcs, at, NumSources, Search(d, srcs, at)[NumSources])
<1> DEFINE f == Search(d, srcs, at)
           G == {r \in 0..NumSources : ExactAt(d, srcs, at, r, f[r])}
<1>0. NumSources \in Nat
  BY BookAssumption
<1>1. f = Search(d, srcs, at)
  OBVIOUS
<1> HIDE DEF f
<1>2. f[0] = [price |-> Start(d), size |-> 0]
  BY <1>1, SearchStart
<1>3. ExactAt(d, srcs, at, 0, f[0])
  BY <1>2, ExactStart, Zenon
<1>4. ASSUME NEW r \in 1..NumSources, ExactAt(d, srcs, at, r - 1, f[r - 1])
      PROVE  ExactAt(d, srcs, at, r, f[r])
  <2>1. f[r] = IF Left(srcs, at, r) THEN Compare(d, f[r - 1], NextOf(srcs, at, r)) ELSE f[r - 1]
    BY <1>1, SearchStep
  <2> QED
    BY <1>4, <2>1, ExactStep, Zenon
<1>5. NumSources \in G
  <2>1. 0 \in G
    BY <1>0, <1>3
  <2>2. \A r \in 1..NumSources : r - 1 \in G => r \in G
    BY <1>0, <1>4
  <2> HIDE DEF G
  <2> QED
    BY <1>0, <2>1, <2>2, UpTo
<1> QED
  BY <1>5 DEF f
-----------------------------------------------------------------------------
RoundState == [levels : Seq(Level), at : [Sources -> Nat]]

\* What is known after k rounds: the levels are the best prices, each with all
\* that is offered at it; what the sources have behind their index is worse.
MergedAt(d, srcs, k, s) ==
  /\ s \in RoundState /\ Indices(srcs, s.at) /\ Len(s.levels) <= k
  /\ Len(s.levels) < k => \A i \in Sources : s.at[i] = Len(srcs[i])
  /\ \A j \in 1..Len(s.levels) : /\ s.levels[j].price \in Prices(srcs)
                                 /\ s.levels[j].size = SizeAt(srcs, s.levels[j].price)
  /\ \A i, j \in 1..Len(s.levels) : i < j => Better(d, s.levels[i].price, s.levels[j].price)
  /\ \A i \in Sources : \A m \in 1..s.at[i] :
       \E j \in 1..Len(s.levels) : s.levels[j].price = srcs[i][m].price
  /\ \A i \in Sources : \A m \in (s.at[i] + 1)..Len(srcs[i]) : \A j \in 1..Len(s.levels) :
       Better(d, s.levels[j].price, srcs[i][m].price)

LEMMA MergedStart ==
  ASSUME NEW d \in Sides, NEW srcs, Sound(d, srcs), NEW s,
         s = [levels |-> <<>>, at |-> [i \in Sources |-> 0]]
  PROVE  MergedAt(d, srcs, 0, s)
<1> DEFINE z == [i \in Sources |-> 0]
<1>1. z \in [Sources -> Nat] /\ \A i \in Sources : z[i] = 0
  OBVIOUS
<1>2. s = [levels |-> <<>>, at |-> z]
  OBVIOUS
<1> HIDE DEF z
<1>3. <<>> \in Seq(Level) /\ Len(<<>>) = 0
  OBVIOUS
<1>4. s.levels = <<>> /\ s.at = z /\ s \in RoundState
  BY <1>1, <1>2, <1>3 DEF RoundState
<1>5. \A i \in Sources : Len(srcs[i]) \in Nat
  BY DEF Sound
<1>6. Indices(srcs, s.at)
  BY <1>1, <1>4, <1>5 DEF Indices
<1> QED
  BY <1>1, <1>3, <1>4, <1>6 DEF MergedAt

\* A price that every source offers next, or not at all, is offered in total by
\* those that offer it next.
LEMMA HeadSizes ==
  ASSUME NEW d \in Sides, NEW srcs, NEW at, Sound(d, srcs), Indices(srcs, at), NEW p \in Int,
         \A i \in Sources : \A m \in 1..Len(srcs[i]) : srcs[i][m].price = p => m = at[i] + 1
  PROVE  Sums(HeadSize(srcs, at, p))[NumSources] = SizeAt(srcs, p)
<1>1. ASSUME NEW i \in Sources
      PROVE  (IF Left(srcs, at, i) /\ NextOf(srcs, at, i).price = p THEN NextOf(srcs, at, i).size ELSE 0)
               = SizeIn(srcs[i], p)
  <2> DEFINE ms == {m \in 1..Len(srcs[i]) : srcs[i][m].price = p}
  <2>1. srcs[i] \in Seq(Level) /\ at[i] \in Nat /\ Len(srcs[i]) \in Nat
    BY DEF Sound, Indices
  <2>2. SizeIn(srcs[i], p) = IF ms = {} THEN 0 ELSE srcs[i][CHOOSE m \in ms : TRUE].size
    BY DEF SizeIn
  <2>3. CASE Left(srcs, at, i) /\ NextOf(srcs, at, i).price = p
    <3>1. at[i] + 1 \in ms
      BY <2>1, <2>3 DEF Left, NextOf
    <3>2. \A m \in ms : m = at[i] + 1
      OBVIOUS
    <3> HIDE DEF ms
    <3>3. (CHOOSE m \in ms : TRUE) \in ms
      BY <3>1
    <3>4. (CHOOSE m \in ms : TRUE) = at[i] + 1 /\ ms # {}
      BY <3>1, <3>2, <3>3
    <3> QED
      BY <2>2, <2>3, <3>4 DEF NextOf
  <2>4. CASE ~(Left(srcs, at, i) /\ NextOf(srcs, at, i).price = p)
    <3>1. ms = {}
      <4> SUFFICES ASSUME NEW m \in 1..Len(srcs[i]), srcs[i][m].price = p PROVE FALSE
        OBVIOUS
      <4>1. m = at[i] + 1
        OBVIOUS
      <4> QED
        BY <2>1, <2>4, <4>1 DEF Left, NextOf
    <3> QED
      BY <2>2, <2>4, <3>1
  <2> QED
    BY <2>3, <2>4
<1>2. HeadSize(srcs, at, p) = [i \in Sources |-> SizeIn(srcs[i], p)]
  BY <1>1, Zenon DEF HeadSize
<1> QED
  BY <1>2, Zenon DEF SizeAt

LEMMA MergedStep ==
  ASSUME NEW d \in Sides, NEW srcs, Sound(d, srcs), NEW k \in 1..MaxLevels, NEW s, NEW t,
         MergedAt(d, srcs, k - 1, s), t = Round(d, srcs, s)
  PROVE  MergedAt(d, srcs, k, t)
<1>0. NumSources \in Nat /\ MaxLevels \in Nat /\ k \in Nat
  BY BookAssumption
<1> DEFINE at == s.at
           ls == s.levels
           len == Len(s.levels)
           best == Search(d, srcs, s.at)[NumSources]
<1>1. /\ s \in RoundState /\ Indices(srcs, at) /\ len <= k - 1
      /\ len < k - 1 => \A i \in Sources : at[i] = Len(srcs[i])
      /\ \A j \in 1..len : ls[j].price \in Prices(srcs) /\ ls[j].size = SizeAt(srcs, ls[j].price)
      /\ \A i, j \in 1..len : i < j => Better(d, ls[i].price, ls[j].price)
      /\ \A i \in Sources : \A m \in 1..at[i] : \E j \in 1..len : ls[j].price = srcs[i][m].price
      /\ \A i \in Sources : \A m \in (at[i] + 1)..Len(srcs[i]) : \A j \in 1..len :
           Better(d, ls[j].price, srcs[i][m].price)
  BY DEF MergedAt
<1>2. ls \in Seq(Level) /\ at \in [Sources -> Nat] /\ len \in Nat
  BY <1>1 DEF RoundState
<1>3. ExactAt(d, srcs, at, NumSources, best)
  BY <1>1, SearchExact
<1>4. t = IF best.size = 0 THEN s
          ELSE [levels |-> Append(s.levels, best),
                at |-> [i \in Sources |->
                          IF Left(srcs, s.at, i) /\ NextOf(srcs, s.at, i).price = best.price
                          THEN s.at[i] + 1 ELSE s.at[i]]]
  BY DEF Round
<1> HIDE DEF best
<1>5. /\ best \in Level /\ best.price \in Int /\ best.size \in Nat
      /\ best.size = Sums(HeadSize(srcs, at, best.price))[NumSources]
      /\ best.size = 0 => best.price = Start(d)
      /\ best.size # 0 => \E i \in Sources : Left(srcs, at, i) /\ NextOf(srcs, at, i).price = best.price
      /\ \A i \in Sources : Left(srcs, at, i) =>
           \/ NextOf(srcs, at, i).price = best.price /\ best.size # 0
           \/ Better(d, best.price, NextOf(srcs, at, i).price)
  BY <1>3 DEF ExactAt, Level, Sources
<1>6. \A i \in Sources : /\ srcs[i] \in Seq(Level) /\ Len(srcs[i]) \in Nat
                         /\ at[i] \in Nat /\ at[i] <= Len(srcs[i])
                         /\ \A m \in 1..Len(srcs[i]) : srcs[i][m].price \in Int
  <2>1. \A i \in Sources : srcs[i] \in Seq(Level) /\ at[i] \in Nat /\ at[i] <= Len(srcs[i])
    BY <1>1 DEF Sound, Indices
  <2>2. \A i \in Sources : \A m \in 1..Len(srcs[i]) : srcs[i][m] \in Level
    BY <2>1
  <2>3. \A x \in Level : x.price \in Int
    BY DEF Level
  <2>4. \A i \in Sources : Len(srcs[i]) \in Nat
    BY <2>1
  <2> QED
    BY <2>1, <2>2, <2>3, <2>4, Zenon
<1>7. CASE best.size = 0
  <2>1. t = s
    BY <1>4, <1>7
  <2>2. ASSUME NEW i \in Sources PROVE at[i] = Len(srcs[i])
    <3>1. ~Left(srcs, at, i)
      BY <1>1, <1>5, <1>7, Heads
    <3> QED
      BY <1>6, <3>1 DEF Left
  <2> QED
    BY <1>0, <1>1, <1>2, <2>1, <2>2 DEF MergedAt
<1>8. CASE best.size # 0
  <2> DEFINE used(i) == Left(srcs, at, i) /\ NextOf(srcs, at, i).price = best.price
             at2 == [i \in Sources |-> IF used(i) THEN at[i] + 1 ELSE at[i]]
             ls2 == Append(ls, best)
  <2>1. t = [levels |-> ls2, at |-> at2]
    BY <1>4, <1>8
  <2>2. /\ ls2 \in Seq(Level) /\ Len(ls2) = len + 1 /\ ls2[len + 1] = best
        /\ \A j \in 1..len : ls2[j] = ls[j]
    BY <1>2, <1>5
  <2>3. at2 \in [Sources -> Nat] /\ \A i \in Sources : at2[i] = IF used(i) THEN at[i] + 1 ELSE at[i]
    BY <1>2
  <2>4. /\ \A i \in Sources : used(i) => at[i] < Len(srcs[i]) /\ srcs[i][at[i] + 1].price = best.price
        /\ \A i \in Sources : ~used(i) /\ at[i] < Len(srcs[i]) =>
             Better(d, best.price, srcs[i][at[i] + 1].price)
    BY <1>5 DEF Left, NextOf
  <2>5. \E i \in Sources : used(i)
    BY <1>5, <1>8
  <2> HIDE DEF ls2, at2, used
  <2>6. t.levels = ls2 /\ t.at = at2 /\ t \in RoundState
    BY <2>1, <2>2, <2>3 DEF RoundState
  <2>7. Indices(srcs, at2)
    BY <1>6, <2>3, <2>4 DEF Indices
  <2>8. PICK o \in Sources : used(o)
    BY <2>5
  <2>9. at[o] + 1 \in (at[o] + 1)..Len(srcs[o]) /\ at[o] + 1 \in 1..Len(srcs[o])
    BY <1>6, <2>4, <2>8
  <2>10. \A j \in 1..len : Better(d, ls[j].price, best.price)
    BY <1>1, <2>4, <2>8, <2>9
  <2>11. best.price \in Prices(srcs)
    BY <2>4, <2>8, <2>9 DEF Prices
  \* What is not used now is behind the new level.
  <2>13. ASSUME NEW i \in Sources, NEW m \in (at2[i] + 1)..Len(srcs[i])
         PROVE  m \in (at[i] + 1)..Len(srcs[i]) /\ Better(d, best.price, srcs[i][m].price)
    <3>1. m \in (at[i] + 1)..Len(srcs[i]) /\ m \in 1..Len(srcs[i]) /\ (used(i) => m > at[i] + 1)
      BY <1>6, <2>3, <2>13
    <3>2. at[i] < Len(srcs[i]) /\ at[i] + 1 \in 1..Len(srcs[i])
      BY <1>6, <3>1
    <3>3. m > at[i] + 1 => Better(d, srcs[i][at[i] + 1].price, srcs[i][m].price)
      BY <1>6, <3>1, <3>2 DEF Sound
    <3>4. srcs[i][m].price \in Int /\ srcs[i][at[i] + 1].price \in Int
      BY <1>6, <3>1, <3>2
    <3>5. CASE used(i)
      BY <2>4, <3>1, <3>3, <3>5
    <3>6. CASE ~used(i)
      <4>1. Better(d, best.price, srcs[i][at[i] + 1].price)
        BY <2>4, <3>2, <3>6
      <4>2. CASE m = at[i] + 1
        BY <3>1, <4>1, <4>2
      <4>3. CASE m > at[i] + 1
        BY <1>5, <3>1, <3>3, <3>4, <4>1, <4>3, SidesOrdered
      <4> QED
        BY <1>6, <3>1, <4>2, <4>3
    <3> QED
      BY <3>5, <3>6
  <2>14. best.size = SizeAt(srcs, best.price)
    <3>1. ASSUME NEW i \in Sources, NEW m \in 1..Len(srcs[i]), srcs[i][m].price = best.price
          PROVE  m = at[i] + 1
      <4>1. CASE m <= at[i]
        <5>1. PICK j \in 1..len : ls[j].price = best.price
          BY <1>1, <1>6, <3>1, <4>1
        <5> QED
          BY <1>5, <2>10, <5>1, SidesOrdered
      <4>2. CASE m > at[i] + 1
        <5>1. m \in (at2[i] + 1)..Len(srcs[i])
          BY <1>6, <2>3, <4>2
        <5> QED
          BY <1>5, <2>13, <3>1, <5>1, SidesOrdered
      <4> QED
        BY <1>6, <4>1, <4>2
    <3>2. Sums(HeadSize(srcs, at, best.price))[NumSources] = SizeAt(srcs, best.price)
      BY <1>1, <1>5, <3>1, HeadSizes
    <3> QED
      BY <1>5, <3>2
  <2>15. \A j \in 1..(len + 1) : j = len + 1 \/ j \in 1..len
    BY <1>2
  <2>16. \A j \in 1..(len + 1) : ls2[j].price \in Prices(srcs) /\ ls2[j].size = SizeAt(srcs, ls2[j].price)
    BY <1>1, <2>2, <2>11, <2>14, <2>15
  <2>17. ASSUME NEW i \in 1..(len + 1), NEW j \in 1..(len + 1), i < j
         PROVE  Better(d, ls2[i].price, ls2[j].price)
    <3>1. i \in 1..len
      BY <1>2, <2>17
    <3>2. CASE j = len + 1
      BY <2>2, <2>10, <3>1, <3>2
    <3>3. CASE j \in 1..len
      <4>1. Better(d, ls[i].price, ls[j].price)
        BY <1>1, <2>17, <3>1, <3>3
      <4> QED
        BY <2>2, <3>1, <3>3, <4>1
    <3> QED
      BY <2>15, <3>2, <3>3
  <2>18. ASSUME NEW i \in Sources, NEW m \in 1..at2[i]
         PROVE  \E j \in 1..(len + 1) : ls2[j].price = srcs[i][m].price
    <3>1. CASE m \in 1..at[i]
      <4>1. PICK j \in 1..len : ls[j].price = srcs[i][m].price
        BY <1>1, <3>1
      <4>2. ls2[j].price = srcs[i][m].price /\ j \in 1..(len + 1)
        BY <1>2, <2>2, <4>1
      <4> QED
        BY <4>2
    <3>2. CASE m \notin 1..at[i]
      <4>1. used(i) /\ m = at[i] + 1
        BY <1>6, <2>3, <2>18, <3>2
      <4>2. ls2[len + 1].price = srcs[i][m].price /\ len + 1 \in 1..(len + 1)
        BY <1>2, <2>2, <2>4, <4>1
      <4> QED
        BY <4>2
    <3> QED
      BY <3>1, <3>2
  <2>19. ASSUME NEW i \in Sources, NEW m \in (at2[i] + 1)..Len(srcs[i]), NEW j \in 1..(len + 1)
         PROVE  Better(d, ls2[j].price, srcs[i][m].price)
    <3>1. m \in (at[i] + 1)..Len(srcs[i]) /\ Better(d, best.price, srcs[i][m].price)
      BY <2>13
    <3>2. j \in 1..len => Better(d, ls[j].price, srcs[i][m].price)
      BY <1>1, <3>1
    <3> QED
      BY <2>2, <2>15, <3>1, <3>2
  <2>20. Len(t.levels) = len + 1 /\ len = k - 1
    <3>1. ~(len < k - 1)
      <4>1. at[o] # Len(srcs[o])
        BY <1>6, <2>4, <2>8
      <4> QED
        BY <1>1, <4>1
    <3> QED
      BY <1>0, <1>1, <1>2, <2>2, <2>6, <3>1
  <2> QED
    BY <1>0, <2>2, <2>6, <2>7, <2>16, <2>17, <2>18, <2>19, <2>20 DEF MergedAt
<1> QED
  BY <1>7, <1>8

LEMMA Merged ==
  ASSUME NEW d \in Sides, NEW srcs, Sound(d, srcs)
  PROVE  \E s : MergedAt(d, srcs, MaxLevels, s) /\ Merge(d, srcs) = s.levels
<1> DEFINE f == Rounds(d, srcs)
           G == {r \in 0..MaxLevels : MergedAt(d, srcs, r, f[r])}
<1>0. MaxLevels \in Nat
  BY BookAssumption
<1>1. f = Rounds(d, srcs)
  OBVIOUS
<1> HIDE DEF f
<1>2. f[0] = [levels |-> <<>>, at |-> [i \in Sources |-> 0]]
  BY <1>1, RoundsStart, Zenon
<1>3. MergedAt(d, srcs, 0, f[0])
  BY <1>2, MergedStart, Zenon
<1>4. ASSUME NEW r \in 1..MaxLevels, MergedAt(d, srcs, r - 1, f[r - 1])
      PROVE  MergedAt(d, srcs, r, f[r])
  <2>1. f[r] = Round(d, srcs, f[r - 1])
    BY <1>1, RoundsStep
  <2> QED
    BY <1>4, <2>1, MergedStep, Zenon
<1>5. MaxLevels \in G
  <2>1. 0 \in G
    BY <1>0, <1>3
  <2>2. \A r \in 1..MaxLevels : r - 1 \in G => r \in G
    BY <1>0, <1>4
  <2> HIDE DEF G
  <2> QED
    BY <1>0, <2>1, <2>2, UpTo
<1> QED
  BY <1>1, <1>5, Zenon DEF Merge
-----------------------------------------------------------------------------
\* The numbers 1..n map onto what f takes them to.
LEMMA Image ==
  ASSUME NEW n \in Nat, NEW f, NEW T, DOMAIN f = 1..n, f = [i \in 1..n |-> f[i]],
         \A x \in T : \E i \in 1..n : x = f[i]
  PROVE  IsFiniteSet(T) /\ Cardinality(T) <= n
<1> DEFINE R == {f[i] : i \in 1..n}
<1>1. f \in Surjection(1..n, R)
  BY DEF Surjection
<1>2. IsFiniteSet(1..n) /\ Cardinality(1..n) = n
  BY FS_Interval
<1>3. T \in SUBSET R
  OBVIOUS
<1> HIDE DEF R
<1>4. IsFiniteSet(R) /\ Cardinality(R) <= n
  BY <1>1, <1>2, FS_Surjection
<1>5. IsFiniteSet(T) /\ Cardinality(T) <= Cardinality(R)
  BY <1>3, <1>4, FS_Subset
<1>6. Cardinality(T) \in Nat /\ Cardinality(R) \in Nat
  BY <1>4, <1>5, FS_CardinalityType
<1> QED
  BY <1>4, <1>5, <1>6

LEMMA PricesFinite ==
  ASSUME NEW d \in Sides, NEW srcs, Sound(d, srcs)
  PROVE  IsFiniteSet(Prices(srcs)) /\ Prices(srcs) \subseteq Int
<1> DEFINE P(s) == {srcs[s][i].price : i \in 1..Len(srcs[s])}
           U(n) == UNION {P(s) : s \in 1..n}
           G == {n \in 0..NumSources : IsFiniteSet(U(n))}
<1>0. NumSources \in Nat
  BY BookAssumption
<1>1. ASSUME NEW s \in Sources PROVE IsFiniteSet(P(s)) /\ P(s) \subseteq Int
  <2>1. srcs[s] \in Seq(Level) /\ Len(srcs[s]) \in Nat
    BY DEF Sound
  <2>2. \A i \in 1..Len(srcs[s]) : srcs[s][i] \in Level
    BY <2>1
  <2>3. \A x \in Level : x.price \in Int
    BY DEF Level
  <2> DEFINE f == [i \in 1..Len(srcs[s]) |-> srcs[s][i].price]
  <2>4. \A x \in P(s) : \E i \in 1..Len(srcs[s]) : x = f[i]
    OBVIOUS
  <2>5. DOMAIN f = 1..Len(srcs[s]) /\ f = [i \in 1..Len(srcs[s]) |-> f[i]]
    OBVIOUS
  <2>6. P(s) \subseteq Int
    BY <2>2, <2>3
  <2> HIDE DEF f, P
  <2> QED
    BY <2>1, <2>4, <2>5, <2>6, Image
<1>2. 0 \in G
  <2>1. U(0) = {}
    OBVIOUS
  <2> QED
    BY <1>0, <2>1, FS_EmptySet
<1>3. ASSUME NEW n \in 1..NumSources, n - 1 \in G PROVE n \in G
  <2>1. U(n) = U(n - 1) \cup P(n)
    <3> HIDE DEF P
    <3>1. \A s : s \in 1..n <=> s \in 1..(n - 1) \/ s = n
      BY <1>0
    <3> QED
      BY <3>1
  <2>2. IsFiniteSet(P(n))
    BY <1>0, <1>1 DEF Sources
  <2>3. IsFiniteSet(U(n - 1))
    BY <1>3
  <2> HIDE DEF U, P
  <2>4. IsFiniteSet(U(n))
    BY <2>1, <2>2, <2>3, FS_Union
  <2> QED
    BY <1>0, <2>4
<1>4. NumSources \in G
  <2> HIDE DEF G
  <2> QED
    BY <1>0, <1>2, <1>3, UpTo
<1>5. Prices(srcs) = U(NumSources)
  BY DEF Prices, Sources
<1>6. Prices(srcs) \subseteq Int
  BY <1>1 DEF Prices
<1> QED
  BY <1>4, <1>5, <1>6

\* The merge yields the best levels of all sources together.
LEMMA MergeExact ==
  ASSUME NEW d \in Sides, NEW srcs, Sound(d, srcs)
  PROVE  IsBest(Merge(d, srcs), d, srcs)
<1>0. MaxLevels \in Nat \ {0} /\ NumSources \in Nat
  BY BookAssumption
<1>1. PICK s : MergedAt(d, srcs, MaxLevels, s) /\ Merge(d, srcs) = s.levels
  BY Merged
<1> DEFINE ls == s.levels
           len == Len(s.levels)
           Ahead(p) == {q \in Prices(srcs) : Better(d, q, p)}
<1>2. /\ s \in RoundState /\ Indices(srcs, s.at) /\ len <= MaxLevels
      /\ len < MaxLevels => \A i \in Sources : s.at[i] = Len(srcs[i])
      /\ \A j \in 1..len : ls[j].price \in Prices(srcs) /\ ls[j].size = SizeAt(srcs, ls[j].price)
      /\ \A i, j \in 1..len : i < j => Better(d, ls[i].price, ls[j].price)
      /\ \A i \in Sources : \A m \in 1..s.at[i] : \E j \in 1..len : ls[j].price = srcs[i][m].price
      /\ \A i \in Sources : \A m \in (s.at[i] + 1)..Len(srcs[i]) : \A j \in 1..len :
           Better(d, ls[j].price, srcs[i][m].price)
  BY <1>1 DEF MergedAt
<1>3. ls \in Seq(Level) /\ len \in Nat
  BY <1>2 DEF RoundState
<1>4. IsFiniteSet(Prices(srcs)) /\ Prices(srcs) \subseteq Int
  BY PricesFinite
<1>5. \A i \in Sources : Len(srcs[i]) \in Nat /\ s.at[i] \in Nat
  BY <1>2 DEF Sound, Indices
\* A price is taken, or every level is better.
<1>6. ASSUME NEW p \in Prices(srcs)
      PROVE  \/ \E j \in 1..len : ls[j].price = p
             \/ len = MaxLevels /\ \A j \in 1..len : Better(d, ls[j].price, p)
  <2>4. PICK i \in Sources : p \in {srcs[i][m].price : m \in 1..Len(srcs[i])}
    BY DEF Prices
  <2>1. PICK m \in 1..Len(srcs[i]) : p = srcs[i][m].price
    BY <2>4
  <2>2. CASE m \in 1..s.at[i]
    BY <1>2, <2>1, <2>2
  <2>3. CASE m \notin 1..s.at[i]
    <3>1. m \in (s.at[i] + 1)..Len(srcs[i]) /\ s.at[i] # Len(srcs[i])
      BY <1>5, <2>3
    <3>2. len = MaxLevels
      BY <1>0, <1>2, <1>3, <3>1
    <3> QED
      BY <1>2, <2>1, <3>1, <3>2
  <2> QED
    BY <2>2, <2>3
<1>7. ASSUME NEW j \in 1..len PROVE Cardinality(Ahead(ls[j].price)) < MaxLevels
  <2> DEFINE f == [i \in 1..(j - 1) |-> ls[i].price]
  <2>0. ls[j].price \in Int /\ j - 1 \in Nat
    BY <1>2, <1>3, <1>4
  <2>1. ASSUME NEW q \in Ahead(ls[j].price) PROVE \E i \in 1..(j - 1) : q = ls[i].price
    <3>1. q \in Int /\ q \in Prices(srcs) /\ Better(d, q, ls[j].price)
      BY <1>4, <2>1
    <3>2. ~(\A i \in 1..len : Better(d, ls[i].price, q))
      BY <2>0, <3>1, SidesOrdered
    <3>3. PICK i \in 1..len : ls[i].price = q
      BY <1>6, <3>1, <3>2
    <3>4. i # j /\ ~(j < i)
      BY <1>2, <2>0, <3>1, <3>3, SidesOrdered
    <3>5. i \in 1..(j - 1)
      BY <1>3, <3>4
    <3> QED
      BY <3>3, <3>5
  <2>2. \A q \in Ahead(ls[j].price) : \E i \in 1..(j - 1) : q = f[i]
    BY <2>1
  <2>3. DOMAIN f = 1..(j - 1) /\ f = [i \in 1..(j - 1) |-> f[i]]
    OBVIOUS
  <2> HIDE DEF f, Ahead
  <2>4. IsFiniteSet(Ahead(ls[j].price)) /\ Cardinality(Ahead(ls[j].price)) <= j - 1
    BY <2>0, <2>2, <2>3, Image
  <2>5. Cardinality(Ahead(ls[j].price)) \in Nat
    BY <2>4, FS_CardinalityType
  <2> QED
    BY <1>0, <1>2, <1>3, <2>0, <2>4, <2>5
<1>8. ASSUME NEW p \in Prices(srcs), Cardinality(Ahead(p)) < MaxLevels
      PROVE  \E j \in 1..len : ls[j].price = p
  <2> SUFFICES ASSUME len = MaxLevels, \A j \in 1..len : Better(d, ls[j].price, p) PROVE FALSE
    BY <1>6
  <2> DEFINE f == [j \in 1..len |-> ls[j].price]
  <2>1. ASSUME NEW i \in 1..len, NEW j \in 1..len, ls[i].price = ls[j].price PROVE i = j
    <3>1. ls[i].price \in Int /\ ls[j].price \in Int
      BY <1>2, <1>4
    <3>2. ~(i < j) /\ ~(j < i)
      BY <1>2, <2>1, <3>1, SidesOrdered
    <3> QED
      BY <1>3, <3>2
  <2>2. \A j \in 1..len : ls[j].price \in Ahead(p)
    BY <1>2
  <2>3. f \in Injection(1..len, Ahead(p))
    <3>1. f \in [1..len -> Ahead(p)]
      BY <2>2
    <3>2. \A i, j \in 1..len : f[i] = f[j] => i = j
      BY <2>1
    <3> HIDE DEF Ahead, f
    <3> QED
      BY <3>1, <3>2 DEF Injection, IsInjective
  <2>4. Ahead(p) \in SUBSET Prices(srcs)
    OBVIOUS
  <2> HIDE DEF f, Ahead
  <2>5. IsFiniteSet(Ahead(p))
    BY <1>4, <2>4, FS_Subset
  <2>6. Cardinality(1..len) <= Cardinality(Ahead(p))
    BY <2>3, <2>5, FS_Injection
  <2>7. Cardinality(1..len) = len
    BY <1>3, FS_Interval
  <2>8. Cardinality(Ahead(p)) \in Nat
    BY <2>5, FS_CardinalityType
  <2> QED
    BY <1>0, <1>3, <1>8, <2>6, <2>7, <2>8
<1>9. {ls[i].price : i \in 1..len} = {p \in Prices(srcs) : Cardinality({q \in Prices(srcs) : Better(d, q, p)}) < MaxLevels}
  BY <1>2, <1>7, <1>8
<1> QED
  BY <1>1, <1>2, <1>9 DEF IsBest

\* Whatever the prices, the merge yields at most MaxLevels levels.
LEMMA SearchType ==
  ASSUME NEW d \in Sides, NEW srcs \in [Sources -> Seq(Level)], NEW at \in [Sources -> Nat]
  PROVE  Search(d, srcs, at)[NumSources] \in Level
<1> DEFINE f == Search(d, srcs, at)
           G == {r \in 0..NumSources : f[r] \in Level}
<1>0. NumSources \in Nat /\ Start(d) \in Int
  BY BookAssumption DEF Start
<1>1. f = Search(d, srcs, at)
  OBVIOUS
<1> HIDE DEF f
<1>2. f[0] = [price |-> Start(d), size |-> 0]
  BY <1>1, SearchStart
<1>3. f[0] \in Level
  BY <1>0, <1>2 DEF Level
<1>4. ASSUME NEW r \in 1..NumSources, f[r - 1] \in Level PROVE f[r] \in Level
  <2>1. f[r] = IF Left(srcs, at, r) THEN Compare(d, f[r - 1], NextOf(srcs, at, r)) ELSE f[r - 1]
    BY <1>1, SearchStep
  <2>2. Left(srcs, at, r) => NextOf(srcs, at, r) \in Level
    BY DEF Left, NextOf, Sources
  <2>3. ASSUME NEW b \in Level, NEW l \in Level PROVE Compare(d, b, l) \in Level
    <3>2. b \in [price : Int, size : Nat] /\ b.size + l.size \in Nat
      BY DEF Level
    <3>1. [b EXCEPT !.size = @ + l.size] \in Level
      BY <3>2 DEF Level
    <3> QED
      BY <3>1 DEF Compare
  <2> QED
    BY <1>4, <2>1, <2>2, <2>3
<1>5. NumSources \in G
  <2>1. 0 \in G
    BY <1>0, <1>3
  <2>2. \A r \in 1..NumSources : r - 1 \in G => r \in G
    BY <1>0, <1>4
  <2> HIDE DEF G
  <2> QED
    BY <1>0, <2>1, <2>2, UpTo
<1> QED
  BY <1>5 DEF f

LEMMA MergeType ==
  ASSUME NEW d \in Sides, NEW srcs \in [Sources -> Seq(Level)]
  PROVE  Merge(d, srcs) \in Seq(Level) /\ Len(Merge(d, srcs)) \in 0..MaxLevels
<1> DEFINE f == Rounds(d, srcs)
           G == {r \in 0..MaxLevels : f[r] \in RoundState /\ Len(f[r].levels) <= r}
<1>0. MaxLevels \in Nat
  BY BookAssumption
<1>1. f = Rounds(d, srcs)
  OBVIOUS
<1> HIDE DEF f
<1>2. f[0] = [levels |-> <<>>, at |-> [i \in Sources |-> 0]]
  BY <1>1, RoundsStart, Zenon
<1>3. f[0] \in RoundState /\ Len(f[0].levels) <= 0
  BY <1>2 DEF RoundState
<1>4. ASSUME NEW r \in 1..MaxLevels, NEW s \in RoundState, Len(s.levels) <= r - 1, NEW t, t = Round(d, srcs, s)
      PROVE  t \in RoundState /\ Len(t.levels) <= r
  <2> DEFINE best == Search(d, srcs, s.at)[NumSources]
             at == [i \in Sources |-> IF Left(srcs, s.at, i) /\ NextOf(srcs, s.at, i).price = best.price
                                      THEN s.at[i] + 1 ELSE s.at[i]]
  <2>1. s.levels \in Seq(Level) /\ s.at \in [Sources -> Nat] /\ Len(s.levels) \in Nat
    BY DEF RoundState
  <2>2. best \in Level
    BY <2>1, SearchType
  <2>3. at \in [Sources -> Nat]
    BY <2>1
  <2>4. t = IF best.size = 0 THEN s ELSE [levels |-> Append(s.levels, best), at |-> at]
    BY <1>4, Zenon DEF Round
  <2> HIDE DEF best, at
  <2>5. CASE best.size = 0
    BY <1>0, <1>4, <2>1, <2>4, <2>5
  <2>6. CASE best.size # 0
    <3>1. t = [levels |-> Append(s.levels, best), at |-> at]
      BY <2>4, <2>6
    <3>2. Append(s.levels, best) \in Seq(Level) /\ Len(Append(s.levels, best)) = Len(s.levels) + 1
      BY <2>1, <2>2
    <3>3. t.levels = Append(s.levels, best) /\ t \in RoundState
      BY <2>3, <3>1, <3>2 DEF RoundState
    <3> QED
      BY <1>0, <1>4, <2>1, <3>2, <3>3
  <2> QED
    BY <2>5, <2>6
<1>5. MaxLevels \in G
  <2>1. 0 \in G
    BY <1>0, <1>3
  <2>2. ASSUME NEW r \in 1..MaxLevels, r - 1 \in G PROVE r \in G
    <3>1. f[r] = Round(d, srcs, f[r - 1])
      BY <1>1, RoundsStep
    <3>2. f[r - 1] \in RoundState /\ Len(f[r - 1].levels) <= r - 1
      BY <2>2
    <3>3. f[r] \in RoundState /\ Len(f[r].levels) <= r
      BY <1>4, <3>1, <3>2
    <3> QED
      BY <1>0, <3>3
  <2> HIDE DEF G
  <2> QED
    BY <1>0, <2>1, <2>2, UpTo
<1>6. f[MaxLevels] \in RoundState /\ Len(f[MaxLevels].levels) <= MaxLevels /\ Merge(d, srcs) = f[MaxLevels].levels
  BY <1>1, <1>5 DEF Merge
<1>7. Merge(d, srcs) \in Seq(Level)
  BY <1>6 DEF RoundState
<1> QED
  BY <1>0, <1>6, <1>7
-----------------------------------------------------------------------------
Cells == [1..MaxLevels -> Level]
Side  == [array : Cells, count : 0..MaxLevels]

\* The levels of the sources on a side.
Srcs(d) == [s \in Sources |-> final[s][d]]

\* The book b holds the merge of srcs.
Holds(d, b, srcs) == /\ b.count = Len(Merge(d, srcs))
                     /\ \A i \in 1..b.count : b.array[i] = Merge(d, srcs)[i]

Types ==
  /\ final \in [Sources -> [Sides -> Seq(Level)]]
  /\ \A s \in Sources, d \in Sides : final[s][d] \in LevelsOf[d] \cup {<<>>}
  /\ inside \subseteq Sources /\ updated \in [Sources -> SUBSET Sides]
  /\ book \in [Sides -> Side] /\ public \in [Sides -> 0..MaxLevels]

\* A side that a source has never updated has no levels of it, and a side is the
\* merge of the sources unless one that has updated it is inside a snapshot.
BookInv ==
  /\ Types
  /\ \A s \in Sources : \A d \in Sides : d \notin updated[s] => final[s][d] = <<>>
  /\ \A d \in Sides : (\A s \in inside : d \notin updated[s]) => Holds(d, book[d], Srcs(d))

LEMMA NoLevels ==
  ASSUME NEW d \in Sides, NEW srcs, srcs = [s \in Sources |-> <<>>]
  PROVE  Merge(d, srcs) = <<>>
<1> DEFINE at0 == [i \in Sources |-> 0]
           none == [levels |-> <<>>, at |-> at0]
           f == Rounds(d, srcs)
           g == Search(d, srcs, at0)
           G == {r \in 0..NumSources : g[r].size = 0}
           H == {r \in 0..MaxLevels : f[r] = none}
<1>0. NumSources \in Nat /\ MaxLevels \in Nat
  BY BookAssumption
<1>1. f = Rounds(d, srcs) /\ g = Search(d, srcs, at0)
  OBVIOUS
<1>2. \A i \in Sources : ~Left(srcs, at0, i)
  BY DEF Left
<1>3. none.levels = <<>> /\ none.at = at0
  OBVIOUS
<1>4. f[0] = none
  BY <1>1, RoundsStart, Zenon
<1> HIDE DEF f, g, at0, none
<1>5. NumSources \in G
  <2>1. g[0] = [price |-> Start(d), size |-> 0]
    BY <1>1, SearchStart
  <2>2. 0 \in G
    BY <1>0, <2>1
  <2>3. ASSUME NEW r \in 1..NumSources, r - 1 \in G PROVE r \in G
    <3>1. g[r] = IF Left(srcs, at0, r) THEN Compare(d, g[r - 1], NextOf(srcs, at0, r)) ELSE g[r - 1]
      BY <1>1, SearchStep
    <3>2. g[r] = g[r - 1]
      BY <1>2, <3>1 DEF Sources
    <3> QED
      BY <1>0, <2>3, <3>2
  <2> HIDE DEF G
  <2> QED
    BY <1>0, <2>2, <2>3, UpTo
<1>6. Search(d, srcs, none.at)[NumSources].size = 0
  BY <1>1, <1>3, <1>5
<1>7. Round(d, srcs, none) = none
  BY <1>6, Zenon DEF Round
<1>8. MaxLevels \in H
  <2>1. 0 \in H
    BY <1>0, <1>4
  <2>2. ASSUME NEW r \in 1..MaxLevels, r - 1 \in H PROVE r \in H
    <3>1. f[r] = Round(d, srcs, f[r - 1])
      BY <1>1, RoundsStep
    <3>2. f[r] = none
      BY <1>7, <2>2, <3>1
    <3> QED
      BY <1>0, <3>2
  <2> HIDE DEF H
  <2> QED
    BY <1>0, <2>1, <2>2, UpTo
<1> QED
  BY <1>1, <1>3, <1>8 DEF Merge

LEMMA BookInitially == Init => BookInv
<1> SUFFICES ASSUME Init PROVE BookInv
  OBVIOUS
<1>0. MaxLevels \in Nat
  BY BookAssumption
<1> DEFINE c == [i \in 1..MaxLevels |-> [price |-> 0, size |-> 0]]
<1>1. c \in Cells
  <2>1. [price |-> 0, size |-> 0] \in Level
    BY DEF Level
  <2> QED
    BY <2>1 DEF Cells
<1>2. book = [d \in Sides |-> [array |-> c, count |-> 0]]
  BY DEF Init
<1> HIDE DEF c
<1>3. book \in [Sides -> Side] /\ \A d \in Sides : book[d].count = 0
  BY <1>0, <1>1, <1>2 DEF Side
<1>4. /\ final \in [Sources -> [Sides -> Seq(Level)]]
      /\ \A s \in Sources, d \in Sides : final[s][d] = <<>>
      /\ inside = {} /\ updated = [s \in Sources |-> {}] /\ public = [d \in Sides |-> 0]
  BY DEF Init
<1>5. ASSUME NEW d \in Sides PROVE Holds(d, book[d], Srcs(d))
  <2>1. Srcs(d) = [s \in Sources |-> <<>>]
    BY <1>4 DEF Srcs
  <2>2. Merge(d, Srcs(d)) = <<>>
    BY <2>1, NoLevels
  <2> QED
    BY <1>3, <2>2 DEF Holds
<1>6. Types
  BY <1>0, <1>3, <1>4 DEF Types
<1> QED
  BY <1>4, <1>5, <1>6 DEF BookInv

\* Overwriting a side.
LEMMA Overwritten ==
  ASSUME NEW dst \in Side, NEW merged \in Seq(Level), Len(merged) \in 0..MaxLevels, NEW b,
         b = Overwrite(dst, merged)
  PROVE  /\ b \in Side /\ b.count = Len(merged)
         /\ \A i \in 1..b.count : b.array[i] = merged[i]
<1> DEFINE c == [i \in 1..MaxLevels |-> IF i <= Len(merged) THEN merged[i] ELSE dst.array[i]]
<1>0. MaxLevels \in Nat
  BY BookAssumption
<1>1. dst.array \in Cells
  BY DEF Side
<1>2. \A i \in 1..Len(merged) : merged[i] \in Level
  OBVIOUS
<1>3. ASSUME NEW i \in 1..MaxLevels PROVE (IF i <= Len(merged) THEN merged[i] ELSE dst.array[i]) \in Level
  <2>1. dst.array[i] \in Level
    BY <1>1 DEF Cells
  <2>2. i <= Len(merged) => merged[i] \in Level
    BY <1>0, <1>2
  <2> QED
    BY <2>1, <2>2
<1>4. c \in Cells
  BY <1>3 DEF Cells
<1>5. \A i \in 1..Len(merged) : c[i] = merged[i]
  BY <1>0
<1>6. b = [array |-> c, count |-> Len(merged)]
  BY DEF Overwrite
<1> HIDE DEF c
<1>7. b.array = c /\ b.count = Len(merged) /\ b \in Side
  BY <1>4, <1>6 DEF Side
<1> QED
  BY <1>5, <1>7

\* A source that has no levels on a side before and after leaves it as it is.
LEMMA SrcsKept ==
  ASSUME NEW d \in Sides, NEW s \in Sources, Types,
         NEW l, final' = [final EXCEPT ![s] = l], l[d] = final[s][d]
  PROVE  Srcs(d)' = Srcs(d)
<1>1. \A t \in Sources : final'[t][d] = final[t][d]
  BY DEF Types
<1> QED
  BY <1>1, Zenon DEF Srcs

LEMMA BeginStep ==
  ASSUME BookInv, NEW s \in Sources, BeginSnapshot(s)
  PROVE  BookInv'
<1> DEFINE l == [d \in Sides |-> <<>>]
<1>1. /\ final' = [final EXCEPT ![s] = l] /\ inside' = inside \cup {s}
      /\ updated' = updated /\ book' = book /\ public' = public
  BY DEF BeginSnapshot
<1>2. l \in [Sides -> Seq(Level)] /\ \A d \in Sides : l[d] = <<>>
  OBVIOUS
<1> HIDE DEF l
<1>3. \A t \in Sources : final'[t] = IF t = s THEN l ELSE final[t]
  BY <1>1 DEF BookInv, Types
<1>4. final' \in [Sources -> [Sides -> Seq(Level)]]
  BY <1>1, <1>2 DEF BookInv, Types
<1>5. Types'
  BY <1>1, <1>2, <1>3, <1>4 DEF BookInv, Types
<1>6. \A t \in Sources : \A d \in Sides : d \notin updated[t] => final'[t][d] = <<>>
  BY <1>2, <1>3 DEF BookInv
<1>7. ASSUME NEW d \in Sides, \A t \in inside' : d \notin updated[t]
      PROVE  Holds(d, book[d], Srcs(d)')
  <2>1. d \notin updated[s] /\ \A t \in inside : d \notin updated[t]
    BY <1>1, <1>7
  <2>2. Srcs(d)' = Srcs(d)
    <3>1. final[s][d] = <<>> /\ l[d] = final[s][d]
      BY <1>2, <2>1 DEF BookInv
    <3> QED
      BY <1>1, <3>1, SrcsKept DEF BookInv
  <2>3. Holds(d, book[d], Srcs(d))
    BY <2>1 DEF BookInv
  <2> QED
    BY <2>2, <2>3
<1> QED
  BY <1>1, <1>5, <1>6, <1>7 DEF BookInv

\* What the end of a transaction does to a side.
LEMMA EndSides ==
  ASSUME BookInv, NEW s \in Sources, NEW bids \in LevelsOf["buy"], NEW asks \in LevelsOf["sell"],
         NEW touched \in SUBSET Sides, EndTransaction(s, bids, asks, touched)
  PROVE  /\ Types'
         /\ \A t \in Sources : \A d \in Sides : d \notin updated'[t] => final'[t][d] = <<>>
         /\ \A d \in Sides : /\ d \in updated'[s] => book'[d] = Overwrite(book[d], Merge(d, Srcs(d)'))
                             /\ d \notin updated'[s] => book'[d] = book[d] /\ Srcs(d)' = Srcs(d)
         /\ \A d \in Sides : Srcs(d)' \in [Sources -> Seq(Level)]
         /\ \A d \in Sides : d \in updated'[s] => Holds(d, book'[d], Srcs(d)')
         /\ inside' = inside \ {s} /\ \A t \in Sources : t # s => updated'[t] = updated[t]
<1> DEFINE l == [buy |-> bids, sell |-> asks]
<1>1. /\ final' = [final EXCEPT ![s] = l] /\ inside' = inside \ {s}
      /\ updated' = [updated EXCEPT ![s] = @ \cup touched]
      /\ \A d \in Sides : l[d] # <<>> => d \in updated[s] \cup touched
  BY DEF EndTransaction
<1>2. /\ l["buy"] = bids /\ l["sell"] = asks
      /\ \A d \in Sides : l[d] \in LevelsOf[d] /\ l[d] \in Seq(Level)
      /\ l \in [Sides -> Seq(Level)]
  BY BookAssumption DEF Sides
<1> HIDE DEF l
<1>3. \A t \in Sources : final'[t] = IF t = s THEN l ELSE final[t]
  BY <1>1 DEF BookInv, Types
<1>4. final' \in [Sources -> [Sides -> Seq(Level)]]
  BY <1>1, <1>2 DEF BookInv, Types
<1>5. /\ updated' \in [Sources -> SUBSET Sides] /\ updated'[s] = updated[s] \cup touched
      /\ \A t \in Sources : t # s => updated'[t] = updated[t]
  BY <1>1 DEF BookInv, Types
<1>6. \A t \in Sources : \A d \in Sides : d \notin updated'[t] => final'[t][d] = <<>>
  BY <1>1, <1>3, <1>5 DEF BookInv
<1>7. \A d \in Sides : Srcs(d)' \in [Sources -> Seq(Level)]
  BY <1>4 DEF Srcs
<1>8. ASSUME NEW d \in Sides, d \notin updated'[s] PROVE Srcs(d)' = Srcs(d)
  <2>1. final[s][d] = <<>> /\ l[d] = <<>>
    BY <1>1, <1>5, <1>8 DEF BookInv
  <2>2. l[d] = final[s][d]
    BY <2>1
  <2> QED
    BY <1>1, <2>2, SrcsKept DEF BookInv
<1>9. ASSUME NEW d \in Sides
      PROVE  /\ d \in updated'[s] => book'[d] = Overwrite(book[d], Merge(d, Srcs(d)'))
             /\ d \notin updated'[s] => book'[d] = book[d]
  <2>1. CASE updated'[s] = {}
    BY <2>1 DEF EndTransaction
  <2>2. CASE updated'[s] # {}
    <3>1. BookUpdate(s)
      BY <2>2 DEF EndTransaction
    <3> QED
      BY <3>1, Zenon DEF BookUpdate, Srcs
  <2> QED
    BY <2>1, <2>2
<1>10. /\ book' = [d \in Sides |-> book'[d]]
       /\ public' \in [Sides -> 0..MaxLevels] \/ public' = [d \in Sides |-> book'[d].count]
  <2>1. CASE updated'[s] = {}
    BY <2>1 DEF EndTransaction, BookInv, Types
  <2>2. CASE updated'[s] # {}
    <3>1. BookUpdate(s)
      BY <2>2 DEF EndTransaction
    <3>2. book' = [d \in Sides |-> book'[d]]
      BY <3>1 DEF BookUpdate
    <3>3. public' = public \/ public' = [d \in Sides |-> book'[d].count]
      BY <3>1, Zenon DEF BookUpdate
    <3> QED
      BY <3>2, <3>3 DEF BookInv, Types
  <2> QED
    BY <2>1, <2>2
<1>11. ASSUME NEW d \in Sides
       PROVE  book'[d] \in Side /\ (d \in updated'[s] => Holds(d, book'[d], Srcs(d)'))
  <2>1. CASE d \in updated'[s]
    <3>1. PICK b, srcs : b = book'[d] /\ srcs = Srcs(d)'
      OBVIOUS
    <3>2. b = Overwrite(book[d], Merge(d, srcs)) /\ srcs \in [Sources -> Seq(Level)]
      BY <1>7, <1>9, <2>1, <3>1
    <3>3. Merge(d, srcs) \in Seq(Level) /\ Len(Merge(d, srcs)) \in 0..MaxLevels
      BY <3>2, MergeType
    <3>4. book[d] \in Side
      BY DEF BookInv, Types
    <3>5. b \in Side /\ Holds(d, b, srcs)
      BY <3>2, <3>3, <3>4, Overwritten DEF Holds
    <3> QED
      BY <3>1, <3>5
  <2>2. CASE d \notin updated'[s]
    BY <1>9, <2>2 DEF BookInv, Types
  <2> QED
    BY <2>1, <2>2
<1>12. book' \in [Sides -> Side]
  BY <1>10, <1>11
<1>13. public' \in [Sides -> 0..MaxLevels]
  <2>1. \A d \in Sides : book'[d].count \in 0..MaxLevels
    BY <1>11 DEF Side
  <2> QED
    BY <1>10, <2>1
<1>14. Types'
  <2>1. \A t \in Sources, d \in Sides : final'[t][d] \in LevelsOf[d] \cup {<<>>}
    BY <1>2, <1>3 DEF BookInv, Types
  <2>2. inside' \subseteq Sources
    BY <1>1 DEF BookInv, Types
  <2> QED
    BY <1>4, <1>5, <1>12, <1>13, <2>1, <2>2 DEF Types
<1> QED
  BY <1>1, <1>5, <1>6, <1>7, <1>8, <1>9, <1>11, <1>14

LEMMA BookStep == BookInv /\ [Next]_vars => BookInv'
<1> SUFFICES ASSUME BookInv, [Next]_vars PROVE BookInv'
  OBVIOUS
<1>1. ASSUME NEW s \in Sources, BeginSnapshot(s) PROVE BookInv'
  BY <1>1, BeginStep
<1>2. ASSUME NEW s \in Sources, NEW bids \in LevelsOf["buy"], NEW asks \in LevelsOf["sell"],
             NEW touched \in SUBSET Sides, EndTransaction(s, bids, asks, touched)
      PROVE  BookInv'
  <2>1. /\ Types'
        /\ \A t \in Sources : \A d \in Sides : d \notin updated'[t] => final'[t][d] = <<>>
        /\ \A d \in Sides : d \notin updated'[s] => book'[d] = book[d] /\ Srcs(d)' = Srcs(d)
        /\ \A d \in Sides : d \in updated'[s] => Holds(d, book'[d], Srcs(d)')
        /\ inside' = inside \ {s} /\ \A t \in Sources : t # s => updated'[t] = updated[t]
    BY <1>2, EndSides
  <2>2. ASSUME NEW d \in Sides, \A t \in inside' : d \notin updated'[t]
        PROVE  Holds(d, book'[d], Srcs(d)')
    <3>1. CASE d \in updated'[s]
      BY <2>1, <3>1
    <3>2. CASE d \notin updated'[s]
      <4>1. d \notin updated[s]
        BY <1>2, <3>2 DEF EndTransaction, BookInv, Types
      <4>2. \A t \in inside : d \notin updated[t]
        BY <2>1, <2>2, <4>1 DEF BookInv, Types
      <4>3. Holds(d, book[d], Srcs(d))
        BY <4>2 DEF BookInv
      <4> QED
        BY <2>1, <3>2, <4>3
    <3> QED
      BY <3>1, <3>2
  <2> QED
    BY <2>1, <2>2 DEF BookInv
<1>3. CASE UNCHANGED vars
  BY <1>3 DEF BookInv, Types, Srcs, vars
<1> QED
  BY <1>1, <1>2, <1>3 DEF Next

\* A side of the book is the merge of the sources' final levels, unless a source
\* that has updated it is inside a snapshot (dx_plb_book_update).
THEOREM BookInvariant == Spec => []BookInv
BY BookInitially, BookStep, PTL DEF Spec

\* The prices that the search can beat its start with: no bid is negative and no
\* ask is above Top.  Levels outside this range are passed over by the code.
InRange ==
  \A d \in Sides : \A levels \in LevelsOf[d] :
    \A i \in 1..Len(levels) : ~Better(d, Start(d), levels[i].price)

\* When no source is inside a snapshot, the book holds the best levels of all its
\* sources together, for any number of sources, levels and prices in range,
\* although an update merges only the sides its source has ever touched
\* (dx_plb_book_update, dx_plb_book_update_one_side).
THEOREM BookExactTheorem == ASSUME InRange PROVE Spec => []BookExact
<1>1. BookInv => BookExact
  <2> SUFFICES ASSUME BookInv, inside = {}, NEW d \in Sides
               PROVE  IsBest(Levels(book)[d], d, Srcs(d))
    BY DEF BookExact, Srcs
  <2>0. MaxLevels \in Nat
    BY BookAssumption
  <2>1. PICK srcs : srcs = Srcs(d)
    OBVIOUS
  <2>2. srcs \in [Sources -> Seq(Level)]
    BY <2>1 DEF BookInv, Types, Srcs
  <2>3. Sound(d, srcs)
    <3>1. ASSUME NEW s \in Sources
          PROVE  /\ \A i \in 1..Len(srcs[s]) : srcs[s][i].size # 0 /\ ~Better(d, Start(d), srcs[s][i].price)
                 /\ \A i, j \in 1..Len(srcs[s]) : i < j => Better(d, srcs[s][i].price, srcs[s][j].price)
      <4>1. srcs[s] = final[s][d]
        BY <2>1 DEF Srcs
      <4>2. srcs[s] \in LevelsOf[d] \/ srcs[s] = <<>>
        BY <4>1 DEF BookInv, Types
      <4>3. CASE srcs[s] \in LevelsOf[d]
        BY <4>3, BookAssumption DEF InRange
      <4>4. CASE srcs[s] = <<>>
        BY <4>4
      <4> QED
        BY <4>2, <4>3, <4>4
    <3> QED
      BY <2>2, <3>1 DEF Sound
  <2>4. Holds(d, book[d], srcs)
    BY <2>1 DEF BookInv
  <2>5. PICK c, n, m : c = book[d].array /\ n = book[d].count /\ m = Merge(d, srcs)
    OBVIOUS
  <2>6. c \in Cells /\ n \in 0..MaxLevels
    BY <2>5 DEF BookInv, Types, Side
  <2>7. m \in Seq(Level) /\ n = Len(m) /\ \A i \in 1..n : c[i] = m[i]
    BY <2>2, <2>4, <2>5, MergeType DEF Holds
  <2>8. SubSeq(c, 1, n) = m
    <3>1. c \in Seq(Level) /\ Len(c) = MaxLevels
      BY <2>0, <2>6 DEF Cells
    <3>2. /\ SubSeq(c, 1, n) \in Seq(Level) /\ Len(SubSeq(c, 1, n)) = n
          /\ \A i \in 1..n : SubSeq(c, 1, n)[i] = c[i]
      BY <2>0, <2>6, <3>1
    <3> QED
      BY <2>7, <3>2, SeqEqual
  <2>9. Levels(book)[d] = m
    BY <2>5, <2>8 DEF Levels
  <2> QED
    BY <2>1, <2>3, <2>5, <2>9, MergeExact
<1> QED
  BY <1>1, BookInvariant, PTL

\* The listeners of the book are called only when what they are shown has
\* changed, for any levels of the sources (dx_plb_book_update).
THEOREM CalledOnlyOnChangeTheorem == Spec => CalledOnlyOnChange
<1>1. BookInv /\ [Next]_vars => [called' => Shown(book, public)' # Shown(book, public)]_vars
  <2> SUFFICES ASSUME BookInv, Next, called', Shown(book, public)' = Shown(book, public)
               PROVE  FALSE
    OBVIOUS
  <2>0. MaxLevels \in Nat
    BY BookAssumption
  <2>1. PICK s \in Sources : \E bids \in LevelsOf["buy"], asks \in LevelsOf["sell"], touched \in SUBSET Sides :
                               EndTransaction(s, bids, asks, touched)
    BY DEF Next, BeginSnapshot
  <2>2. PICK bids \in LevelsOf["buy"], asks \in LevelsOf["sell"], touched \in SUBSET Sides :
               EndTransaction(s, bids, asks, touched)
    BY <2>1
  <2>3. BookUpdate(s)
    BY <2>2 DEF EndTransaction
  <2>4. /\ Types' /\ \A d \in Sides : Srcs(d)' \in [Sources -> Seq(Level)]
        /\ \A d \in Sides : d \in updated'[s] => book'[d] = Overwrite(book[d], Merge(d, Srcs(d)'))
    BY <2>2, EndSides
  <2>5. PICK d \in updated'[s] : Changed(book[d], Merge(d, Srcs(d)'))
    BY <2>3, Zenon DEF BookUpdate, Srcs
  <2>6. public' = [x \in Sides |-> book'[x].count]
    BY <2>3, Zenon DEF BookUpdate
  <2>7. d \in Sides
    BY <2>4, <2>5 DEF Types
  <2>8. PICK m, c, n, e, k : /\ m = Merge(d, Srcs(d)') /\ c = book[d].array /\ n = public[d]
                             /\ e = book'[d].array /\ k = public'[d]
    OBVIOUS
  <2>9. m \in Seq(Level) /\ Len(m) \in 0..MaxLevels
    BY <2>4, <2>7, <2>8, MergeType
  <2>10. book[d] \in Side /\ n \in 0..MaxLevels
    BY <2>7, <2>8 DEF BookInv, Types
  <2>11. book'[d] \in Side /\ k = Len(m) /\ \A i \in 1..k : e[i] = m[i]
    BY <2>4, <2>5, <2>6, <2>7, <2>8, <2>9, <2>10, Overwritten
  <2>12. PICK i \in 1..k : e[i] # c[i]
    BY <2>5, <2>8, <2>11 DEF Changed
  <2>13. c \in Seq(Level) /\ e \in Seq(Level) /\ Len(c) = MaxLevels /\ Len(e) = MaxLevels
    BY <2>0, <2>8, <2>10, <2>11 DEF Side, Cells
  <2>14. SubSeq(e, 1, k) = SubSeq(c, 1, n)
    BY <2>7, <2>8 DEF Shown
  <2>15. /\ Len(SubSeq(e, 1, k)) = k /\ Len(SubSeq(c, 1, n)) = n
         /\ SubSeq(e, 1, k)[i] = e[i] /\ (i <= n => SubSeq(c, 1, n)[i] = c[i])
    BY <2>0, <2>9, <2>10, <2>11, <2>12, <2>13
  <2>16. k = n /\ i <= n
    <3>1. k = n
      BY <2>14, <2>15, Zenon
    <3>2. i <= k
      BY <2>9, <2>11
    <3> QED
      BY <3>1, <3>2
  <2>17. e[i] = c[i]
    BY <2>14, <2>15, <2>16
  <2> QED
    BY <2>12, <2>17
<1> QED
  BY <1>1, BookInvariant, PTL DEF Spec, CalledOnlyOnChange
-----------------------------------------------------------------------------
Ahead(d, S, p) == {q \in S : Better(d, q, p)}
Best(d, S) == {p \in S : Cardinality(Ahead(d, S, p)) < MaxLevels}

LEMMA AheadFinite ==
  ASSUME NEW d, NEW S, IsFiniteSet(S), NEW T \in SUBSET S, NEW p
  PROVE  /\ IsFiniteSet(Ahead(d, T, p)) /\ Cardinality(Ahead(d, T, p)) \in Nat
         /\ IsFiniteSet(Ahead(d, S, p)) /\ Cardinality(Ahead(d, S, p)) \in Nat
         /\ Cardinality(Ahead(d, T, p)) <= Cardinality(Ahead(d, S, p))
<1>1. Ahead(d, T, p) \in SUBSET Ahead(d, S, p) /\ Ahead(d, S, p) \in SUBSET S
  BY DEF Ahead
<1>2. IsFiniteSet(Ahead(d, S, p))
  BY <1>1, FS_Subset
<1> QED
  BY <1>1, <1>2, FS_Subset, FS_CardinalityType

\* A set of finitely many prices that is not empty has a best one.
LEMMA BestOf ==
  ASSUME NEW d \in Sides, NEW S \in SUBSET Int, IsFiniteSet(S), NEW T \in SUBSET S, T # {}
  PROVE  \E m \in T : \A q \in T : ~Better(d, q, m)
<1> DEFINE Up(p) == Ahead(d, S, p)
           Sets == {Up(p) : p \in T}
<1>1. \A p \in T : IsFiniteSet(Up(p)) /\ Up(p) \in SUBSET S
  <2>1. \A p \in T : IsFiniteSet(Up(p))
    BY AheadFinite
  <2> QED
    BY <2>1 DEF Ahead
<1>2. Sets \subseteq FiniteSubsetsOf(S) /\ Sets # {}
  <2> HIDE DEF Up
  <2> QED
    BY <1>1 DEF FiniteSubsetsOf
<1>3. PICK U \in Sets : \A V \in Sets : ~(<<V, U>> \in StrictSubsetOrdering(S))
  <2> HIDE DEF Sets
  <2> QED
    BY <1>2, WFMin, FS_StrictSubsetOrderingWellFounded
<1>4. PICK m \in T : U = Up(m)
  OBVIOUS
<1>5. ASSUME NEW q \in T, Better(d, q, m) PROVE FALSE
  <2>1. q \in Int /\ m \in Int /\ q \in S
    OBVIOUS
  <2>2. q \in Up(m) /\ q \notin Up(q)
    BY <1>5, <2>1, SidesOrdered DEF Ahead
  <2>3. Up(q) \subseteq Up(m)
    <3>1. \A x \in Int : Better(d, x, q) => Better(d, x, m)
      BY <1>5, <2>1, SidesOrdered
    <3> QED
      BY <3>1 DEF Ahead
  <2>4. Up(q) \in Sets /\ Up(q) \in SUBSET S /\ Up(m) \in SUBSET S
    BY <1>1
  <2> HIDE DEF Up, Sets
  <2> QED
    BY <1>3, <1>4, <2>2, <2>3, <2>4 DEF StrictSubsetOrdering
<1> QED
  BY <1>5

\* The best prices of all sets together are among the best of each set that has
\* them: what a source drops can never be missed by the book.
LEMMA BestOfUnion ==
  ASSUME NEW d \in Sides, NEW P, \A s \in Sources : IsFiniteSet(P[s]) /\ P[s] \subseteq Int,
         NEW A, A = UNION {P[s] : s \in Sources},
         NEW U, U = UNION {Best(d, P[s]) : s \in Sources}
  PROVE  /\ Best(d, U) = Best(d, A)
         /\ \A p \in Best(d, A), s \in Sources : p \in P[s] => p \in Best(d, P[s])
<1>0. NumSources \in Nat /\ MaxLevels \in Nat \ {0}
  BY BookAssumption
<1>1. A \subseteq Int /\ U \in SUBSET A /\ \A s \in Sources : P[s] \in SUBSET A
  BY DEF Best
<1>2. IsFiniteSet(A)
  <2> DEFINE f == [s \in 1..NumSources |-> P[s]]
             S == {P[s] : s \in Sources}
  <2>1. DOMAIN f = 1..NumSources /\ f = [s \in 1..NumSources |-> f[s]] /\ \A x \in S : \E s \in 1..NumSources : x = f[s]
    BY DEF Sources
  <2>2. IsFiniteSet(S)
    <3> HIDE DEF f, S
    <3> QED
      BY <1>0, <2>1, Image
  <2> QED
    BY <2>2, FS_UNION
<1>3. ASSUME NEW p \in Best(d, A), NEW s \in Sources, p \in P[s] PROVE p \in Best(d, P[s])
  <2>1. /\ Cardinality(Ahead(d, P[s], p)) <= Cardinality(Ahead(d, A, p))
        /\ Cardinality(Ahead(d, P[s], p)) \in Nat /\ Cardinality(Ahead(d, A, p)) \in Nat
    BY <1>1, <1>2, AheadFinite
  <2>2. Cardinality(Ahead(d, A, p)) < MaxLevels
    BY <1>3 DEF Best
  <2>3. Cardinality(Ahead(d, P[s], p)) < MaxLevels
    BY <1>0, <2>1, <2>2
  <2> QED
    BY <1>3, <2>3 DEF Best
<1>4. ASSUME NEW p \in Best(d, A) PROVE p \in Best(d, U)
  <2>1. p \in A /\ Cardinality(Ahead(d, A, p)) < MaxLevels
    BY <1>4 DEF Best
  <2>2. PICK s \in Sources : p \in P[s]
    BY <2>1
  <2>3. p \in U
    BY <1>3, <2>2
  <2>4. /\ Cardinality(Ahead(d, U, p)) <= Cardinality(Ahead(d, A, p))
        /\ Cardinality(Ahead(d, U, p)) \in Nat /\ Cardinality(Ahead(d, A, p)) \in Nat
    BY <1>1, <1>2, AheadFinite
  <2>5. Cardinality(Ahead(d, U, p)) < MaxLevels
    BY <1>0, <2>1, <2>4
  <2> QED
    BY <2>3, <2>5 DEF Best
\* A price that is missing from U and better than p is behind MaxLevels others;
\* if it is the best of those, all that are before it are in U.
<1>5. ASSUME NEW p \in Best(d, U) PROVE Ahead(d, A, p) \subseteq U
  <2> DEFINE T == Ahead(d, A, p) \ U
  <2> SUFFICES ASSUME T # {} PROVE FALSE
    OBVIOUS
  <2>0. p \in Int /\ Cardinality(Ahead(d, U, p)) < MaxLevels
    BY <1>1, <1>5 DEF Best
  <2>1. T \in SUBSET A
    BY DEF Ahead
  <2>2. PICK m \in T : \A q \in T : ~Better(d, q, m)
    <3> HIDE DEF T
    <3> QED
      BY <1>1, <1>2, <2>1, BestOf
  <2>3. m \in A /\ m \in Int /\ Better(d, m, p) /\ m \notin U
    BY <1>1, <2>2 DEF Ahead
  <2>4. PICK s \in Sources : m \in P[s]
    BY <2>3
  <2>5. ~(Cardinality(Ahead(d, P[s], m)) < MaxLevels)
    BY <2>3, <2>4 DEF Best
  <2>6. Ahead(d, P[s], m) \in SUBSET Ahead(d, U, p)
    <3> SUFFICES ASSUME NEW q \in P[s], Better(d, q, m) PROVE q \in U /\ Better(d, q, p)
      BY DEF Ahead
    <3>1. q \in A /\ q \in Int
      BY <1>1
    <3>2. Better(d, q, p)
      BY <2>0, <2>3, <3>1, SidesOrdered
    <3>3. q \in U
      BY <2>2, <3>1, <3>2 DEF Ahead
    <3> QED
      BY <3>2, <3>3
  <2>7. IsFiniteSet(Ahead(d, U, p)) /\ Cardinality(Ahead(d, U, p)) \in Nat
    BY <1>1, <1>2, AheadFinite
  <2>8. /\ IsFiniteSet(Ahead(d, P[s], m)) /\ Cardinality(Ahead(d, P[s], m)) <= Cardinality(Ahead(d, U, p))
    BY <2>6, <2>7, FS_Subset
  <2>9. Cardinality(Ahead(d, P[s], m)) \in Nat
    BY <2>8, FS_CardinalityType
  <2> QED
    BY <1>0, <2>0, <2>5, <2>7, <2>8, <2>9
<1>6. ASSUME NEW p \in Best(d, U) PROVE p \in Best(d, A)
  <2>1. Ahead(d, A, p) = Ahead(d, U, p)
    BY <1>1, <1>5 DEF Ahead
  <2> QED
    BY <1>1, <2>1 DEF Best
<1>7. Best(d, U) = Best(d, A)
  BY <1>4, <1>6
<1> QED
  BY <1>3, <1>7

-----------------------------------------------------------------------------
\* The book together with its sources: source s has the orders orders[s], and its
\* final levels are those the book merges.
CONSTANTS NumOrders, Orders, NoOrder, Precise
VARIABLES orders, status, side
Source(s) == INSTANCE PriceLevelSource WITH orders <- orders[s], status <- status[s],
                                            side <- side[s], final <- final[s]

\* Reference: the prices of all orders of all sources, and the total size there.
PricesIn(d, s) == Source(s)!PricesOf(d, orders[s])
AllPrices(d) == UNION {PricesIn(d, s) : s \in Sources}
AllSizes(d, p) == [s \in Sources |-> IF p \in PricesIn(d, s) THEN Source(s)!SizeAt(d, orders[s], p) ELSE 0]
BestOfAllOrders(levels, d) ==
  /\ {levels[i].price : i \in 1..Len(levels)} = Best(d, AllPrices(d))
  /\ \A i \in 1..Len(levels) : levels[i].size = Sums(AllSizes(d, levels[i].price))[NumSources]
  /\ \A i, j \in 1..Len(levels) : i < j => Better(d, levels[i].price, levels[j].price)

\* When every source has ended its transaction (PriceLevelSource shows that its
\* levels are then exact, if no size was rounded and no order is without a side)
\* and the book is exact, the book shows the best levels
\* of all the orders of all sources, although each source drops the orders that
\* do not fit into its own levels before the book sees them.
THEOREM BookOfAllOrders ==
  ASSUME \A s \in Sources : /\ Source(s)!PriceLevelAssumption
                            /\ orders[s] \in [Source(s)!Indices -> Orders \cup {NoOrder}]
                            /\ status[s] = "full" /\ Source(s)!FinalLevelsExact
                            /\ \A d \in Sides : ~side[s][d].vague,
         inside = {}, BookExact
  PROVE  \A d \in Sides : BestOfAllOrders(Levels(book)[d], d)
<1> TAKE d \in Sides
<1> DEFINE P == [s \in Sources |-> PricesIn(d, s)]
           srcs == [s \in Sources |-> final[s][d]]
           levels == Levels(book)[d]
<1>1. IsBest(levels, d, srcs)
  BY DEF BookExact
<1>2. ASSUME NEW s \in Sources PROVE IsFiniteSet(P[s]) /\ P[s] \subseteq Int
  <2> DEFINE f == [k \in 1..NumOrders |-> orders[s][k].price]
  <2>1. /\ NumOrders \in Nat
        /\ Orders \subseteq [side : {"buy", "sell", "undefined"}, price : Int, size : Nat \ {0}]
    BY DEF Source!PriceLevelAssumption
  <2>2. orders[s] \in [1..NumOrders -> Orders \cup {NoOrder}]
    BY DEF Source!Indices
  <2>3. P[s] = {orders[s][k].price : k \in {j \in 1..NumOrders : orders[s][j] # NoOrder /\ orders[s][j].side = d}}
    BY DEF PricesIn, Source!PricesOf, Source!Indices, Source!OnSide
  <2>4. \A x \in P[s] : \E k \in 1..NumOrders : x = f[k]
    BY <2>3
  <2>5. DOMAIN f = 1..NumOrders /\ f = [k \in 1..NumOrders |-> f[k]]
    OBVIOUS
  <2>6. P[s] \subseteq Int
    <3>1. \A k \in 1..NumOrders : orders[s][k] # NoOrder => orders[s][k] \in Orders
      BY <2>2
    <3> QED
      BY <2>1, <2>3, <3>1
  <2> HIDE DEF f, P
  <2> QED
    BY <2>1, <2>4, <2>5, <2>6, Image
<1>3. ASSUME NEW s \in Sources
      PROVE  /\ {srcs[s][i].price : i \in 1..Len(srcs[s])} = Best(d, P[s])
             /\ \A i \in 1..Len(srcs[s]) : srcs[s][i].size = Source(s)!SizeAt(d, orders[s], srcs[s][i].price)
  <2>1. d \in Source(s)!Sides
    BY DEF Sides, Source!Sides
  <2>2. Source(s)!IsBest(srcs[s], d, orders[s])
    BY <2>1 DEF Source!FinalLevelsExact
  <2>3. Source(s)!BestPrices(d, orders[s]) = Best(d, P[s])
    <3> DEFINE X == Source(s)!PricesOf(d, orders[s])
    <3>1. P[s] = X
      BY DEF PricesIn
    <3>2. \A p : {q \in X : Source(s)!Better(d, q, p)} = Ahead(d, X, p)
      BY DEF Source!Better, Ahead, Better
    <3>3. Source(s)!BestPrices(d, orders[s]) = {p \in X : Cardinality({q \in X : Source(s)!Better(d, q, p)}) < MaxLevels}
      <4>1. \A S : Source(s)!Cardinality(S) = Cardinality(S)
        BY Zenon DEF Source!Cardinality, Cardinality
      <4> QED
        BY <4>1 DEF Source!BestPrices
    <3> HIDE DEF X, P
    <3>4. {p \in X : Cardinality({q \in X : Source(s)!Better(d, q, p)}) < MaxLevels} = Best(d, X)
      <4>1. \A p : Cardinality({q \in X : Source(s)!Better(d, q, p)}) = Cardinality(Ahead(d, X, p))
        BY <3>2
      <4> QED
        BY <4>1 DEF Best
    <3> QED
      BY <3>1, <3>3, <3>4
  <2> QED
    BY <2>2, <2>3 DEF Source!IsBest
<1>4. AllPrices(d) = UNION {P[s] : s \in Sources}
  BY DEF AllPrices
<1>5. Prices(srcs) = UNION {Best(d, P[s]) : s \in Sources}
  <2> DEFINE Q(s) == {srcs[s][i].price : i \in 1..Len(srcs[s])}
  <2>1. Prices(srcs) = UNION {Q(s) : s \in Sources}
    BY DEF Prices
  <2>2. \A s \in Sources : Q(s) = Best(d, P[s])
    BY <1>3
  <2> HIDE DEF srcs, P, Q
  <2> QED
    BY <2>1, <2>2
<1>6. /\ Best(d, Prices(srcs)) = Best(d, AllPrices(d))
      /\ \A p \in Best(d, AllPrices(d)), s \in Sources : p \in P[s] => p \in Best(d, P[s])
  <2> HIDE DEF P, srcs
  <2> QED
    BY <1>2, <1>4, <1>5, BestOfUnion
<1>7. {levels[i].price : i \in 1..Len(levels)} = Best(d, AllPrices(d))
  <2>1. {levels[i].price : i \in 1..Len(levels)} = Best(d, Prices(srcs))
    BY <1>1 DEF IsBest, Best, Ahead
  <2> QED
    BY <1>6, <2>1
<1>8. ASSUME NEW i \in 1..Len(levels) PROVE levels[i].size = Sums(AllSizes(d, levels[i].price))[NumSources]
  <2> DEFINE p == levels[i].price
  <2>1. p \in Best(d, AllPrices(d))
    BY <1>7
  <2>2. levels[i].size = SizeAt(srcs, p)
    BY <1>1 DEF IsBest
  <2> HIDE DEF levels, srcs, P, p
  <2>3. ASSUME NEW s \in Sources
        PROVE  SizeIn(srcs[s], p) = IF p \in P[s] THEN Source(s)!SizeAt(d, orders[s], p) ELSE 0
    <3> DEFINE at == {k \in 1..Len(srcs[s]) : srcs[s][k].price = p}
    <3>1. at # {} <=> p \in P[s]
      <4>1. p \in P[s] <=> p \in Best(d, P[s])
        BY <1>6, <2>1 DEF Best
      <4>2. p \in Best(d, P[s]) <=> \E k \in 1..Len(srcs[s]) : srcs[s][k].price = p
        <5>1. Best(d, P[s]) = {srcs[s][k].price : k \in 1..Len(srcs[s])}
          BY <1>3
        <5> QED
          BY ONLY <5>1
      <4> QED
        BY <4>1, <4>2
    <3>2. SizeIn(srcs[s], p) = IF at = {} THEN 0 ELSE srcs[s][CHOOSE k \in at : TRUE].size
      BY DEF SizeIn
    <3>3. ASSUME at # {} PROVE srcs[s][CHOOSE k \in at : TRUE].size = Source(s)!SizeAt(d, orders[s], p)
      <4>1. PICK k \in at : k = CHOOSE x \in at : TRUE
        BY <3>3
      <4> QED
        BY <1>3, <4>1
    <3> QED
      BY <3>1, <3>2, <3>3
  <2>4. [s \in Sources |-> SizeIn(srcs[s], p)] = AllSizes(d, p)
    BY <2>3 DEF AllSizes, P
  <2> QED
    BY <2>2, <2>4 DEF SizeAt, p
<1> QED
  BY <1>1, <1>7, <1>8 DEF BestOfAllOrders, IsBest
=============================================================================
