---------------------- MODULE PriceLevelSourceProofs ----------------------
(***************************************************************************)
(* Proofs about PriceLevelSource, for any orders and any number of levels. *)
(***************************************************************************)
EXTENDS PriceLevelSource, FiniteSetTheorems, FunctionTheorems, WellFoundedInduction, SequenceTheorems, TLAPS

\* A set of natural numbers has a least one: the intervals below them, ordered
\* by inclusion, are well founded.
LEMMA Least ==
  ASSUME NEW T \in SUBSET Nat, T # {}
  PROVE  \E m \in T : \A n \in T : m <= n
<1> DEFINE Up(n) == 0..(n - 1)
           Sets == {Up(n) : n \in T}
<1>1. \A n \in T : IsFiniteSet(Up(n)) /\ Up(n) \in SUBSET Nat
  BY FS_Interval
<1>2. Sets \subseteq FiniteSubsetsOf(Nat) /\ Sets # {}
  BY <1>1 DEF FiniteSubsetsOf
<1>3. PICK U \in Sets : \A V \in Sets : ~(<<V, U>> \in StrictSubsetOrdering(Nat))
  <2> HIDE DEF Sets
  <2> QED
    BY <1>2, WFMin, FS_StrictSubsetOrderingWellFounded
<1>4. PICK m \in T : U = Up(m)
  OBVIOUS
<1>5. ASSUME NEW n \in T PROVE m <= n
  <2>1. Up(n) \in Sets /\ Up(n) \in SUBSET Nat /\ Up(m) \in SUBSET Nat
    BY <1>1
  <2>2. ~(Up(n) \subseteq Up(m) /\ Up(n) # Up(m))
    <3> HIDE DEF Up, Sets
    <3> QED
      BY <1>3, <1>4, <2>1 DEF StrictSubsetOrdering
  <2>3. ASSUME n < m PROVE FALSE
    <3>1. n \in Up(m) /\ n \notin Up(n)
      BY <2>3
    <3>2. Up(n) \subseteq Up(m)
      BY <2>3
    <3> QED
      BY <2>2, <3>1, <3>2
  <2> QED
    BY <2>3
<1> QED
  BY <1>5

\* Induction up to N, with a set in the place of a predicate.
LEMMA UpTo ==
  ASSUME NEW N \in Nat, NEW G, 0 \in G, \A n \in 1..N : n - 1 \in G => n \in G
  PROVE  \A n \in 0..N : n \in G
<1> DEFINE T == {n \in 0..N : n \notin G}
<1> SUFFICES ASSUME T # {} PROVE FALSE
  OBVIOUS
<1>1. T \in SUBSET Nat
  OBVIOUS
<1>2. PICK m \in T : \A n \in T : m <= n
  <2> HIDE DEF T
  <2> QED
    BY <1>1, Least
<1>3. m \in 1..N /\ m - 1 \notin T
  BY <1>2
<1> QED
  BY <1>3

-----------------------------------------------------------------------------
\* The recursive functions of the model exist, and satisfy their definitions.
LEMMA SumsDef ==
  ASSUME NEW e
  PROVE  Sums(e) =
           [r \in 0..NumOrders |-> IF r = 0 THEN 0
                                 ELSE Sums(e)[r - 1] + e[r]]
<1> DEFINE Zeroth == 0
           Body(f, r) == IF r = 0 THEN Zeroth ELSE f[r - 1] + e[r]
           G == {m \in 0..NumOrders : \E f : f = [r \in 0..m |-> Body(f, r)]}
<1>0. NumOrders \in Nat
  BY PriceLevelAssumption
<1> HIDE DEF Zeroth
<1>1. 0 \in G
  <2> DEFINE g == [r \in 0..0 |-> Zeroth]
  <2>1. g = [r \in 0..0 |-> Body(g, r)]
    OBVIOUS
  <2>2. \E f : f = [r \in 0..0 |-> Body(f, r)]
    <3> HIDE DEF g, Body
    <3> QED
      BY <2>1
  <2> QED
    BY <1>0, <2>2
<1>2. ASSUME NEW m \in 1..NumOrders, m - 1 \in G PROVE m \in G
  <2>1. PICK f : f = [r \in 0..(m - 1) |-> Body(f, r)]
    BY <1>2
  <2> DEFINE g == [r \in 0..m |-> IF r < m THEN f[r] ELSE Body(f, m)]
  <2>2. ASSUME NEW r \in 0..m PROVE g[r] = Body(g, r)
    <3>1. CASE r = 0
      <4>1. f[0] = Zeroth
        BY <2>1, <1>0
      <4> QED
        BY <3>1, <4>1, <1>0
    <3>2. CASE r # 0
      <4>1. g[r - 1] = f[r - 1]
        BY <3>2, <1>0
      <4>2. g[r] = Body(f, r)
        BY <2>1, <1>0
      <4> QED
        BY <4>1, <4>2, <3>2
    <3> QED
      BY <3>1, <3>2
  <2>3. g = [r \in 0..m |-> Body(g, r)]
    BY <2>2
  <2>4. \E h : h = [r \in 0..m |-> Body(h, r)]
    <3> HIDE DEF g, Body
    <3> QED
      BY <2>3
  <2> QED
    BY <2>4
<1>3. NumOrders \in G
  <2> HIDE DEF G
  <2> QED
    BY <1>0, <1>1, <1>2, UpTo
<1>4. \E f : f = [r \in 0..NumOrders |-> Body(f, r)]
  BY <1>3
<1> QED
  BY <1>4, Zenon DEF Sums, Zeroth

LEMMA RebuildDef ==
  ASSUME NEW d, NEW table
  PROVE  Rebuild(d, table) =
           [r \in 0..NumOrders |-> IF r = 0 THEN [levels |-> <<>>, rebuild |-> FALSE, updated |-> TRUE, vague |-> FALSE]
                                 ELSE IF OnSide(d, table[r]) THEN AddOrder(d, Rebuild(d, table)[r - 1], table[r]) ELSE Rebuild(d, table)[r - 1]]
<1> DEFINE Zeroth == [levels |-> <<>>, rebuild |-> FALSE, updated |-> TRUE, vague |-> FALSE]
           Body(f, r) == IF r = 0 THEN Zeroth ELSE IF OnSide(d, table[r]) THEN AddOrder(d, f[r - 1], table[r]) ELSE f[r - 1]
           G == {m \in 0..NumOrders : \E f : f = [r \in 0..m |-> Body(f, r)]}
<1>0. NumOrders \in Nat
  BY PriceLevelAssumption
<1> HIDE DEF Zeroth
<1>1. 0 \in G
  <2> DEFINE g == [r \in 0..0 |-> Zeroth]
  <2>1. g = [r \in 0..0 |-> Body(g, r)]
    OBVIOUS
  <2>2. \E f : f = [r \in 0..0 |-> Body(f, r)]
    <3> HIDE DEF g, Body
    <3> QED
      BY <2>1
  <2> QED
    BY <1>0, <2>2
<1>2. ASSUME NEW m \in 1..NumOrders, m - 1 \in G PROVE m \in G
  <2>1. PICK f : f = [r \in 0..(m - 1) |-> Body(f, r)]
    BY <1>2
  <2> DEFINE g == [r \in 0..m |-> IF r < m THEN f[r] ELSE Body(f, m)]
  <2>2. ASSUME NEW r \in 0..m PROVE g[r] = Body(g, r)
    <3>1. CASE r = 0
      <4>1. f[0] = Zeroth
        BY <2>1, <1>0
      <4> QED
        BY <3>1, <4>1, <1>0
    <3>2. CASE r # 0
      <4>1. g[r - 1] = f[r - 1]
        BY <3>2, <1>0
      <4>2. g[r] = Body(f, r)
        BY <2>1, <1>0
      <4> QED
        BY <4>1, <4>2, <3>2
    <3> QED
      BY <3>1, <3>2
  <2>3. g = [r \in 0..m |-> Body(g, r)]
    BY <2>2
  <2>4. \E h : h = [r \in 0..m |-> Body(h, r)]
    <3> HIDE DEF g, Body
    <3> QED
      BY <2>3
  <2> QED
    BY <2>4
<1>3. NumOrders \in G
  <2> HIDE DEF G
  <2> QED
    BY <1>0, <1>1, <1>2, UpTo
<1>4. \E f : f = [r \in 0..NumOrders |-> Body(f, r)]
  BY <1>3
<1> QED
  BY <1>4, Zenon DEF Rebuild, Zeroth

\* The numbers 1..n map onto what f takes them to.
LEMMA Image ==
  ASSUME NEW n \in Nat, NEW f, NEW T, DOMAIN f = 1..n, f = [i \in 1..n |-> f[i]],
         \A x \in T : \E i \in 1..n : x = f[i]
  PROVE  IsFiniteSet(T) /\ Cardinality(T) <= n
<1> DEFINE R == {f[i] : i \in 1..n}
<1>1. f \in Surjection(1..n, R)
  BY DEF Surjection
<1>2. IsFiniteSet(1..n) /\ Cardinality(1..n) = n
  BY FS_Interval
<1>3. T \in SUBSET R
  OBVIOUS
<1> HIDE DEF R
<1>4. IsFiniteSet(R) /\ Cardinality(R) <= n
  BY <1>1, <1>2, FS_Surjection
<1>5. IsFiniteSet(T) /\ Cardinality(T) <= Cardinality(R)
  BY <1>3, <1>4, FS_Subset
<1>6. Cardinality(T) \in Nat /\ Cardinality(R) \in Nat
  BY <1>4, <1>5, FS_CardinalityType
<1> QED
  BY <1>4, <1>5, <1>6

LEMMA SumsFacts ==
  ASSUME NEW e
  PROVE  Sums(e)[0] = 0 /\ \A r \in 1..NumOrders : Sums(e)[r] = Sums(e)[r - 1] + e[r]
<1> DEFINE f == Sums(e)
<1>1. NumOrders \in Nat
  BY PriceLevelAssumption
<1>2. f = [x \in 0..NumOrders |-> IF x = 0 THEN 0 ELSE f[x - 1] + e[x]]
  BY SumsDef
<1> HIDE DEF f
<1>3. 0 \in 0..NumOrders /\ \A r \in 1..NumOrders : r \in 0..NumOrders /\ r # 0
  BY <1>1
<1>4. f[0] = 0
  BY ONLY <1>2, <1>3, Zenon
<1>5. \A r \in 1..NumOrders : f[r] = f[r - 1] + e[r]
  BY ONLY <1>2, <1>3, Zenon
<1> QED
  BY <1>4, <1>5 DEF f

LEMMA RebuildFacts ==
  ASSUME NEW d, NEW table
  PROVE  /\ Rebuild(d, table)[0] = [levels |-> <<>>, rebuild |-> FALSE, updated |-> TRUE, vague |-> FALSE]
         /\ \A r \in 1..NumOrders :
              Rebuild(d, table)[r] = IF OnSide(d, table[r]) THEN AddOrder(d, Rebuild(d, table)[r - 1], table[r])
                                     ELSE Rebuild(d, table)[r - 1]
<1> DEFINE f == Rebuild(d, table)
           Add(x) == IF OnSide(d, table[x]) THEN AddOrder(d, f[x - 1], table[x]) ELSE f[x - 1]
           none == [levels |-> <<>>, rebuild |-> FALSE, updated |-> TRUE, vague |-> FALSE]
<1>1. NumOrders \in Nat
  BY PriceLevelAssumption
<1>2. f = [x \in 0..NumOrders |-> IF x = 0 THEN none ELSE Add(x)]
  BY RebuildDef
<1> HIDE DEF f, Add, none
<1>3. 0 \in 0..NumOrders /\ \A r \in 1..NumOrders : r \in 0..NumOrders /\ r # 0
  BY <1>1
<1>4. f[0] = none
  BY ONLY <1>2, <1>3, Zenon
<1>5. \A r \in 1..NumOrders : f[r] = Add(r)
  BY ONLY <1>2, <1>3, Zenon
<1> QED
  BY <1>4, <1>5 DEF f, Add, none

\* The sums of natural numbers are natural numbers, and zero exactly when all of
\* the numbers are.
LEMMA SumsNat ==
  ASSUME NEW e \in [Indices -> Nat]
  PROVE  /\ \A n \in 0..NumOrders : Sums(e)[n] \in Nat
         /\ \A n \in 0..NumOrders : Sums(e)[n] = 0 <=> \A k \in 1..n : e[k] = 0
<1> DEFINE f == Sums(e)
           G == {n \in 0..NumOrders : f[n] \in Nat /\ (f[n] = 0 <=> \A k \in 1..n : e[k] = 0)}
<1>0. NumOrders \in Nat
  BY PriceLevelAssumption
<1>1. f[0] = 0 /\ \A r \in 1..NumOrders : f[r] = f[r - 1] + e[r]
  BY SumsFacts
<1> HIDE DEF f
<1>2. \A r \in 1..NumOrders : e[r] \in Nat
  BY DEF Indices
<1>3. 0 \in G
  BY <1>0, <1>1
<1>4. ASSUME NEW n \in 1..NumOrders, n - 1 \in G PROVE n \in G
  <2>1. \A k : k \in 1..n <=> k \in 1..(n - 1) \/ k = n
    BY <1>0
  <2>2. f[n] = f[n - 1] + e[n] /\ e[n] \in Nat /\ f[n - 1] \in Nat /\ n \in 0..NumOrders
    BY <1>0, <1>1, <1>2, <1>4
  <2>3. f[n - 1] = 0 <=> \A k \in 1..(n - 1) : e[k] = 0
    BY <1>4
  <2>4. f[n] = 0 <=> f[n - 1] = 0 /\ e[n] = 0
    BY <2>2
  <2>5. f[n] = 0 <=> \A k \in 1..n : e[k] = 0
    BY <2>1, <2>3, <2>4
  <2> QED
    BY <2>2, <2>5
<1>5. \A n \in 0..NumOrders : n \in G
  <2> HIDE DEF G
  <2> QED
    BY <1>0, <1>3, <1>4, UpTo
<1> QED
  BY <1>5 DEF f

\* A change of one number changes the sum by as much.
LEMMA SumsChange ==
  ASSUME NEW e \in [Indices -> Nat], NEW g \in [Indices -> Nat], NEW k \in Indices,
         \A j \in Indices : j # k => g[j] = e[j]
  PROVE  Sums(g)[NumOrders] = Sums(e)[NumOrders] + g[k] - e[k]
<1> DEFINE a == Sums(e)
           b == Sums(g)
           G == {n \in 0..NumOrders : b[n] = IF n < k THEN a[n] ELSE a[n] + g[k] - e[k]}
<1>0. NumOrders \in Nat /\ k \in 1..NumOrders
  BY PriceLevelAssumption DEF Indices
<1>1. a[0] = 0 /\ \A r \in 1..NumOrders : a[r] = a[r - 1] + e[r]
  BY SumsFacts
<1>2. b[0] = 0 /\ \A r \in 1..NumOrders : b[r] = b[r - 1] + g[r]
  BY SumsFacts
<1>3. \A n \in 0..NumOrders : a[n] \in Nat /\ b[n] \in Nat
  BY SumsNat
<1> HIDE DEF a, b
<1>4. \A r \in 1..NumOrders : e[r] \in Nat /\ g[r] \in Nat /\ (r # k => g[r] = e[r])
  BY DEF Indices
<1>5. 0 \in G
  BY <1>0, <1>1, <1>2
<1>6. ASSUME NEW n \in 1..NumOrders, n - 1 \in G PROVE n \in G
  <2>1. b[n - 1] = IF n - 1 < k THEN a[n - 1] ELSE a[n - 1] + g[k] - e[k]
    BY <1>6
  <2>2. n \in 0..NumOrders /\ n - 1 \in 0..NumOrders
    BY <1>0
  <2>3. a[n] = a[n - 1] + e[n] /\ b[n] = b[n - 1] + g[n]
    BY <1>1, <1>2
  <2>4. a[n - 1] \in Nat /\ e[n] \in Nat /\ g[n] \in Nat /\ e[k] \in Nat /\ g[k] \in Nat
    BY <1>0, <1>3, <1>4, <2>2
  <2>5. b[n] = IF n < k THEN a[n] ELSE a[n] + g[k] - e[k]
    <3>1. CASE n < k
      BY <1>0, <1>4, <2>1, <2>3, <2>4, <3>1
    <3>2. CASE n = k
      BY <1>0, <2>1, <2>3, <2>4, <3>2
    <3>3. CASE n > k
      BY <1>0, <1>4, <2>1, <2>3, <2>4, <3>3
    <3> QED
      BY <1>0, <3>1, <3>2, <3>3
  <2> QED
    BY <2>2, <2>5
<1>7. \A n \in 0..NumOrders : n \in G
  <2> HIDE DEF G
  <2> QED
    BY <1>0, <1>5, <1>6, UpTo
<1>8. b[NumOrders] = a[NumOrders] + g[k] - e[k]
  BY <1>0, <1>7
<1> QED
  BY <1>8 DEF a, b

-----------------------------------------------------------------------------
\* The distance of the doubles near a number is no more than the number.
LEMMA UnitFacts ==
  ASSUME NEW n \in Nat \ {0}
  PROVE  Unit(n) \in 1..n
<1> DEFINE Gaps == {n - u : u \in Units(n)}
<1>1. Units(n) \subseteq 1..n /\ 1 \in Units(n)
  <2>1. \A u \in Units(n) : u = 1 \/ u \in 1..n
    BY DEF Units
  <2>2. 2^0 = 1
    OBVIOUS
  <2>3. Precise \in Nat /\ Precise > 0
    BY PriceLevelAssumption
  <2>5. n \div Precise >= 0 /\ n \div Precise \in Int
    BY <2>3, SMTT(30)
  <2>6. 0 \in 0..(n \div Precise)
    BY <2>5
  <2>7. 1 \in {2^k : k \in 0..(n \div Precise)}
    BY <2>2, <2>6
  <2>4. 1 \in Units(n)
    BY <2>7 DEF Units
  <2> HIDE DEF Gaps
  <2> QED
    BY <2>1, <2>4
<1>2. Gaps \in SUBSET Nat /\ Gaps # {}
  BY <1>1
<1>3. PICK m \in Gaps : \A g \in Gaps : m <= g
  <2> HIDE DEF Gaps
  <2> QED
    BY <1>2, Least
<1>4. PICK u \in Units(n) : m = n - u
  BY <1>3
<1>5. \A t \in Units(n) : t <= u
  <2> SUFFICES ASSUME NEW t \in Units(n) PROVE t <= u
    OBVIOUS
  <2>1. n - u <= n - t
    BY <1>3, <1>4
  <2> QED
    BY <1>1, <2>1
<1>6. Unit(n) \in Units(n)
  BY <1>5 DEF Unit
<1> QED
  BY <1>1, <1>6

\* A rounded sum is a whole number, and positive when the sum is.
LEMMA RoundFacts ==
  ASSUME NEW n \in Int
  PROVE  Round(n) \in Int /\ (n > 0 => Round(n) > 0)
<1>1. ASSUME NEW m \in Nat \ {0} PROVE Nearest(m) \in Int /\ Nearest(m) > 0
  <2> DEFINE u == Unit(m)
             q == m \div u
             r == m % u
             k == IF 2 * r > u \/ (2 * r = u /\ q % 2 = 1) THEN q + 1 ELSE q
  <2>1. u \in Nat /\ u > 0 /\ u <= m
    BY UnitFacts
  <2> HIDE DEF u
  <2>2. q \in Int /\ q >= 1
    BY <2>1, SMTT(30)
  <2>3. Nearest(m) = u * k
    BY DEF Nearest, u
  <2> HIDE DEF r, q
  <2>4. k \in Int /\ k >= 1
    BY <2>2
  <2> HIDE DEF k
  <2>5. u * k \in Int /\ u * k > 0
    BY <2>1, <2>4, SMTT(30)
  <2> QED
    BY <2>3, <2>5
<1>2. CASE n > 0
  BY <1>1, <1>2 DEF Round
<1>3. CASE n < 0
  <2>1. -n \in Nat \ {0} /\ ~(n > 0)
    BY <1>3
  <2>2. Nearest(-n) \in Int
    BY <1>1, <2>1
  <2>3. Round(n) = -Nearest(-n)
    BY <1>3, <2>1 DEF Round
  <2> QED
    BY <2>1, <2>2, <2>3
<1>4. CASE n = 0
  BY <1>4 DEF Round
<1> QED
  BY <1>2, <1>3, <1>4

-----------------------------------------------------------------------------
\* What an order adds to the size at a price, and the sizes at all prices among
\* the first n orders of a table.
Share(d, o, p) == IF OnSide(d, o) /\ o.price = p THEN o.size ELSE 0
SizesUpTo(d, table, n) == [p \in Int |-> Sums(SizesAt(d, table, p))[n]]
Sizes(d, table) == SizesUpTo(d, table, NumOrders)

Tables == [Indices -> Orders \cup {NoOrder}]

LEMMA OrderTypes ==
  /\ NumOrders \in Nat /\ MaxLevels \in Nat \ {0} /\ NoOrder \notin Orders
  /\ \A o \in Orders : BookSide(o) \in Sides /\ o.price \in Int /\ o.size \in Nat \ {0} /\ o # NoOrder
  /\ \A o \in Orders \cup {NoOrder}, d \in Sides : OnSide(d, o) => o \in Orders
BY PriceLevelAssumption DEF Sides, OnSide, BookSide

LEMMA ShareNat ==
  ASSUME NEW d \in Sides, NEW o \in Orders \cup {NoOrder}, NEW p \in Int
  PROVE  Share(d, o, p) \in Nat
BY OrderTypes DEF Share

LEMMA SizesAtFacts ==
  ASSUME NEW d \in Sides, NEW table \in Tables, NEW p \in Int
  PROVE  /\ SizesAt(d, table, p) \in [Indices -> Nat]
         /\ \A k \in Indices : SizesAt(d, table, p)[k] = Share(d, table[k], p)
<1>1. \A k \in Indices : table[k] \in Orders \cup {NoOrder}
  BY DEF Tables
<1>2. \A k \in Indices : Share(d, table[k], p) \in Nat
  BY <1>1, ShareNat
<1>3. SizesAt(d, table, p) = [k \in Indices |-> Share(d, table[k], p)]
  BY DEF SizesAt, Share
<1> QED
  BY <1>2, <1>3

LEMMA SizesFacts ==
  ASSUME NEW d \in Sides, NEW table \in Tables
  PROVE  /\ \A n \in 0..NumOrders : SizesUpTo(d, table, n) \in [Int -> Nat]
         /\ \A p \in Int : SizesUpTo(d, table, 0)[p] = 0
         /\ \A n \in 1..NumOrders, p \in Int :
              SizesUpTo(d, table, n)[p] = SizesUpTo(d, table, n - 1)[p] + Share(d, table[n], p)
<1>0. NumOrders \in Nat
  BY OrderTypes
<1>1. ASSUME NEW p \in Int
      PROVE  /\ \A n \in 0..NumOrders : Sums(SizesAt(d, table, p))[n] \in Nat
             /\ Sums(SizesAt(d, table, p))[0] = 0
             /\ \A n \in 1..NumOrders : Sums(SizesAt(d, table, p))[n] =
                  Sums(SizesAt(d, table, p))[n - 1] + Share(d, table[n], p)
  <2>1. SizesAt(d, table, p) \in [Indices -> Nat]
    BY SizesAtFacts
  <2>2. \A n \in 1..NumOrders : SizesAt(d, table, p)[n] = Share(d, table[n], p)
    BY SizesAtFacts DEF Indices
  <2>3. \A n \in 0..NumOrders : Sums(SizesAt(d, table, p))[n] \in Nat
    BY <2>1, SumsNat
  <2>4. /\ Sums(SizesAt(d, table, p))[0] = 0
        /\ \A n \in 1..NumOrders : Sums(SizesAt(d, table, p))[n] =
             Sums(SizesAt(d, table, p))[n - 1] + SizesAt(d, table, p)[n]
    BY SumsFacts
  <2> QED
    BY <2>2, <2>3, <2>4
<1>2. \A n \in 0..NumOrders : SizesUpTo(d, table, n) \in [Int -> Nat]
  BY <1>1 DEF SizesUpTo
<1>3. \A p \in Int : SizesUpTo(d, table, 0)[p] = 0
  BY <1>1 DEF SizesUpTo
<1>4. \A n \in 1..NumOrders, p \in Int :
        SizesUpTo(d, table, n)[p] = SizesUpTo(d, table, n - 1)[p] + Share(d, table[n], p)
  BY <1>1 DEF SizesUpTo
<1> QED
  BY <1>2, <1>3, <1>4

\* A price has a size exactly when an order is at it.
LEMMA SizesPositive ==
  ASSUME NEW d \in Sides, NEW table \in Tables, NEW p \in Int
  PROVE  Sizes(d, table)[p] # 0 <=> p \in PricesOf(d, table)
<1> DEFINE e == SizesAt(d, table, p)
<1>1. e \in [Indices -> Nat] /\ \A k \in Indices : e[k] = Share(d, table[k], p)
  BY SizesAtFacts
<1> HIDE DEF e
<1>2. Sums(e)[NumOrders] = 0 <=> \A k \in Indices : e[k] = 0
  BY <1>1, SumsNat, OrderTypes DEF Indices
<1>3. \A k \in Indices : table[k] \in Orders \cup {NoOrder}
  BY DEF Tables
<1>4. \A k \in Indices : e[k] # 0 <=> OnSide(d, table[k]) /\ table[k].price = p
  BY <1>1, <1>3, OrderTypes DEF Share
<1>5. Sizes(d, table)[p] = Sums(e)[NumOrders]
  BY DEF Sizes, SizesUpTo, e
<1>6. p \in PricesOf(d, table) <=> \E k \in Indices : OnSide(d, table[k]) /\ table[k].price = p
  BY DEF PricesOf
<1> QED
  BY <1>2, <1>4, <1>5, <1>6

\* Replacing one order changes the sizes by what the two orders contribute.
LEMMA SizesChange ==
  ASSUME NEW d \in Sides, NEW table \in Tables, NEW k \in Indices,
         NEW o \in Orders \cup {NoOrder}, NEW p \in Int
  PROVE  Sizes(d, [table EXCEPT ![k] = o])[p] =
           Sizes(d, table)[p] + Share(d, o, p) - Share(d, table[k], p)
<1> DEFINE table2 == [table EXCEPT ![k] = o]
           e == SizesAt(d, table, p)
           g == SizesAt(d, table2, p)
<1>1. table2 \in Tables /\ table2[k] = o /\ \A j \in Indices : j # k => table2[j] = table[j]
  BY DEF Tables
<1> HIDE DEF table2
<1>2. e \in [Indices -> Nat] /\ \A j \in Indices : e[j] = Share(d, table[j], p)
  BY SizesAtFacts
<1>3. g \in [Indices -> Nat] /\ \A j \in Indices : g[j] = Share(d, table2[j], p)
  BY <1>1, SizesAtFacts
<1> HIDE DEF e, g
<1>4. \A j \in Indices : j # k => g[j] = e[j]
  BY <1>1, <1>2, <1>3
<1>5. Sums(g)[NumOrders] = Sums(e)[NumOrders] + g[k] - e[k]
  BY <1>2, <1>3, <1>4, SumsChange
<1>6. g[k] = Share(d, o, p) /\ e[k] = Share(d, table[k], p)
  BY <1>1, <1>2, <1>3
<1>7. Sizes(d, table2)[p] = Sums(g)[NumOrders] /\ Sizes(d, table)[p] = Sums(e)[NumOrders]
  BY DEF Sizes, SizesUpTo, e, g
<1> QED
  BY <1>5, <1>6, <1>7 DEF table2

-----------------------------------------------------------------------------
\* Levels as they always are: the best first, and no more than fit.
Sorted(d, levels) ==
  /\ levels \in Seq(Level) /\ Len(levels) <= MaxLevels
  /\ \A i, j \in 1..Len(levels) : i < j => Better(d, levels[i].price, levels[j].price)

\* The best levels of the sizes w: a price that has a size is among them, or
\* there is no room and all of them are better.
Exact(d, levels, w) ==
  /\ Sorted(d, levels)
  /\ \A i \in 1..Len(levels) : levels[i].size = w[levels[i].price] /\ levels[i].size > 0
  /\ \A p \in Int : w[p] # 0 =>
       \/ Found(levels, p)
       \/ Len(levels) = MaxLevels /\ \A i \in 1..Len(levels) : Better(d, levels[i].price, p)

\* The prices of a side are strictly ordered.
LEMMA BetterOrder ==
  ASSUME NEW d \in Sides
  PROVE  /\ \A p \in Int : ~Better(d, p, p)
         /\ \A p, q \in Int : Better(d, p, q) => ~Better(d, q, p)
         /\ \A p, q \in Int : p = q \/ Better(d, p, q) \/ Better(d, q, p)
         /\ \A p, q, r \in Int : Better(d, p, q) /\ Better(d, q, r) => Better(d, p, r)
BY DEF Sides, Better

LEMMA LevelTypes ==
  ASSUME NEW levels \in Seq(Level)
  PROVE  /\ Len(levels) \in Nat
         /\ \A i \in 1..Len(levels) : levels[i] \in Level /\ levels[i].price \in Int /\ levels[i].size \in Int
<1>1. \A x \in Level : x.price \in Int /\ x.size \in Int
  BY DEF Level
<1>2. \A i \in 1..Len(levels) : levels[i] \in Level
  OBVIOUS
<1> QED
  BY <1>1, <1>2

\* The binary search in a sorted side: before the place are the better levels,
\* and at it is the level with the price, if there is one.
LEMMA PlaceFacts ==
  ASSUME NEW d \in Sides, NEW levels, Sorted(d, levels), NEW price \in Int
  PROVE  /\ Place(d, levels, price) \in 1..(Len(levels) + 1)
         /\ \A i \in 1..Len(levels) : Better(d, levels[i].price, price) <=> i < Place(d, levels, price)
         /\ Found(levels, price) => /\ Place(d, levels, price) <= Len(levels)
                                    /\ levels[Place(d, levels, price)].price = price
         /\ ~Found(levels, price) => \A i \in 1..Len(levels) :
              Better(d, price, levels[i].price) <=> i >= Place(d, levels, price)
<1> DEFINE len == Len(levels)
           B == {i \in 1..len : Better(d, levels[i].price, price)}
           T == {i \in 1..(len + 1) : i \notin B}
<1>1. /\ len \in Nat /\ \A i \in 1..len : levels[i].price \in Int
      /\ \A i, j \in 1..len : i < j => Better(d, levels[i].price, levels[j].price)
  BY LevelTypes DEF Sorted
<1> HIDE DEF len
<1>2. T \in SUBSET Nat /\ T # {}
  <2>1. len + 1 \in T
    BY <1>1
  <2> QED
    BY <1>1, <2>1
<1>3. PICK m \in T : \A n \in T : m <= n
  <2> HIDE DEF T
  <2> QED
    BY <1>2, Least
<1>4. m \in 1..(len + 1) /\ m \notin B
  BY <1>3
<1>5. ASSUME NEW i \in 1..(m - 1) PROVE i \in B
  BY <1>1, <1>3, <1>4, <1>5
<1>6. ASSUME NEW i \in B PROVE i \in 1..(m - 1)
  <2>1. i \in 1..len /\ Better(d, levels[i].price, price)
    BY <1>6
  <2>2. ASSUME m < i PROVE FALSE
    <3>1. m \in 1..len
      BY <1>1, <1>4, <2>1, <2>2
    <3>2. Better(d, levels[m].price, levels[i].price)
      BY <1>1, <2>1, <2>2, <3>1
    <3>3. Better(d, levels[m].price, price)
      BY <1>1, <2>1, <3>1, <3>2, BetterOrder
    <3> QED
      BY <1>4, <3>1, <3>3
  <2>3. i # m
    BY <1>4, <1>6
  <2> QED
    BY <1>1, <1>4, <2>1, <2>2, <2>3
<1>7. B = 1..(m - 1)
  <2> HIDE DEF B
  <2> QED
    BY <1>5, <1>6
<1>8. Cardinality(1..(m - 1)) = m - 1
  BY <1>1, <1>4, FS_Interval
<1>9. Place(d, levels, price) = m
  <2>1. Place(d, levels, price) = Cardinality(B) + 1
    BY DEF Place, len
  <2>2. Place(d, levels, price) = Cardinality(1..(m - 1)) + 1
    BY <1>7, <2>1
  <2> QED
    BY <1>1, <1>4, <1>8, <2>2
<1>10. \A i \in 1..len : Better(d, levels[i].price, price) <=> i < m
  BY <1>1, <1>4, <1>7
<1>11. ASSUME Found(levels, price) PROVE m <= len /\ levels[m].price = price
  <2>1. PICK i \in 1..len : levels[i].price = price
    BY <1>11 DEF Found, len
  <2>2. ~(i < m)
    BY <1>1, <1>10, <2>1, BetterOrder
  <2>3. ~(m < i)
    <3> SUFFICES ASSUME m < i PROVE FALSE
      OBVIOUS
    <3>1. m \in 1..len
      BY <1>1, <1>4, <2>1
    <3> QED
      BY <1>1, <1>4, <1>10, <2>1, <3>1
  <2>4. i = m
    BY <1>1, <1>4, <2>2, <2>3
  <2> QED
    BY <1>1, <2>1, <2>4
<1>12. ASSUME ~Found(levels, price), NEW i \in 1..len
       PROVE  Better(d, price, levels[i].price) <=> i >= m
  <2>1. levels[i].price # price
    BY <1>12 DEF Found, len
  <2>2. Better(d, price, levels[i].price) <=> ~Better(d, levels[i].price, price)
    BY <1>1, <2>1, BetterOrder
  <2> QED
    BY <1>1, <1>4, <1>10, <2>2
<1> QED
  BY <1>1, <1>4, <1>9, <1>10, <1>11, <1>12 DEF len

\* A level that changes its size stays where it is.
LEMMA Resized ==
  ASSUME NEW d \in Sides, NEW levels, Sorted(d, levels), NEW k \in 1..Len(levels), NEW x \in Int,
         NEW L, L = [levels EXCEPT ![k].size = x]
  PROVE  /\ Len(L) = Len(levels) /\ Sorted(d, L)
         /\ \A i \in 1..Len(levels) : /\ L[i].price = levels[i].price
                                      /\ L[i].size = IF i = k THEN x ELSE levels[i].size
         /\ \A p : Found(L, p) <=> Found(levels, p)
<1>1. levels \in Seq(Level) /\ Len(levels) \in Nat /\ \A i \in 1..Len(levels) : levels[i] \in Level
  BY LevelTypes DEF Sorted
<1>2. DOMAIN levels = 1..Len(levels)
  BY <1>1
<1>3. L = [i \in 1..Len(levels) |-> IF i = k THEN [levels[k] EXCEPT !.size = x] ELSE levels[i]]
  BY <1>2
<1>4. [levels[k] EXCEPT !.size = x] \in Level /\ [levels[k] EXCEPT !.size = x].price = levels[k].price
        /\ [levels[k] EXCEPT !.size = x].size = x
  BY <1>1 DEF Level
<1>5. L \in Seq(Level) /\ Len(L) = Len(levels)
  BY <1>1, <1>3, <1>4
<1>6. \A i \in 1..Len(levels) : /\ L[i].price = levels[i].price
                                /\ L[i].size = IF i = k THEN x ELSE levels[i].size
  BY <1>3, <1>4
<1>7. Sorted(d, L)
  BY <1>5, <1>6 DEF Sorted
<1> QED
  BY <1>5, <1>6, <1>7 DEF Found

\* A new level goes where its price belongs.
LEMMA Inserted ==
  ASSUME NEW d \in Sides, NEW levels, Sorted(d, levels), NEW level \in Level,
         ~Found(levels, level.price), NEW k, k = Place(d, levels, level.price), k <= MaxLevels,
         NEW L, L = Insert(levels, k, level)
  PROVE  /\ Len(L) = IF Len(levels) < MaxLevels THEN Len(levels) + 1 ELSE MaxLevels
         /\ k \in 1..Len(L) /\ L[k] = level
         /\ \A i \in 1..Len(L) : /\ i < k => i \in 1..Len(levels) /\ L[i] = levels[i]
                                 /\ i > k => i - 1 \in 1..Len(levels) /\ L[i] = levels[i - 1]
         /\ Sorted(d, L)
<1> DEFINE len == Len(levels)
           n == IF len < MaxLevels THEN len + 1 ELSE MaxLevels
<1>1. /\ len \in Nat /\ len <= MaxLevels /\ MaxLevels \in Nat /\ level.price \in Int
      /\ \A i \in 1..len : levels[i] \in Level /\ levels[i].price \in Int
      /\ \A i, j \in 1..len : i < j => Better(d, levels[i].price, levels[j].price)
  BY LevelTypes, OrderTypes DEF Sorted, Level
<1>2. k \in 1..(len + 1)
  BY <1>1, PlaceFacts
<1>3. \A i \in 1..len : /\ Better(d, levels[i].price, level.price) <=> i < k
                        /\ Better(d, level.price, levels[i].price) <=> i >= k
  BY <1>1, PlaceFacts
<1>4. L = [i \in 1..n |-> IF i < k THEN levels[i] ELSE IF i = k THEN level ELSE levels[i - 1]]
  BY DEF Insert
<1> HIDE DEF len
<1>5. n \in Nat /\ n <= MaxLevels /\ k \in 1..n
  BY <1>1, <1>2
<1>6. ASSUME NEW i \in 1..n PROVE (i < k => i \in 1..len) /\ (i > k => i - 1 \in 1..len)
  BY <1>1, <1>2
<1> HIDE DEF n
<1>7. L \in Seq(Level) /\ Len(L) = n
  <2>1. \A i \in 1..n : L[i] \in Level
    BY <1>1, <1>4, <1>5, <1>6
  <2>2. L = [i \in 1..n |-> L[i]]
    BY <1>4
  <2> QED
    BY <1>5, <2>1, <2>2
<1>8. L[k] = level /\ \A i \in 1..n : /\ i < k => L[i] = levels[i]
                                      /\ i > k => L[i] = levels[i - 1]
  BY <1>1, <1>2, <1>4, <1>5
<1>9. ASSUME NEW i \in 1..n, NEW j \in 1..n, i < j PROVE Better(d, L[i].price, L[j].price)
  <2>1. CASE j < k
    BY <1>1, <1>2, <1>5, <1>6, <1>8, <1>9, <2>1
  <2>2. CASE j = k
    BY <1>1, <1>3, <1>6, <1>8, <1>9, <2>2
  <2>3. CASE j > k
    <3>1. j - 1 \in 1..len /\ L[j] = levels[j - 1]
      BY <1>6, <1>8, <2>3
    <3>2. CASE i < k
      BY <1>1, <1>2, <1>6, <1>8, <1>9, <2>3, <3>1, <3>2
    <3>3. CASE i = k
      BY <1>1, <1>2, <1>3, <1>8, <2>3, <3>1, <3>3
    <3>4. CASE i > k
      BY <1>1, <1>2, <1>6, <1>8, <1>9, <3>1, <3>4
    <3> QED
      BY <1>1, <1>2, <3>2, <3>3, <3>4
  <2> QED
    BY <1>1, <1>2, <2>1, <2>2, <2>3
<1>10. Sorted(d, L)
  BY <1>5, <1>7, <1>9 DEF Sorted
<1> QED
  BY <1>5, <1>6, <1>7, <1>8, <1>10 DEF n, len

-----------------------------------------------------------------------------
SideState == [levels : Seq(Level), rebuild : BOOLEAN, updated : BOOLEAN, vague : BOOLEAN]
Positive(levels) == \A i \in 1..Len(levels) : levels[i].size > 0

\* One side between two events, w the sizes of its orders: unless a rebuild was
\* asked for every level has a size, and the levels are exact unless a sum was
\* rounded or an order of no side counted.  A side never updated is empty.
Kept(d, s, w) ==
  /\ s \in SideState /\ Sorted(d, s.levels)
  /\ s.rebuild \/ Positive(s.levels)
  /\ s.rebuild \/ s.vague \/ Exact(d, s.levels, w)
  /\ ~s.updated => s.levels = <<>> /\ ~s.rebuild /\ ~s.vague

-----------------------------------------------------------------------------
\* The sizes v are the sizes w with x more at one price.
Changes(w, v, price, x) ==
  /\ w \in [Int -> Nat] /\ v \in [Int -> Nat] /\ price \in Int /\ x \in Int
  /\ \A p \in Int : v[p] = IF p = price THEN w[p] + x ELSE w[p]

LEMMA ExactFacts ==
  ASSUME NEW d \in Sides, NEW levels, NEW w, Exact(d, levels, w)
  PROVE  /\ levels \in Seq(Level) /\ Len(levels) \in Nat /\ Len(levels) <= MaxLevels /\ MaxLevels \in Nat \ {0}
         /\ \A i \in 1..Len(levels) : levels[i].price \in Int /\ levels[i].size \in Int
         /\ \A i, j \in 1..Len(levels) : i < j => Better(d, levels[i].price, levels[j].price)
         /\ \A i \in 1..Len(levels) : levels[i].size = w[levels[i].price] /\ levels[i].size > 0
         /\ \A i, j \in 1..Len(levels) : levels[i].price = levels[j].price => i = j
<1>1. /\ levels \in Seq(Level) /\ Len(levels) \in Nat /\ Len(levels) <= MaxLevels /\ MaxLevels \in Nat \ {0}
      /\ \A i \in 1..Len(levels) : levels[i].price \in Int /\ levels[i].size \in Int
  BY LevelTypes, OrderTypes DEF Exact, Sorted
<1>2. \A i, j \in 1..Len(levels) : i < j => Better(d, levels[i].price, levels[j].price)
  BY DEF Exact, Sorted
<1>3. \A i \in 1..Len(levels) : levels[i].size = w[levels[i].price] /\ levels[i].size > 0
  BY DEF Exact
<1>4. ASSUME NEW i \in 1..Len(levels), NEW j \in 1..Len(levels), levels[i].price = levels[j].price
      PROVE  i = j
  <2>1. ~(i < j) /\ ~(j < i)
    BY <1>1, <1>2, <1>4, BetterOrder
  <2> QED
    BY <1>1, <2>1
<1> QED
  BY <1>1, <1>2, <1>3, <1>4

\* The size at a level changes and stays positive.
LEMMA ResizeExact ==
  ASSUME NEW d \in Sides, NEW levels, NEW w, Exact(d, levels, w), NEW price, NEW x, NEW v,
         Changes(w, v, price, x), NEW k \in 1..Len(levels), levels[k].price = price,
         NEW y, y = levels[k].size + x, y > 0, NEW L, L = [levels EXCEPT ![k].size = y]
  PROVE  Exact(d, L, v)
<1>1. /\ Len(levels) \in Nat
      /\ \A i \in 1..Len(levels) : levels[i].price \in Int /\ levels[i].size \in Int
      /\ \A i \in 1..Len(levels) : levels[i].size = w[levels[i].price] /\ levels[i].size > 0
      /\ \A i, j \in 1..Len(levels) : levels[i].price = levels[j].price => i = j
  BY ExactFacts
<1>2. x \in Int /\ \A p \in Int : v[p] = IF p = price THEN w[p] + x ELSE w[p]
  BY DEF Changes
<1>6. y \in Int /\ y = w[price] + x
  BY <1>1, <1>2
<1>7. Sorted(d, levels)
  BY DEF Exact
<1>3. /\ Len(L) = Len(levels) /\ Sorted(d, L)
      /\ \A i \in 1..Len(levels) : /\ L[i].price = levels[i].price
                                   /\ L[i].size = IF i = k THEN y ELSE levels[i].size
      /\ \A p : Found(L, p) <=> Found(levels, p)
  <2> DEFINE M == [levels EXCEPT ![k].size = y]
  <2>1. Len(M) = Len(levels) /\ Sorted(d, M)
    BY ONLY <1>6, <1>7, k \in 1..Len(levels), d \in Sides, Resized
  <2>3. \A i \in 1..Len(levels) : /\ M[i].price = levels[i].price
                                  /\ M[i].size = IF i = k THEN y ELSE levels[i].size
    BY ONLY <1>6, <1>7, k \in 1..Len(levels), d \in Sides, Resized
  <2>4. \A p : Found(M, p) <=> Found(levels, p)
    BY ONLY <1>6, <1>7, k \in 1..Len(levels), d \in Sides, Resized
  <2>2. L = M
    OBVIOUS
  <2> HIDE DEF M
  <2> QED
    BY <2>1, <2>2, <2>3, <2>4
<1>4. ASSUME NEW i \in 1..Len(levels) PROVE L[i].size = v[L[i].price] /\ L[i].size > 0
  <2>1. CASE i = k
    BY <1>1, <1>2, <1>3, <1>6, <2>1
  <2>2. CASE i # k
    <3>1. levels[i].price # price
      BY <1>1, <2>2
    <3> QED
      BY <1>1, <1>2, <1>3, <2>2, <3>1
  <2> QED
    BY <2>1, <2>2
<1>5. ASSUME NEW p \in Int, v[p] # 0
      PROVE  \/ Found(L, p)
             \/ Len(L) = MaxLevels /\ \A i \in 1..Len(L) : Better(d, L[i].price, p)
  <2>1. CASE p = price
    BY <1>3, <2>1 DEF Found
  <2>2. CASE p # price
    <3>1. w[p] # 0
      BY <1>5, <2>2 DEF Changes
    <3>2. Found(levels, p) \/ (Len(levels) = MaxLevels /\ \A i \in 1..Len(levels) : Better(d, levels[i].price, p))
      BY <3>1 DEF Exact
    <3> QED
      BY <1>3, <3>2
  <2> QED
    BY <2>1, <2>2
<1> QED
  BY <1>3, <1>4, <1>5 DEF Exact

\* Behind the last level of a full side nothing matters.
LEMMA OutsideExact ==
  ASSUME NEW d \in Sides, NEW levels, NEW w, Exact(d, levels, w), NEW price, NEW x, NEW v,
         Changes(w, v, price, x), Len(levels) = MaxLevels,
         \A i \in 1..Len(levels) : Better(d, levels[i].price, price)
  PROVE  Exact(d, levels, v)
<1>1. /\ \A i \in 1..Len(levels) : levels[i].price \in Int /\ levels[i].size \in Int
      /\ \A i \in 1..Len(levels) : levels[i].size = w[levels[i].price] /\ levels[i].size > 0
  BY ExactFacts
<1>2. \A i \in 1..Len(levels) : levels[i].price # price
  BY <1>1, BetterOrder
<1>3. \A i \in 1..Len(levels) : levels[i].size = v[levels[i].price]
  BY <1>1, <1>2 DEF Changes
<1>4. ASSUME NEW p \in Int, v[p] # 0
      PROVE  \/ Found(levels, p)
             \/ Len(levels) = MaxLevels /\ \A i \in 1..Len(levels) : Better(d, levels[i].price, p)
  <2>1. CASE p = price
    BY <2>1
  <2>2. CASE p # price
    <3>1. w[p] # 0
      BY <1>4, <2>2 DEF Changes
    <3> QED
      BY <3>1 DEF Exact
  <2> QED
    BY <2>1, <2>2
<1>5. Sorted(d, levels)
  BY DEF Exact
<1> QED
  BY <1>1, <1>3, <1>4, <1>5 DEF Exact

\* A level that is pushed out is worse than all that stay.
LEMMA InsertExact ==
  ASSUME NEW d \in Sides, NEW levels, NEW w, Exact(d, levels, w), NEW level \in Level, level.size > 0,
         NEW v, Changes(w, v, level.price, level.size), ~Found(levels, level.price),
         NEW k, k = Place(d, levels, level.price), k <= MaxLevels,
         NEW L, L = Insert(levels, k, level)
  PROVE  Exact(d, L, v)
<1>1. /\ levels \in Seq(Level) /\ Len(levels) \in Nat /\ Len(levels) <= MaxLevels /\ MaxLevels \in Nat \ {0}
      /\ \A i \in 1..Len(levels) : levels[i].price \in Int /\ levels[i].size \in Int
      /\ \A i, j \in 1..Len(levels) : i < j => Better(d, levels[i].price, levels[j].price)
      /\ \A i \in 1..Len(levels) : levels[i].size = w[levels[i].price] /\ levels[i].size > 0
  BY ExactFacts
<1>2. Sorted(d, levels) /\ level.price \in Int /\ level.size \in Int
  BY DEF Exact, Level
<1>3. /\ k \in 1..(Len(levels) + 1)
      /\ \A i \in 1..Len(levels) : Better(d, levels[i].price, level.price) <=> i < k
      /\ \A i \in 1..Len(levels) : Better(d, level.price, levels[i].price) <=> i >= k
  BY <1>2, PlaceFacts
<1>4. /\ Len(L) = IF Len(levels) < MaxLevels THEN Len(levels) + 1 ELSE MaxLevels
      /\ k \in 1..Len(L) /\ L[k] = level
      /\ \A i \in 1..Len(L) : /\ i < k => i \in 1..Len(levels) /\ L[i] = levels[i]
                              /\ i > k => i - 1 \in 1..Len(levels) /\ L[i] = levels[i - 1]
      /\ Sorted(d, L)
  BY <1>2, Inserted
<1>5. Len(L) \in Nat /\ (Len(L) = Len(levels) + 1 \/ (Len(L) = MaxLevels /\ Len(levels) = MaxLevels))
  BY <1>1, <1>4
<1>6. w[level.price] = 0
  <2> SUFFICES ASSUME w[level.price] # 0 PROVE FALSE
    OBVIOUS
  <2>1. Len(levels) = MaxLevels /\ \A i \in 1..Len(levels) : Better(d, levels[i].price, level.price)
    BY <1>2 DEF Exact
  <2>2. MaxLevels \in 1..Len(levels) /\ MaxLevels < k
    BY <1>1, <1>3, <2>1
  <2> QED
    BY <1>1, <1>3, <2>2
<1>7. \A i \in 1..Len(levels) : levels[i].price # level.price
  BY DEF Found
\* The level that is new, or an old one.
<1>8. ASSUME NEW i \in 1..Len(L), i # k
      PROVE  \E j \in 1..Len(levels) : L[i] = levels[j]
  <2>1. i < k \/ i > k
    BY <1>3, <1>5, <1>8, <1>1
  <2> QED
    BY <1>4, <2>1
<1>9. ASSUME NEW i \in 1..Len(L) PROVE L[i].size = v[L[i].price] /\ L[i].size > 0
  <2>1. CASE i = k
    <3>1. v[level.price] = level.size
      <4>1. v[level.price] = w[level.price] + level.size
        BY <1>2 DEF Changes
      <4> QED
        BY ONLY <1>2, <1>6, <4>1
    <3> QED
      BY <1>4, <2>1, <3>1
  <2>2. CASE i # k
    <3>1. PICK j \in 1..Len(levels) : L[i] = levels[j]
      BY <1>8, <2>2
    <3>2. v[levels[j].price] = w[levels[j].price]
      BY <1>1, <1>7 DEF Changes
    <3> QED
      BY <1>1, <3>1, <3>2
  <2> QED
    BY <2>1, <2>2
\* A level that was there stays, or was the last.
<1>10. ASSUME NEW j \in 1..Len(levels)
       PROVE  \/ \E i \in 1..Len(L) : L[i] = levels[j]
              \/ Len(L) = MaxLevels /\ \A i \in 1..Len(L) : Better(d, L[i].price, levels[j].price)
  <2>1. CASE j < k
    <3>1. j \in 1..Len(L)
      BY <1>1, <1>3, <1>4, <1>5, <2>1
    <3> QED
      BY <1>4, <2>1, <3>1
  <2>2. CASE j >= k /\ j + 1 <= Len(L)
    <3>1. j + 1 \in 1..Len(L) /\ j + 1 > k /\ (j + 1) - 1 = j
      BY <1>1, <1>3, <1>5, <2>2
    <3> QED
      BY <1>4, <3>1
  <2>3. CASE j >= k /\ ~(j + 1 <= Len(L))
    <3>1. Len(L) = MaxLevels /\ Len(levels) = MaxLevels /\ j = MaxLevels
      BY <1>1, <1>5, <2>3
    <3>2. ASSUME NEW i \in 1..Len(L) PROVE Better(d, L[i].price, levels[j].price)
      <4>1. CASE i < k
        <5>1. i \in 1..Len(levels) /\ L[i] = levels[i] /\ i < j
          BY <1>1, <1>3, <1>4, <2>3, <4>1
        <5> QED
          BY <1>1, <5>1
      <4>2. CASE i = k
        BY <1>3, <1>4, <2>3, <4>2
      <4>3. CASE i > k
        <5>1. i - 1 \in 1..Len(levels) /\ L[i] = levels[i - 1]
          BY <1>4, <4>3
        <5>2. i - 1 < j
          BY <1>1, <3>1
        <5> QED
          BY <1>1, <5>1, <5>2
      <4> QED
        BY <1>1, <1>3, <1>5, <4>1, <4>2, <4>3
    <3> QED
      BY <3>1, <3>2
  <2> QED
    BY <1>1, <1>3, <1>5, <2>1, <2>2, <2>3
<1>11. ASSUME NEW p \in Int, Len(levels) = MaxLevels, \A i \in 1..Len(levels) : Better(d, levels[i].price, p)
       PROVE  Len(L) = MaxLevels /\ \A i \in 1..Len(L) : Better(d, L[i].price, p)
  <2>1. Len(L) = MaxLevels /\ k \in 1..Len(levels)
    BY <1>1, <1>3, <1>4, <1>11
  <2>2. Better(d, level.price, levels[k].price) /\ levels[k].price \in Int /\ Better(d, levels[k].price, p)
    BY <1>1, <1>3, <1>11, <2>1
  <2>3. Better(d, level.price, p)
    BY <1>2, <2>2, BetterOrder
  <2>4. \A i \in 1..Len(L) : Better(d, L[i].price, p)
    BY <1>4, <1>8, <1>11, <2>3
  <2> QED
    BY <2>1, <2>4
<1>12. ASSUME NEW p \in Int, v[p] # 0
       PROVE  \/ Found(L, p)
              \/ Len(L) = MaxLevels /\ \A i \in 1..Len(L) : Better(d, L[i].price, p)
  <2>1. CASE p = level.price
    BY <1>4, <2>1 DEF Found
  <2>2. CASE p # level.price
    <3>1. w[p] # 0
      BY <1>12, <2>2 DEF Changes
    <3>2. Found(levels, p) \/ (Len(levels) = MaxLevels /\ \A i \in 1..Len(levels) : Better(d, levels[i].price, p))
      BY <3>1 DEF Exact
    <3>3. CASE Found(levels, p)
      <4>1. PICK j \in 1..Len(levels) : levels[j].price = p
        BY <3>3 DEF Found
      <4> QED
        BY <1>10, <4>1 DEF Found
    <3> QED
      BY <1>11, <3>2, <3>3
  <2> QED
    BY <2>1, <2>2
<1> QED
  BY <1>4, <1>9, <1>12 DEF Exact

\* What the order o makes of the sizes w on side d: they rise at its price, unless
\* it belongs to no side.
Counted(d, w, v, o) ==
  /\ o.side = d => Changes(w, v, o.price, o.size)
  /\ o.side # d => v = w

\* What is left of a side s when level k takes the size y for n, and L is left of
\* its levels ls.
ResizedTo(d, s, ls, k, n, y, L, o, r) ==
  /\ r \in SideState /\ Sorted(d, r.levels) /\ r.rebuild = s.rebuild /\ r.updated = TRUE
  /\ r.levels = L
  /\ r.vague = (s.vague \/ y # n \/ o.side # d)
  /\ Positive(ls) /\ y > 0 => Positive(r.levels)

LEMMA ResizeKept ==
  ASSUME NEW d \in Sides, NEW s \in SideState, NEW ls, ls = s.levels, Sorted(d, ls), NEW k \in 1..Len(ls),
         NEW n \in Int, NEW y, y = Round(n), NEW L, L = [ls EXCEPT ![k].size = y],
         NEW o \in Orders, NEW r, r = Resize(d, s, k, n, o)
  PROVE  ResizedTo(d, s, ls, k, n, y, L, o, r)
<1>1. /\ s = [levels |-> ls, rebuild |-> s.rebuild, updated |-> s.updated, vague |-> s.vague]
      /\ s.rebuild \in BOOLEAN /\ s.vague \in BOOLEAN
  BY DEF SideState
<1>2. y \in Int
  BY RoundFacts
<1>3. r = [levels |-> L, rebuild |-> s.rebuild, updated |-> TRUE,
           vague |-> (s.vague \/ y # n \/ o.side # d)]
  BY <1>1 DEF Resize
<1>4. /\ Len(L) = Len(ls) /\ Sorted(d, L)
      /\ \A i \in 1..Len(ls) : L[i].size = IF i = k THEN y ELSE ls[i].size
  BY <1>2, Resized
<1>5. L \in Seq(Level)
  BY <1>4 DEF Sorted
<1>6. Positive(ls) /\ y > 0 => Positive(L)
  BY <1>4 DEF Positive
<1>7. (s.vague \/ y # n \/ o.side # d) \in BOOLEAN
  OBVIOUS
<1>8. r \in SideState
  BY <1>1, <1>3, <1>5, <1>7 DEF SideState
<1> QED
  BY <1>3, <1>4, <1>6, <1>8 DEF ResizedTo

\* Adding an order keeps a side, whichever of the three cases it is.
LEMMA AddKept ==
  ASSUME NEW d \in Sides, NEW s, NEW w, Kept(d, s, w), NEW o \in Orders,
         NEW v, Counted(d, w, v, o), NEW r, r = AddOrder(d, s, o)
  PROVE  Kept(d, r, v) /\ (s.updated => r.updated) /\ r.rebuild = s.rebuild
<1> DEFINE ls == s.levels
           k == Place(d, ls, o.price)
           l == [price |-> o.price, size |-> o.size]
<1>1. /\ s \in SideState /\ Sorted(d, ls) /\ ls \in Seq(Level) /\ Len(ls) \in Nat /\ Len(ls) <= MaxLevels
      /\ \A i \in 1..Len(ls) : ls[i].size \in Int
  BY LevelTypes DEF Kept, Sorted
<1>2. o.price \in Int /\ o.size \in Nat \ {0} /\ MaxLevels \in Nat \ {0}
  BY OrderTypes
<1>3. /\ k \in 1..(Len(ls) + 1)
      /\ \A i \in 1..Len(ls) : Better(d, ls[i].price, o.price) <=> i < k
      /\ Found(ls, o.price) => k <= Len(ls) /\ ls[k].price = o.price
  BY <1>1, <1>2, PlaceFacts
<1>4. /\ s = [levels |-> ls, rebuild |-> s.rebuild, updated |-> s.updated, vague |-> s.vague]
      /\ s.rebuild \in BOOLEAN /\ s.updated \in BOOLEAN /\ s.vague \in BOOLEAN
  BY <1>1 DEF SideState
<1>5. l \in Level /\ l.price = o.price /\ l.size = o.size /\ l.size > 0
  BY <1>2 DEF Level
<1>6. k = Place(d, ls, o.price)
  OBVIOUS
<1>7. (s.rebuild \/ s.vague \/ Exact(d, ls, w)) /\ (s.rebuild \/ Positive(ls))
  BY DEF Kept
<1> HIDE DEF k, l
<1>8. CASE Found(ls, o.price)
  <2> DEFINE n == ls[k].size + o.size
             y == Round(n)
             L == [ls EXCEPT ![k].size = y]
  <2>1. k \in 1..Len(ls) /\ ls[k].price = o.price
    BY <1>1, <1>3, <1>8
  <2>2. n \in Int
    BY <1>1, <1>2, <2>1
  <2>3. r = Resize(d, s, k, n, o)
    BY <1>6, <1>8 DEF AddOrder
  <2>4. n > 0 => y > 0
    BY <2>2, RoundFacts
  <2>5. ASSUME Exact(d, ls, w), y = n, o.side = d PROVE Exact(d, L, v)
    <3>1. ls[k].size > 0
      BY <2>1, <2>5, ExactFacts
    <3>2. y > 0 /\ y = ls[k].size + o.size
      BY <1>1, <1>2, <2>1, <2>5, <3>1
    <3>3. Changes(w, v, o.price, o.size)
      BY <2>5 DEF Counted
    <3> HIDE DEF y
    <3> QED
      BY <2>1, <2>5, <3>2, <3>3, ResizeExact, Zenon
  <2>6. Positive(ls) => y > 0
    <3>1. Positive(ls) => n > 0
      BY <1>1, <1>2, <2>1 DEF Positive
    <3> QED
      BY <2>4, <3>1
  <2> HIDE DEF n
  <2>7. /\ r \in SideState /\ Sorted(d, r.levels) /\ r.rebuild = s.rebuild /\ r.updated = TRUE
        /\ r.levels = L /\ r.vague = (s.vague \/ y # n \/ o.side # d)
        /\ (Positive(ls) /\ y > 0 => Positive(r.levels))
    <3>1. y = Round(n) /\ L = [ls EXCEPT ![k].size = y] /\ ls = s.levels
      OBVIOUS
    <3> HIDE DEF y, L, ls
    <3>2. ResizedTo(d, s, ls, k, n, y, L, o, r)
      BY <1>1, <2>1, <2>2, <2>3, <3>1, ResizeKept, Zenon
    <3> QED
      BY <3>2 DEF ResizedTo
  <2> HIDE DEF y, L
  <2>8. s.rebuild \/ Positive(r.levels)
    BY <1>7, <2>6, <2>7, Zenon
  <2>9. s.rebuild \/ r.vague \/ Exact(d, L, v)
    BY <1>7, <2>5, <2>7, Zenon
  <2> QED
    BY <2>7, <2>8, <2>9, Zenon DEF Kept
<1>9. CASE ~Found(ls, o.price) /\ k > MaxLevels
  <2>1. r = s
    BY <1>6, <1>9 DEF AddOrder
  <2>2. Len(ls) = MaxLevels /\ \A i \in 1..Len(ls) : i < k
    BY <1>1, <1>2, <1>3, <1>9
  <2>3. \A i \in 1..Len(ls) : Better(d, ls[i].price, o.price)
    BY <1>3, <2>2
  <2>4. Exact(d, ls, w) => Exact(d, ls, v)
    BY <2>2, <2>3, OutsideExact DEF Counted
  <2> QED
    BY <2>1, <2>4, Zenon DEF Kept
<1>10. CASE ~Found(ls, o.price) /\ k <= MaxLevels
  <2> DEFINE L == Insert(ls, k, l)
  <2>1. r = [levels |-> L, rebuild |-> s.rebuild, updated |-> TRUE, vague |-> (s.vague \/ o.side # d)]
    <3>1. ~(k > MaxLevels)
      BY <1>1, <1>2, <1>3, <1>10
    <3> QED
      BY <1>4, <1>6, <1>10, <3>1 DEF AddOrder, l
  <2>2. /\ Sorted(d, L) /\ k \in 1..Len(L) /\ L[k] = l
        /\ \A i \in 1..Len(L) : /\ i < k => i \in 1..Len(ls) /\ L[i] = ls[i]
                                /\ i > k => i - 1 \in 1..Len(ls) /\ L[i] = ls[i - 1]
    BY <1>1, <1>5, <1>6, <1>10, Inserted
  <2>3. ASSUME Exact(d, ls, w), o.side = d PROVE Exact(d, L, v)
    <3>1. Changes(w, v, o.price, o.size)
      BY <2>3 DEF Counted
    <3> QED
      BY <1>5, <1>6, <1>10, <2>3, <3>1, InsertExact, Zenon
  <2> HIDE DEF L
  <2>4. L \in Seq(Level)
    BY <2>2 DEF Sorted
  <2>5. ASSUME Positive(ls) PROVE Positive(L)
    <3>1. Len(L) \in Nat /\ k \in Nat
      BY <1>1, <1>3, <2>4
    <3>2. \A i \in 1..Len(L) : i < k \/ i = k \/ i > k
      BY <3>1
    <3> QED
      BY <1>5, <2>2, <2>5, <3>2 DEF Positive
  <2>6. /\ r \in SideState /\ r.levels = L /\ r.updated = TRUE /\ r.rebuild = s.rebuild
        /\ r.vague = (s.vague \/ o.side # d)
    BY <1>4, <2>1, <2>4 DEF SideState
  <2> QED
    BY <1>7, <2>2, <2>3, <2>5, <2>6, Zenon DEF Kept
<1>11. ~(k > MaxLevels) => k <= MaxLevels
  BY <1>1, <1>2, <1>3
<1> QED
  BY <1>8, <1>9, <1>10, <1>11

\* Removing an order keeps a side: what was at its price goes down by its size,
\* or nothing is left there and a rebuild is asked for.
LEMMA RemoveKept ==
  ASSUME NEW d \in Sides, NEW s, NEW w, Kept(d, s, w), NEW o \in Orders,
         NEW v, Counted(d, v, w, o), NEW r, r = RemoveOrder(d, s, o)
  PROVE  Kept(d, r, v) /\ (s.updated => r.updated)
<1> DEFINE ls == s.levels
           k == Place(d, ls, o.price)
<1>1. /\ s \in SideState /\ Sorted(d, ls) /\ ls \in Seq(Level) /\ Len(ls) \in Nat
      /\ \A i \in 1..Len(ls) : ls[i].size \in Int
  BY LevelTypes DEF Kept, Sorted
<1>2. o.price \in Int /\ o.size \in Nat \ {0}
  BY OrderTypes
<1>3. Found(ls, o.price) => k \in 1..Len(ls) /\ ls[k].price = o.price
  <2>1. k \in 1..(Len(ls) + 1) /\ (Found(ls, o.price) => k <= Len(ls) /\ ls[k].price = o.price)
    BY <1>1, <1>2, PlaceFacts
  <2> HIDE DEF k
  <2> QED
    BY ONLY <1>1, <2>1
<1>4. (s.rebuild \/ s.vague \/ Exact(d, ls, w)) /\ (s.rebuild \/ Positive(ls))
  BY DEF Kept
<1>5. ASSUME o.side = d PROVE Changes(w, v, o.price, -o.size) /\ w[o.price] # 0
  <2>1. /\ v \in [Int -> Nat] /\ w \in [Int -> Nat]
        /\ \A p \in Int : w[p] = IF p = o.price THEN v[p] + o.size ELSE v[p]
    BY <1>5 DEF Counted, Changes
  <2>2. \A p \in Int : v[p] \in Nat /\ w[p] \in Nat
    BY <2>1
  <2>3. \A p \in Int : v[p] = IF p = o.price THEN w[p] + (-o.size) ELSE w[p]
    BY ONLY <1>2, <2>1, <2>2
  <2>4. w[o.price] # 0
    BY <1>2, <2>1, <2>2
  <2> QED
    BY <1>2, <2>1, <2>3, <2>4 DEF Changes
<1>6. CASE ~Found(ls, o.price)
  <2>1. r = s
    BY <1>6 DEF RemoveOrder
  <2>2. ASSUME Exact(d, ls, w) PROVE Exact(d, ls, v)
    <3>1. CASE o.side = d
      <4>1. Len(ls) = MaxLevels /\ \A i \in 1..Len(ls) : Better(d, ls[i].price, o.price)
        BY <1>2, <1>5, <1>6, <2>2, <3>1 DEF Exact
      <4> QED
        BY <1>5, <2>2, <3>1, <4>1, OutsideExact
    <3>2. CASE o.side # d
      BY <2>2, <3>2 DEF Counted
    <3> QED
      BY <3>1, <3>2
  <2> QED
    BY <2>1, <2>2, Zenon DEF Kept
<1>7. CASE Found(ls, o.price)
  <2> DEFINE n == ls[k].size - o.size
             y == Round(n)
             L == [ls EXCEPT ![k].size = y]
             t == Resize(d, s, k, n, o)
  <2>1. k \in 1..Len(ls) /\ ls[k].price = o.price
    BY <1>3, <1>7
  <2>2. r = [t EXCEPT !.rebuild = @ \/ y <= 0]
    BY <1>7 DEF RemoveOrder
  <2> HIDE DEF k
  <2>3. n \in Int /\ n = ls[k].size + (-o.size)
    BY <1>1, <1>2, <2>1
  <2>4. y \in Int
    BY <2>3, RoundFacts
  <2>5. ASSUME Exact(d, ls, w), y = n, y > 0, o.side = d PROVE Exact(d, L, v)
    <3>1. Changes(w, v, o.price, -o.size) /\ y = ls[k].size + (-o.size)
      BY <1>5, <2>3, <2>5
    <3> HIDE DEF y, n
    <3> QED
      BY <2>1, <2>5, <3>1, ResizeExact, Zenon
  <2> HIDE DEF n
  <2>6. /\ t \in SideState /\ Sorted(d, t.levels) /\ t.rebuild = s.rebuild /\ t.updated = TRUE
        /\ t.levels = L /\ t.vague = (s.vague \/ y # n \/ o.side # d)
        /\ (Positive(ls) /\ y > 0 => Positive(t.levels))
    <3>0. t = Resize(d, s, k, n, o)
      OBVIOUS
    <3>1. y = Round(n) /\ L = [ls EXCEPT ![k].size = y] /\ ls = s.levels
      OBVIOUS
    <3> HIDE DEF y, L, ls, t
    <3>2. ResizedTo(d, s, ls, k, n, y, L, o, t)
      BY <1>1, <2>1, <2>3, <3>0, <3>1, ResizeKept, Zenon
    <3> QED
      BY <3>2 DEF ResizedTo
  <2>7. y <= 0 \/ y > 0
    BY <2>4
  <2> HIDE DEF y, L, t
  <2>8. /\ r \in SideState /\ r.levels = t.levels /\ r.updated = TRUE /\ r.vague = t.vague
        /\ r.rebuild = (s.rebuild \/ y <= 0)
    BY <2>2, <2>6 DEF SideState
  <2>9. r.rebuild \/ Positive(r.levels)
    BY <1>4, <2>6, <2>7, <2>8, Zenon
  <2>10. r.rebuild \/ r.vague \/ Exact(d, L, v)
    BY <1>4, <2>5, <2>6, <2>7, <2>8, Zenon
  <2> QED
    BY <2>6, <2>8, <2>9, <2>10, Zenon DEF Kept
<1> QED
  BY <1>6, <1>7

-----------------------------------------------------------------------------
LEMMA EmptyKept ==
  ASSUME NEW d \in Sides, NEW w, \A p \in Int : w[p] = 0,
         NEW s \in SideState, s.levels = <<>>, ~s.updated => ~s.rebuild /\ ~s.vague
  PROVE  Kept(d, s, w) /\ Exact(d, <<>>, w)
<1>1. Sorted(d, <<>>) /\ Positive(<<>>)
  BY OrderTypes DEF Sorted, Positive
<1>2. Exact(d, <<>>, w)
  BY <1>1 DEF Exact
<1> QED
  BY <1>1, <1>2, Zenon DEF Kept

\* An order of the side raises the sizes at its price, any other order none.
LEMMA ShareChanges ==
  ASSUME NEW d \in Sides, NEW o \in Orders \cup {NoOrder}, NEW w \in [Int -> Nat], NEW v \in [Int -> Nat],
         \A p \in Int : v[p] = w[p] + Share(d, o, p)
  PROVE  /\ OnSide(d, o) => o \in Orders /\ Counted(d, w, v, o)
         /\ ~OnSide(d, o) => v = w
<1>1. CASE OnSide(d, o)
  <2>1. o \in Orders /\ o.price \in Int /\ o.size \in Nat
    BY <1>1, OrderTypes
  <2>2. \A p \in Int : Share(d, o, p) = IF p = o.price THEN o.size ELSE 0
    BY <1>1 DEF Share
  <2>3. \A p \in Int : v[p] = IF p = o.price THEN w[p] + o.size ELSE w[p]
    BY <2>2
  <2>4. Changes(w, v, o.price, o.size)
    BY <1>1, <2>1, <2>3 DEF Changes
  <2> QED
    BY <1>1, <2>1, <2>4 DEF Counted, OnSide
<1>2. CASE ~OnSide(d, o)
  <2>1. \A p \in Int : Share(d, o, p) = 0
    BY <1>2 DEF Share
  <2>2. \A p \in Int : v[p] = w[p]
    BY <2>1
  <2> QED
    BY <1>2, <2>2
<1> QED
  BY <1>1, <1>2

\* dx_plb_source_rebuild_levels computes the best levels from nothing.
LEMMA RebuildKept ==
  ASSUME NEW d \in Sides, NEW table \in Tables, NEW r, r = RebuildLevels(d, table)
  PROVE  Kept(d, r, Sizes(d, table)) /\ r.rebuild = FALSE /\ r.updated = TRUE
<1> DEFINE ob == Rebuild(d, table)
           Built(n) == Kept(d, ob[n], SizesUpTo(d, table, n)) /\ ob[n].rebuild = FALSE /\ ob[n].updated = TRUE
           G == {n \in 0..NumOrders : Built(n)}
<1>0. NumOrders \in Nat
  BY OrderTypes
<1>1. /\ ob[0] = [levels |-> <<>>, rebuild |-> FALSE, updated |-> TRUE, vague |-> FALSE]
      /\ \A n \in 1..NumOrders : ob[n] = IF OnSide(d, table[n]) THEN AddOrder(d, ob[n - 1], table[n]) ELSE ob[n - 1]
  BY RebuildFacts
<1> HIDE DEF ob
<1>2. Built(0)
  <2>1. /\ ob[0] \in SideState /\ ob[0].levels = <<>>
        /\ ob[0].rebuild = FALSE /\ ob[0].updated = TRUE
    BY <1>1 DEF SideState
  <2>2. \A p \in Int : SizesUpTo(d, table, 0)[p] = 0
    BY SizesFacts
  <2>3. Kept(d, ob[0], SizesUpTo(d, table, 0))
    BY <2>1, <2>2, EmptyKept, Zenon
  <2> QED
    BY <2>1, <2>3
<1>3. ASSUME NEW n \in 1..NumOrders, Built(n - 1) PROVE Built(n)
  <2> DEFINE o == table[n]
             w == SizesUpTo(d, table, n - 1)
             v == SizesUpTo(d, table, n)
  <2>1. o \in Orders \cup {NoOrder} /\ n - 1 \in 0..NumOrders /\ n \in 0..NumOrders
    BY <1>0 DEF Tables, Indices
  <2>2. w \in [Int -> Nat] /\ v \in [Int -> Nat] /\ \A p \in Int : v[p] = w[p] + Share(d, o, p)
    BY <2>1, SizesFacts
  <2>3. Kept(d, ob[n - 1], w) /\ ob[n - 1].rebuild = FALSE /\ ob[n - 1].updated = TRUE
    BY <1>3
  <2>4. ob[n] = IF OnSide(d, o) THEN AddOrder(d, ob[n - 1], o) ELSE ob[n - 1]
    BY <1>1
  <2> HIDE DEF o, w, v
  <2>5. CASE OnSide(d, o)
    <3>1. o \in Orders /\ Counted(d, w, v, o)
      BY <2>1, <2>2, <2>5, ShareChanges
    <3>2. ob[n] = AddOrder(d, ob[n - 1], o)
      BY <2>4, <2>5
    <3>3. /\ Kept(d, ob[n], v) /\ (ob[n - 1].updated => ob[n].updated)
          /\ ob[n].rebuild = ob[n - 1].rebuild
      BY <2>3, <3>1, <3>2, AddKept
    <3>4. ob[n].updated \in BOOLEAN
      BY <3>3 DEF Kept, SideState
    <3>5. ob[n].updated = TRUE
      BY <2>3, <3>3, <3>4, Zenon
    <3> QED
      BY <2>3, <3>3, <3>5 DEF v
  <2>6. CASE ~OnSide(d, o)
    <3>1. v = w
      BY <2>1, <2>2, <2>6, ShareChanges
    <3> QED
      BY <2>3, <2>4, <2>6, <3>1 DEF v
  <2> QED
    BY <2>5, <2>6
<1>4. NumOrders \in G
  <2> HIDE DEF Built
  <2>1. 0 \in G /\ \A n \in 1..NumOrders : n - 1 \in G => n \in G
    BY <1>0, <1>2, <1>3
  <2> HIDE DEF G
  <2> QED
    BY <1>0, <2>1, UpTo
<1> QED
  BY <1>4 DEF RebuildLevels, ob, Sizes

\* dx_plb_source_process_order: the sides follow the table.
LEMMA ProcessKept ==
  ASSUME NEW table \in Tables, NEW sides, sides \in [Sides -> SideState],
         \A d \in Sides : Kept(d, sides[d], Sizes(d, table)),
         NEW i \in Indices, NEW o \in Orders \cup {NoOrder},
         NEW r, r = ProcessOrder(table, sides, i, o)
  PROVE  /\ r \in [Sides -> SideState]
         /\ \A d \in Sides : /\ Kept(d, r[d], Sizes(d, [table EXCEPT ![i] = o]))
                             /\ sides[d].updated => r[d].updated
<1> DEFINE old == table[i]
           table2 == [table EXCEPT ![i] = o]
           InBook(d, x) == x # NoOrder /\ BookSide(x) = d
           added == IF o = NoOrder THEN sides ELSE [sides EXCEPT ![BookSide(o)] = AddOrder(BookSide(o), @, o)]
<1>1. old \in Orders \cup {NoOrder} /\ table2 \in Tables /\ NumOrders \in 0..NumOrders
  BY OrderTypes DEF Tables
<1>2. r = IF old = NoOrder THEN added ELSE [added EXCEPT ![BookSide(old)] = RemoveOrder(BookSide(old), @, old)]
  BY DEF ProcessOrder
<1>3. /\ DOMAIN added = Sides
      /\ \A d \in Sides : added[d] = IF InBook(d, o) THEN AddOrder(d, sides[d], o) ELSE sides[d]
      /\ added = [d \in Sides |-> added[d]]
  <2> HIDE DEF old
  <2> QED
    BY OrderTypes
<1> HIDE DEF added
<1>4. r = [d \in Sides |-> r[d]]
  BY <1>2, <1>3
<1>5. \A d \in Sides : r[d] = IF InBook(d, old) THEN RemoveOrder(d, added[d], old) ELSE added[d]
  BY <1>1, <1>2, <1>3, OrderTypes
<1> HIDE DEF old
\* An order that is counted in the levels of a side is counted among its sizes
\* when it is of the side.
<1>0. ASSUME NEW d \in Sides, NEW x \in Orders \cup {NoOrder}, NEW a \in [Int -> Nat], NEW b \in [Int -> Nat],
             \A p \in Int : b[p] = a[p] + Share(d, x, p)
      PROVE  /\ InBook(d, x) => x \in Orders /\ Counted(d, a, b, x)
             /\ ~InBook(d, x) => b = a
  <2>1. /\ OnSide(d, x) => x \in Orders /\ Counted(d, a, b, x)
        /\ ~OnSide(d, x) => b = a
    BY <1>0, ShareChanges
  <2>2. OnSide(d, x) => InBook(d, x)
    BY DEF OnSide, BookSide, Sides
  <2>3. ASSUME InBook(d, x), ~OnSide(d, x) PROVE x \in Orders /\ Counted(d, a, b, x)
    BY <2>1, <2>3 DEF OnSide, Counted
  <2> QED
    BY <2>1, <2>2, <2>3
<1> HIDE DEF InBook
<1>6. ASSUME NEW d \in Sides
      PROVE  Kept(d, r[d], Sizes(d, table2)) /\ (sides[d].updated => r[d].updated)
  <2> DEFINE w == Sizes(d, table)
             v == Sizes(d, table2)
             mid == [p \in Int |-> w[p] + Share(d, o, p)]
  <2>1. w \in [Int -> Nat] /\ v \in [Int -> Nat]
    BY <1>1, SizesFacts DEF Sizes
  <2>2. \A p \in Int : v[p] = w[p] + Share(d, o, p) - Share(d, old, p)
    BY SizesChange DEF old
  <2>3. \A p \in Int : Share(d, o, p) \in Nat /\ Share(d, old, p) \in Nat
    BY <1>1, ShareNat
  <2> HIDE DEF w, v, table2
  <2>4. mid \in [Int -> Nat] /\ \A p \in Int : mid[p] = w[p] + Share(d, o, p)
    BY <2>1, <2>3
  <2> HIDE DEF mid
  <2>5. \A p \in Int : mid[p] = v[p] + Share(d, old, p)
    BY <2>1, <2>2, <2>3, <2>4
  <2>6. Kept(d, sides[d], w)
    BY DEF w
  <2>7. Kept(d, added[d], mid) /\ (sides[d].updated => added[d].updated)
    <3>1. CASE InBook(d, o)
      <4>1. o \in Orders /\ Counted(d, w, mid, o)
        BY <2>1, <2>4, <3>1, <1>0
      <4>2. added[d] = AddOrder(d, sides[d], o)
        BY <1>3, <3>1
      <4> QED
        BY <2>6, <4>1, <4>2, AddKept
    <3>2. CASE ~InBook(d, o)
      <4>1. mid = w /\ added[d] = sides[d]
        BY <1>3, <2>1, <2>4, <3>2, <1>0
      <4> QED
        BY <2>6, <4>1
    <3> QED
      BY <3>1, <3>2
  <2>8. CASE InBook(d, old)
    <3>1. old \in Orders /\ Counted(d, v, mid, old)
      BY <1>1, <2>1, <2>4, <2>5, <2>8, <1>0
    <3>2. r[d] = RemoveOrder(d, added[d], old)
      BY <1>5, <2>8
    <3>3. Kept(d, r[d], v) /\ (added[d].updated => r[d].updated)
      BY <2>7, <3>1, <3>2, RemoveKept
    <3> QED
      BY <2>7, <3>3, Zenon DEF v
  <2>9. CASE ~InBook(d, old)
    <3>1. mid = v /\ r[d] = added[d]
      BY <1>1, <1>5, <2>1, <2>4, <2>5, <2>9, <1>0
    <3> QED
      BY <2>7, <3>1, Zenon DEF v
  <2> QED
    BY <2>8, <2>9
<1>7. \A d \in Sides : r[d] \in SideState
  BY <1>6 DEF Kept
<1> QED
  BY <1>4, <1>6, <1>7

-----------------------------------------------------------------------------
\* What books are shown: sorted, no more than fit, and no level without a size.
Shown(d, levels) == Sorted(d, levels) /\ Positive(levels)

\* The inductive invariant: each side follows the orders, the final levels of a
\* side that was never updated are empty, and with the status full they are the
\* best levels of the orders unless the side is vague.
SourceInv ==
  /\ orders \in Tables /\ status \in {"begin", "full", "pending"}
  /\ side \in [Sides -> SideState] /\ final \in [Sides -> Seq(Level)]
  /\ \A d \in Sides :
       /\ Kept(d, side[d], Sizes(d, orders))
       /\ Shown(d, final[d])
       /\ ~side[d].updated => final[d] = <<>>
       /\ status = "full" => side[d].vague \/ Exact(d, final[d], Sizes(d, orders))

LEMMA EmptyTable ==
  ASSUME NEW table, table = [j \in Indices |-> NoOrder]
  PROVE  table \in Tables /\ \A d \in Sides, p \in Int : Sizes(d, table)[p] = 0
<1>1. table \in Tables
  BY DEF Tables
<1>2. \A d \in Sides : PricesOf(d, table) = {}
  BY DEF PricesOf, OnSide
<1> QED
  BY <1>1, <1>2, SizesPositive

LEMMA EmptyShown ==
  ASSUME NEW d \in Sides
  PROVE  Shown(d, <<>>) /\ <<>> \in Seq(Level)
<1>1. Sorted(d, <<>>) /\ Positive(<<>>)
  BY OrderTypes DEF Sorted, Positive
<1> QED
  BY <1>1 DEF Shown

LEMMA SourceInitially == Init => SourceInv
<1> SUFFICES ASSUME Init PROVE SourceInv
  OBVIOUS
<1>1. orders \in Tables /\ \A d \in Sides, p \in Int : Sizes(d, orders)[p] = 0
  BY EmptyTable DEF Init
<1> DEFINE none == [levels |-> <<>>, rebuild |-> FALSE, updated |-> FALSE, vague |-> FALSE]
<1>2. none \in SideState /\ none.levels = <<>> /\ ~none.rebuild /\ ~none.vague
  BY DEF SideState
<1>3. side = [d \in Sides |-> none] /\ final = [d \in Sides |-> <<>>] /\ status = "full"
  BY DEF Init
<1> HIDE DEF none
<1>4. side \in [Sides -> SideState] /\ final \in [Sides -> Seq(Level)]
  BY <1>2, <1>3, EmptyShown
<1>5. ASSUME NEW d \in Sides
      PROVE  /\ Kept(d, side[d], Sizes(d, orders)) /\ Exact(d, final[d], Sizes(d, orders))
             /\ Shown(d, final[d]) /\ final[d] = <<>>
  <2>1. side[d] = none /\ final[d] = <<>>
    BY <1>3
  <2>2. \A p \in Int : Sizes(d, orders)[p] = 0
    BY <1>1
  <2>3. Kept(d, none, Sizes(d, orders)) /\ Exact(d, <<>>, Sizes(d, orders))
    BY <1>2, <2>2, EmptyKept, Zenon
  <2> QED
    BY <2>1, <2>3, EmptyShown
<1> QED
  BY <1>1, <1>3, <1>4, <1>5 DEF SourceInv

LEMMA EventStep ==
  ASSUME SourceInv, NEW i \in Indices, NEW o \in Orders \cup {NoOrder},
         NEW sb \in BOOLEAN, NEW se \in BOOLEAN, NEW tx \in BOOLEAN, Event(i, o, sb, se, tx)
  PROVE  SourceInv'
<1> DEFINE table  == IF sb THEN [j \in Indices |-> NoOrder] ELSE orders
           before == IF sb THEN ResetSides ELSE side
           sides  == ProcessOrder(table, before, i, o)
           kept   == IF sb THEN [d \in Sides |-> <<>>] ELSE final
           table2 == [table EXCEPT ![i] = o]
           built  == [d \in Sides |-> IF sides[d].rebuild THEN RebuildLevels(d, table2) ELSE sides[d]]
           full   == StatusAfter(sb, se, tx) = "full"
           ends   == full /\ \E d \in Sides : sides[d].updated
<1>1. /\ orders' = table2 /\ status' = StatusAfter(sb, se, tx)
      /\ side' = IF ends THEN built ELSE sides
      /\ final' = [d \in Sides |-> IF ends /\ built[d].updated THEN built[d].levels ELSE kept[d]]
  BY DEF Event
<1>2. /\ orders \in Tables /\ status \in {"begin", "full", "pending"}
      /\ side \in [Sides -> SideState] /\ final \in [Sides -> Seq(Level)]
      /\ \A d \in Sides : /\ Kept(d, side[d], Sizes(d, orders)) /\ Shown(d, final[d])
                          /\ ~side[d].updated => final[d] = <<>>
  BY DEF SourceInv
<1>3. table \in Tables /\ before \in [Sides -> SideState]
        /\ \A d \in Sides : Kept(d, before[d], Sizes(d, table)) /\ before[d].updated = side[d].updated
  <2>1. CASE sb
    <3>1. table \in Tables /\ \A d \in Sides, p \in Int : Sizes(d, table)[p] = 0
      BY <2>1, EmptyTable
    <3>2. before = [d \in Sides |-> [side[d] EXCEPT !.levels = <<>>, !.vague = FALSE]]
      BY <2>1 DEF ResetSides
    <3> HIDE DEF before
    <3>3. ASSUME NEW d \in Sides
          PROVE  /\ before[d] \in SideState /\ before[d].levels = <<>>
                 /\ before[d].updated = side[d].updated /\ before[d].rebuild = side[d].rebuild
                 /\ before[d].vague = FALSE
      <4>1. side[d] \in SideState
        BY <1>2
      <4>2. before[d] = [side[d] EXCEPT !.levels = <<>>, !.vague = FALSE]
        BY <3>2
      <4> QED
        BY <4>1, <4>2, EmptyShown DEF SideState
    <3>4. \A d \in Sides : ~side[d].updated => ~side[d].rebuild
      BY <1>2, Zenon DEF Kept
    <3>5. \A d \in Sides : ~before[d].updated => ~before[d].rebuild /\ ~before[d].vague
      BY <3>3, <3>4
    <3>6. \A d \in Sides : Kept(d, before[d], Sizes(d, table))
      <4> HIDE DEF table
      <4> QED
        BY <3>1, <3>3, <3>5, EmptyKept, Zenon
    <3> QED
      BY <3>1, <3>2, <3>3, <3>6
  <2>2. CASE ~sb
    BY <1>2, <2>2
  <2> QED
    BY <2>1, <2>2
<1> HIDE DEF table, before
<1>4. /\ table2 \in Tables /\ sides \in [Sides -> SideState]
      /\ \A d \in Sides : Kept(d, sides[d], Sizes(d, table2)) /\ (before[d].updated => sides[d].updated)
  <2>1. table2 \in Tables
    BY <1>3 DEF Tables
  <2> QED
    BY <1>3, <2>1, ProcessKept
<1>5. ASSUME NEW d \in Sides
      PROVE  kept[d] \in Seq(Level) /\ Shown(d, kept[d]) /\ (~sides[d].updated => kept[d] = <<>>)
  <2>1. CASE sb
    BY <2>1, EmptyShown
  <2>2. CASE ~sb
    <3>1. ~sides[d].updated => ~side[d].updated
      BY <1>3, <1>4
    <3> QED
      BY <1>2, <2>2, <3>1
  <2> QED
    BY <2>1, <2>2
<1>6. status' \in {"begin", "full", "pending"}
  BY <1>1, <1>2 DEF StatusAfter
<1> HIDE DEF sides, kept, table2
\* After a rebuild where one was asked for, the levels can be shown.
<1>7. ASSUME NEW d \in Sides
      PROVE  /\ Kept(d, built[d], Sizes(d, table2)) /\ ~built[d].rebuild
             /\ sides[d].updated => built[d].updated
             /\ ~built[d].updated => ~sides[d].updated /\ built[d].levels = <<>>
  <2>1. sides[d].rebuild \in BOOLEAN
    BY <1>4 DEF SideState
  <2>2. CASE sides[d].rebuild
    <3> DEFINE b == RebuildLevels(d, table2)
    <3>1. built[d] = b
      BY <2>2
    <3>2. Kept(d, b, Sizes(d, table2)) /\ b.rebuild = FALSE /\ b.updated = TRUE
      BY <1>4, RebuildKept
    <3> HIDE DEF b, built
    <3> QED
      BY <3>1, <3>2, Zenon
  <2>3. CASE ~sides[d].rebuild
    <3>1. built[d] = sides[d]
      BY <2>3
    <3>2. Kept(d, sides[d], Sizes(d, table2))
      BY <1>4
    <3>3. ~sides[d].updated => sides[d].levels = <<>>
      BY <3>2, Zenon DEF Kept
    <3> HIDE DEF built
    <3> QED
      BY <2>3, <3>1, <3>2, <3>3, Zenon
  <2> QED
    BY <2>2, <2>3
<1>8. built = [d \in Sides |-> built[d]]
  OBVIOUS
<1> HIDE DEF built
<1>9. CASE ends
  <2>1. side' = built /\ \A d \in Sides : final'[d] = IF built[d].updated THEN built[d].levels ELSE kept[d]
    BY <1>1, <1>9
  <2>2. \A d \in Sides : built[d] \in SideState
    BY <1>7 DEF Kept
  <2>3. ASSUME NEW d \in Sides PROVE final'[d] = built[d].levels
    <3>1. CASE built[d].updated
      BY <2>1, <3>1
    <3>2. CASE ~built[d].updated
      BY <1>5, <1>7, <2>1, <3>2
    <3> QED
      BY <3>1, <3>2
  <2>4. ASSUME NEW d \in Sides
        PROVE  /\ Kept(d, side[d], Sizes(d, orders))'
               /\ side'[d].vague \/ Exact(d, final'[d], Sizes(d, orders'))
               /\ Shown(d, final[d])' /\ final'[d] \in Seq(Level)
               /\ (~side[d].updated => final[d] = <<>>)'
    <3> DEFINE w == Sizes(d, table2)
    <3>1. Kept(d, built[d], w) /\ ~built[d].rebuild
      BY <1>7
    <3> HIDE DEF w
    <3>2. /\ Sorted(d, built[d].levels) /\ Positive(built[d].levels)
          /\ built[d].vague \/ Exact(d, built[d].levels, w)
      BY <3>1, Zenon DEF Kept
    <3>3. Shown(d, built[d].levels) /\ built[d].levels \in Seq(Level)
      BY <3>2 DEF Shown, Sorted
    <3>4. Kept(d, side'[d], Sizes(d, orders')) /\ (side'[d].vague \/ Exact(d, final'[d], Sizes(d, orders')))
      BY <1>1, <2>1, <2>3, <3>1, <3>2 DEF w
    <3>5. ~side'[d].updated => final'[d] = <<>>
      BY <1>7, <2>1, <2>3
    <3> QED
      BY <2>3, <3>3, <3>4, <3>5
  <2>5. side' \in [Sides -> SideState] /\ final' \in [Sides -> Seq(Level)] /\ orders' \in Tables
    BY <1>1, <1>4, <1>8, <2>1, <2>2, <2>4
  <2> QED
    BY <1>6, <2>4, <2>5 DEF SourceInv
<1>10. CASE ~ends
  <2>1. side' = sides /\ \A d \in Sides : final'[d] = kept[d]
    BY <1>1, <1>10
  <2>2. ASSUME NEW d \in Sides, status' = "full" PROVE Exact(d, final'[d], Sizes(d, orders'))
    <3>1. ~sides[d].updated
      BY <1>1, <1>10, <2>2
    <3>2. sides[d].levels = <<>> /\ Exact(d, sides[d].levels, Sizes(d, table2))
      BY <1>4, <3>1, Zenon DEF Kept
    <3>3. final'[d] = <<>>
      BY <1>5, <2>1, <3>1
    <3> QED
      BY <1>1, <3>2, <3>3
  <2>3. ASSUME NEW d \in Sides
        PROVE  /\ Kept(d, side[d], Sizes(d, orders))'
               /\ Shown(d, final[d])' /\ final'[d] \in Seq(Level)
               /\ (~side[d].updated => final[d] = <<>>)'
    BY <1>1, <1>4, <1>5, <2>1
  <2>4. side' \in [Sides -> SideState] /\ final' \in [Sides -> Seq(Level)] /\ orders' \in Tables
    BY <1>1, <1>4, <2>1, <2>3
  <2> QED
    BY <1>6, <2>2, <2>3, <2>4 DEF SourceInv
<1> QED
  BY <1>9, <1>10

LEMMA SourceStep == SourceInv /\ [Next]_vars => SourceInv'
<1> SUFFICES ASSUME SourceInv, [Next]_vars PROVE SourceInv'
  OBVIOUS
<1>1. CASE Next
  BY <1>1, EventStep DEF Next
<1>2. CASE UNCHANGED vars
  BY <1>2 DEF vars, SourceInv
<1> QED
  BY <1>1, <1>2

-----------------------------------------------------------------------------
LEMMA PricesFinite ==
  ASSUME NEW d \in Sides, NEW table \in Tables
  PROVE  IsFiniteSet(PricesOf(d, table)) /\ PricesOf(d, table) \subseteq Int
<1> DEFINE f == [k \in 1..NumOrders |-> table[k].price]
<1>1. NumOrders \in Nat
  BY OrderTypes
<1>2. \A x \in PricesOf(d, table) : \E k \in 1..NumOrders : x = f[k]
  BY DEF PricesOf, Indices
<1>3. DOMAIN f = 1..NumOrders /\ f = [k \in 1..NumOrders |-> f[k]]
  OBVIOUS
<1>4. PricesOf(d, table) \subseteq Int
  <2>1. \A k \in Indices : OnSide(d, table[k]) => table[k].price \in Int
    BY OrderTypes DEF Tables
  <2> QED
    BY <2>1 DEF PricesOf
<1> HIDE DEF f
<1> QED
  BY <1>1, <1>2, <1>3, <1>4, Image

\* Exact levels are the best levels as FinalLevelsExact counts them.
LEMMA ExactIsBest ==
  ASSUME NEW d \in Sides, NEW table \in Tables, NEW levels, Exact(d, levels, Sizes(d, table))
  PROVE  IsBest(levels, d, table)
<1> DEFINE len == Len(levels)
           Prices == PricesOf(d, table)
           Ahead(p) == {q \in Prices : Better(d, q, p)}
<1>1. /\ len \in Nat /\ len <= MaxLevels /\ MaxLevels \in Nat \ {0}
      /\ \A i \in 1..len : levels[i].price \in Int /\ levels[i].size \in Int
      /\ \A i, j \in 1..len : i < j => Better(d, levels[i].price, levels[j].price)
      /\ \A i \in 1..len : levels[i].size = Sizes(d, table)[levels[i].price] /\ levels[i].size > 0
      /\ \A i, j \in 1..len : levels[i].price = levels[j].price => i = j
  BY ExactFacts
<1>2. IsFiniteSet(Prices) /\ Prices \subseteq Int
  BY PricesFinite
<1>3. \A i \in 1..len : levels[i].price \in Prices
  BY <1>1, SizesPositive
<1>4. ASSUME NEW p \in Prices
      PROVE  \/ \E j \in 1..len : levels[j].price = p
             \/ len = MaxLevels /\ \A j \in 1..len : Better(d, levels[j].price, p)
  <2>1. p \in Int /\ Sizes(d, table)[p] # 0
    BY <1>2, SizesPositive
  <2> QED
    BY <2>1 DEF Exact, Found
<1> HIDE DEF len, Prices
<1>5. ASSUME NEW j \in 1..len PROVE Cardinality(Ahead(levels[j].price)) < MaxLevels
  <2> DEFINE f == [i \in 1..(j - 1) |-> levels[i].price]
  <2>0. levels[j].price \in Int /\ j - 1 \in Nat
    BY <1>1
  <2>1. ASSUME NEW q \in Ahead(levels[j].price) PROVE \E i \in 1..(j - 1) : q = levels[i].price
    <3>1. q \in Int /\ q \in Prices /\ Better(d, q, levels[j].price)
      BY <1>2, <2>1
    <3>2. ~(\A i \in 1..len : Better(d, levels[i].price, q))
      BY <2>0, <3>1, BetterOrder
    <3>3. PICK i \in 1..len : levels[i].price = q
      BY <1>4, <3>1, <3>2
    <3>4. i # j /\ ~(j < i)
      BY <1>1, <2>0, <3>1, <3>3, BetterOrder
    <3>5. i \in 1..(j - 1)
      BY <1>1, <3>4
    <3> QED
      BY <3>3, <3>5
  <2>2. \A q \in Ahead(levels[j].price) : \E i \in 1..(j - 1) : q = f[i]
    BY <2>1
  <2>3. DOMAIN f = 1..(j - 1) /\ f = [i \in 1..(j - 1) |-> f[i]]
    OBVIOUS
  <2> HIDE DEF f, Ahead
  <2>4. IsFiniteSet(Ahead(levels[j].price)) /\ Cardinality(Ahead(levels[j].price)) <= j - 1
    BY <2>0, <2>2, <2>3, Image
  <2>5. Cardinality(Ahead(levels[j].price)) \in Nat
    BY <2>4, FS_CardinalityType
  <2> QED
    BY <1>1, <2>0, <2>4, <2>5
<1>6. ASSUME NEW p \in Prices, Cardinality(Ahead(p)) < MaxLevels
      PROVE  \E j \in 1..len : levels[j].price = p
  <2> SUFFICES ASSUME len = MaxLevels, \A j \in 1..len : Better(d, levels[j].price, p) PROVE FALSE
    BY <1>4
  <2> DEFINE f == [j \in 1..len |-> levels[j].price]
  <2>1. \A j \in 1..len : levels[j].price \in Ahead(p)
    BY <1>3
  <2>2. f \in Injection(1..len, Ahead(p))
    <3>1. f \in [1..len -> Ahead(p)]
      BY <2>1
    <3>2. \A i, j \in 1..len : f[i] = f[j] => i = j
      BY <1>1
    <3> HIDE DEF Ahead, f
    <3> QED
      BY <3>1, <3>2 DEF Injection, IsInjective
  <2>3. Ahead(p) \in SUBSET Prices
    OBVIOUS
  <2> HIDE DEF f, Ahead
  <2>4. IsFiniteSet(Ahead(p))
    BY <1>2, <2>3, FS_Subset
  <2>5. Cardinality(1..len) <= Cardinality(Ahead(p))
    BY <2>2, <2>4, FS_Injection
  <2>6. Cardinality(1..len) = len
    BY <1>1, FS_Interval
  <2>7. Cardinality(Ahead(p)) \in Nat
    BY <2>4, FS_CardinalityType
  <2> QED
    BY <1>1, <1>6, <2>5, <2>6, <2>7
<1>7. {levels[i].price : i \in 1..Len(levels)} = BestPrices(d, table)
  <2>1. {levels[i].price : i \in 1..len} = {p \in Prices : Cardinality(Ahead(p)) < MaxLevels}
    <3> HIDE DEF Ahead
    <3> QED
      BY <1>3, <1>5, <1>6
  <2> QED
    BY <2>1 DEF BestPrices, Prices, len
<1>8. \A i \in 1..Len(levels) : levels[i].size = SizeAt(d, table, levels[i].price)
  <2>1. \A i \in 1..len : levels[i].size = Sizes(d, table)[levels[i].price] /\ levels[i].price \in Int
    BY <1>1
  <2>2. \A p \in Int : Sizes(d, table)[p] = SizeAt(d, table, p)
    BY DEF Sizes, SizesUpTo, SizeAt
  <2> QED
    BY <2>1, <2>2 DEF len
<1> QED
  BY <1>1, <1>7, <1>8 DEF IsBest, len

\* The sides follow the orders, whatever the server sends: the bounded array of
\* levels never drops a level that belongs to it without asking for a rebuild, no
\* level without a size survives the end of a transaction, and sizes go wrong
\* only by rounding or by an order of undefined side.
THEOREM SourceInvariant == Spec => []SourceInv
BY SourceInitially, SourceStep, PTL DEF Spec

\* Types and bounds: no sequence of events makes the levels of a side, kept or
\* shown, more than MAX_PRICE_LEVELS.
THEOREM SourceTypeOK == Spec => []TypeOK
<1>1. SourceInv => TypeOK
  <2> SUFFICES ASSUME SourceInv PROVE TypeOK
    OBVIOUS
  <2>1. orders \in [Indices -> Orders \cup {NoOrder}] /\ status \in {"begin", "full", "pending"}
    BY DEF SourceInv, Tables
  <2>2. ASSUME NEW d \in Sides
        PROVE  /\ side[d].levels \in Seq(Level) /\ Len(side[d].levels) <= MaxLevels
               /\ side[d].rebuild \in BOOLEAN /\ side[d].updated \in BOOLEAN
               /\ side[d].vague \in BOOLEAN
               /\ final[d] \in Seq(Level) /\ Len(final[d]) <= MaxLevels
    <3>1. side[d] \in SideState /\ Sorted(d, side[d].levels) /\ Sorted(d, final[d])
      BY Zenon DEF SourceInv, Kept, Shown
    <3>2. side[d].rebuild \in BOOLEAN /\ side[d].updated \in BOOLEAN /\ side[d].vague \in BOOLEAN
      BY <3>1 DEF SideState
    <3> QED
      BY <3>1, <3>2 DEF Sorted
  <2> QED
    BY <2>1, <2>2 DEF TypeOK
<1> QED
  BY <1>1, SourceInvariant, PTL

\* At the end of a transaction the levels shown to books are the best levels of
\* all orders, for any orders, any events, any number of levels and any precision,
\* unless a sum was rounded or an order of no side counted since the last rebuild;
\* and always they are sorted, and none is without a size.
THEOREM FinalLevelsExactTheorem == Spec => []FinalLevelsExact
<1>1. ASSUME SourceInv, NEW d \in Sides
      PROVE  /\ status = "full" /\ ~side[d].vague => IsBest(final[d], d, orders)
             /\ \A i \in 1..Len(final[d]) : final[d][i].size > 0
             /\ \A i, j \in 1..Len(final[d]) : i < j => Better(d, final[d][i].price, final[d][j].price)
  <2>1. orders \in Tables /\ Shown(d, final[d])
    BY <1>1 DEF SourceInv
  <2>2. status = "full" /\ ~side[d].vague => Exact(d, final[d], Sizes(d, orders))
    BY <1>1 DEF SourceInv
  <2>3. status = "full" /\ ~side[d].vague => IsBest(final[d], d, orders)
    BY <2>1, <2>2, ExactIsBest
  <2> QED
    BY <2>1, <2>3 DEF Shown, Positive, Sorted
<1>2. SourceInv => FinalLevelsExact
  BY <1>1 DEF FinalLevelsExact
<1> QED
  BY <1>2, SourceInvariant, PTL

\* What PriceLevelBook assumes of the levels of its sources (BookAssumption)
\* holds in every state, also inside a transaction: they are sorted, there are
\* no more than MaxLevels and none is without a size.
SoundForBooks ==
  \A d \in Sides :
    /\ final[d] \in Seq([price : Int, size : Nat]) /\ Len(final[d]) <= MaxLevels
    /\ \A i \in 1..Len(final[d]) : final[d][i].size # 0
    /\ \A i, j \in 1..Len(final[d]) : i < j => Better(d, final[d][i].price, final[d][j].price)

THEOREM SoundForBooksTheorem == Spec => []SoundForBooks
<1>1. ASSUME SourceInv, NEW d \in Sides
      PROVE  /\ final[d] \in Seq([price : Int, size : Nat]) /\ Len(final[d]) <= MaxLevels
             /\ \A i \in 1..Len(final[d]) : final[d][i].size # 0
             /\ \A i, j \in 1..Len(final[d]) : i < j => Better(d, final[d][i].price, final[d][j].price)
  <2> DEFINE ls == final[d]
  <2>1. /\ ls \in Seq(Level) /\ Len(ls) <= MaxLevels
        /\ \A i, j \in 1..Len(ls) : i < j => Better(d, ls[i].price, ls[j].price)
        /\ \A i \in 1..Len(ls) : ls[i].size > 0
    BY <1>1 DEF SourceInv, Shown, Sorted, Positive
  <2> HIDE DEF ls
  <2>2. \A i \in 1..Len(ls) : ls[i] \in [price : Int, size : Nat] /\ ls[i].size # 0
    <3>1. \A i \in 1..Len(ls) : ls[i] \in Level
      BY <2>1
    <3>2. \A x \in Level : x.size > 0 => x \in [price : Int, size : Nat] /\ x.size # 0
      BY DEF Level
    <3> QED
      BY <2>1, <3>1, <3>2
  <2>3. ls \in Seq([price : Int, size : Nat])
    <3> DEFINE S == [price : Int, size : Nat]
    <3>1. Len(ls) \in Nat /\ ls = [i \in 1..Len(ls) |-> ls[i]]
      BY <2>1
    <3>2. \A i \in 1..Len(ls) : ls[i] \in S
      BY <2>2
    <3> HIDE DEF S
    <3>3. ls \in Seq(S)
      BY <3>1, <3>2
    <3> QED
      BY <3>3 DEF S
  <2> QED
    BY <2>1, <2>2, <2>3 DEF ls
<1>2. SourceInv => SoundForBooks
  BY <1>1 DEF SoundForBooks
<1> QED
  BY <1>2, SourceInvariant, PTL
=============================================================================
