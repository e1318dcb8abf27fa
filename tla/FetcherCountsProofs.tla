-------------------------- MODULE FetcherCountsProofs --------------------------
(***************************************************************************)
(* Proofs about what Fetcher counts: the tokens and the debts of the       *)
(* limiter, and the bytes its progress reporter is told.                   *)
(***************************************************************************)
EXTENDS FetcherProofs

-------------------------------------------------------------------------------
\* Sums.

LEMMA RowCount ==
  ASSUME NEW x, NEW n \in Nat
  PROVE  IsFiniteSet({x} \X (1..n)) /\ Cardinality({x} \X (1..n)) = n
<1>1. IsFiniteSet({x}) /\ Cardinality({x}) = 1 BY FS_Singleton
<1>2. IsFiniteSet(1..n) /\ Cardinality(1..n) = n BY FS_Interval
<1> DEFINE X == {x}
           I == 1..n
<1> HIDE DEF X, I
<1>3. IsFiniteSet(X \X I) /\ Cardinality(X \X I) = Cardinality(X) * Cardinality(I)
  BY <1>1, <1>2, FS_Product DEF X, I
<1>4. Cardinality(X \X I) = 1 * n BY <1>1, <1>2, <1>3 DEF X, I
<1> QED BY <1>3, <1>4 DEF X, I

LEMMA InHeap ==
  ASSUME NEW S, NEW f \in [S -> Nat], NEW e
  PROVE  e \in Heap(f) <=> \E x \in S : e \in {x} \X (1..f[x])
<1>1. DOMAIN f = S OBVIOUS
<1> QED BY <1>1 DEF Heap

LEMMA HeapFinite ==
  ASSUME NEW S, IsFiniteSet(S), NEW f \in [S -> Nat]
  PROVE  IsFiniteSet(Heap(f)) /\ Sum(f) \in Nat
<1> DEFINE row(x) == {x} \X (1..f[x])
           T == {row(x) : x \in S}
           g == [x \in S |-> row(x)]
<1>1. g \in Surjection(S, T) BY DEF Surjection
<1>2. IsFiniteSet(T)
  <2> HIDE DEF g, T
  <2> QED BY <1>1, FS_Surjection
<1>3. ASSUME NEW R \in T PROVE IsFiniteSet(R)
  <2>1. PICK x \in S : R = row(x) OBVIOUS
  <2>2. f[x] \in Nat OBVIOUS
  <2> QED BY <2>1, <2>2, RowCount
<1>4. DOMAIN f = S OBVIOUS
<1>5. Heap(f) = UNION T BY <1>4 DEF Heap
<1> HIDE DEF T
<1>6. IsFiniteSet(Heap(f)) BY <1>2, <1>3, <1>5, FS_UNION
<1> QED BY <1>6, FS_CardinalityType DEF Sum

LEMMA SumMonotone ==
  ASSUME NEW S, IsFiniteSet(S), NEW f \in [S -> Nat], NEW g \in [S -> Nat],
         \A x \in S : f[x] <= g[x]
  PROVE  Sum(f) <= Sum(g)
<1>1. ASSUME NEW e \in Heap(f) PROVE e \in Heap(g)
  <2>1. PICK x \in S : e \in {x} \X (1..f[x]) BY InHeap
  <2>2. 1..f[x] \subseteq 1..g[x]
    <3>1. f[x] \in Nat /\ g[x] \in Nat /\ f[x] <= g[x] OBVIOUS
    <3> QED BY <3>1
  <2>3. e \in {x} \X (1..g[x]) BY <2>1, <2>2
  <2> QED BY <2>3, InHeap
<1>2. IsFiniteSet(Heap(g)) BY HeapFinite
<1> QED BY <1>1, <1>2, FS_Subset DEF Sum

\* One of the summands stands apart.
LEMMA SumApart ==
  ASSUME NEW S, IsFiniteSet(S), NEW x \in S, NEW f \in [S -> Nat],
         NEW g \in [S -> Nat], g[x] = 0, \A y \in S \ {x} : g[y] = f[y]
  PROVE  Sum(f) = Sum(g) + f[x]
<1> DEFINE row == {x} \X (1..f[x])
<1>1. f[x] \in Nat OBVIOUS
<1>2. IsFiniteSet(row) /\ Cardinality(row) = f[x] BY <1>1, RowCount
<1>3. IsFiniteSet(Heap(g)) /\ Cardinality(Heap(g)) \in Nat BY HeapFinite DEF Sum
<1>4. ASSUME NEW e PROVE e \in Heap(f) <=> e \in Heap(g) \/ e \in row
  <2>1. e \in Heap(f) <=> \E y \in S : e \in {y} \X (1..f[y]) BY InHeap
  <2>2. e \in Heap(g) <=> \E y \in S : e \in {y} \X (1..g[y]) BY InHeap
  <2>3. 1..g[x] = {} BY <1>1
  <2>4. e \notin {x} \X (1..g[x]) BY <2>3
  <2> QED BY <1>1, <2>1, <2>2, <2>4
<1>5. ASSUME NEW e \in Heap(g), e \in row PROVE FALSE
  <2>1. PICK y \in S : e \in {y} \X (1..g[y]) BY InHeap
  <2>2. y = x BY <1>5, <2>1
  <2>3. 1..g[y] = {} BY <1>1, <2>2
  <2> QED BY <2>1, <2>3
<1> HIDE DEF row
<1>6. Heap(f) = Heap(g) \cup row BY <1>4
<1>7. Heap(g) \cap row = {} BY <1>5
<1>8. Cardinality(Heap(g) \cap row) = 0 BY <1>7, FS_EmptySet
<1>9. Cardinality(Heap(f)) = Cardinality(Heap(g)) + f[x] - 0
  <2>1. Cardinality(Heap(g) \cup row)
          = Cardinality(Heap(g)) + Cardinality(row) - Cardinality(Heap(g) \cap row)
    BY <1>2, <1>3, FS_Union
  <2> QED BY <2>1, <1>2, <1>6, <1>8
<1> QED BY <1>1, <1>3, <1>9 DEF Sum

\* One of the summands changes.
LEMMA SumChange ==
  ASSUME NEW S, IsFiniteSet(S), NEW x \in S, NEW f \in [S -> Nat], NEW g \in [S -> Nat],
         \A y \in S \ {x} : g[y] = f[y]
  PROVE  Sum(g) = Sum(f) - f[x] + g[x]
<1> DEFINE h == [f EXCEPT ![x] = 0]
<1>1. /\ h \in [S -> Nat] /\ h[x] = 0
      /\ \A y \in S \ {x} : h[y] = f[y] /\ h[y] = g[y]
  OBVIOUS
<1> HIDE DEF h
<1>3. Sum(f) = Sum(h) + f[x] BY <1>1, SumApart
<1>4. Sum(g) = Sum(h) + g[x] BY <1>1, SumApart
<1>5. Sum(h) \in Nat BY <1>1, HeapFinite
<1>6. f[x] \in Nat /\ g[x] \in Nat OBVIOUS
<1> QED BY <1>3, <1>4, <1>5, <1>6

\* A summand comes in addition.
LEMMA SumExtend ==
  ASSUME NEW S, IsFiniteSet(S), NEW x, x \notin S, NEW f \in [S -> Nat],
         NEW g \in [S \cup {x} -> Nat], \A y \in S : g[y] = f[y]
  PROVE  Sum(g) = Sum(f) + g[x]
<1> DEFINE row == {x} \X (1..g[x])
<1>1. g[x] \in Nat OBVIOUS
<1>2. IsFiniteSet(row) /\ Cardinality(row) = g[x] BY <1>1, RowCount
<1>3. IsFiniteSet(Heap(f)) /\ Cardinality(Heap(f)) \in Nat BY HeapFinite DEF Sum
<1>4. ASSUME NEW e PROVE e \in Heap(g) <=> e \in Heap(f) \/ e \in row
  <2>1. e \in Heap(f) <=> \E y \in S : e \in {y} \X (1..f[y]) BY InHeap
  <2>2. e \in Heap(g) <=> \E y \in S \cup {x} : e \in {y} \X (1..g[y]) BY InHeap
  <2> QED BY <2>1, <2>2
<1>5. ASSUME NEW e \in Heap(f), e \in row PROVE FALSE
  <2>1. PICK y \in S : e \in {y} \X (1..f[y]) BY InHeap
  <2>2. y = x BY <1>5, <2>1
  <2> QED BY <2>2
<1> HIDE DEF row
<1>6. Heap(g) = Heap(f) \cup row BY <1>4
<1>7. Heap(f) \cap row = {} BY <1>5
<1>8. Cardinality(Heap(f) \cap row) = 0 BY <1>7, FS_EmptySet
<1>9. Cardinality(Heap(g)) = Cardinality(Heap(f)) + g[x] - 0
  BY <1>2, <1>3, <1>6, <1>8, FS_Union
<1> QED BY <1>1, <1>3, <1>9 DEF Sum

LEMMA SumZero ==
  ASSUME NEW S, NEW f \in [S -> Nat], \A x \in S : f[x] = 0
  PROVE  Sum(f) = 0
<1>1. ASSUME NEW e \in Heap(f) PROVE FALSE
  <2>1. PICK x \in S : e \in {x} \X (1..f[x]) BY InHeap
  <2>2. 1..f[x] = {} OBVIOUS
  <2> QED BY <2>1, <2>2
<1>2. Heap(f) = {} BY <1>1
<1> QED BY <1>2, FS_EmptySet DEF Sum

LEMMA Quotient ==
  ASSUME NEW w \in Nat \ {0}, NEW i \in Nat
  PROVE  LET q == i \div w
         IN  q \in Nat /\ q * w <= i /\ i < q * w + w
OBVIOUS

LEMMA QuotientIs ==
  ASSUME NEW w \in Nat \ {0}, NEW d \in Nat, NEW r \in 0..(w - 1)
  PROVE  (d * w + r) \div w = d
<1> DEFINE i == d * w + r
           q == i \div w
<1>1. i \in Nat OBVIOUS
<1>2. q \in Nat /\ q * w <= i /\ i < q * w + w
  <2> HIDE DEF i
  <2> QED BY <1>1, Quotient
<1> HIDE DEF q
<1>3. q * w \in Nat /\ d * w \in Nat BY <1>2
<1>4. (q - d) * w = q * w - d * w /\ (d - q) * w = d * w - q * w BY <1>2
<1>5. q - d < 1
  <2> SUFFICES ASSUME q - d >= 1 PROVE FALSE BY <1>2
  <2>1. (q - d) * w >= w BY <1>2
  <2> QED BY <2>1, <1>2, <1>3, <1>4
<1>6. d - q < 1
  <2> SUFFICES ASSUME d - q >= 1 PROVE FALSE BY <1>2
  <2>1. (d - q) * w >= w BY <1>2
  <2> QED BY <2>1, <1>2, <1>3, <1>4
<1>7. q = d BY <1>2, <1>5, <1>6
<1> QED BY <1>7 DEF q

\* The windows of n units hold n units together.
LEMMA SumOfParts ==
  ASSUME NEW s \in Settings, NEW n \in Nat \ {0},
         NEW last, last = (n + s.window - 1) \div s.window,
         NEW f, f = [p \in 1..last |-> Part(s, n, p)]
  PROVE  f \in [1..last -> Nat] /\ Sum(f) = n
<1> DEFINE w == s.window
           at(j) == LET q == (j - 1) \div w IN <<q + 1, j - q * w>>
           b == [j \in 1..n |-> at(j)]
<1>1. w \in Nat /\ w > 0 BY SettingFacts
<1>2. last \in Nat /\ last > 0 /\ Before(s, last) < n /\ n <= Before(s, last) + w
  BY LastWindow
<1>3. f \in [1..last -> Nat]
  <2> SUFFICES ASSUME NEW p \in 1..last PROVE Part(s, n, p) \in Nat OBVIOUS
  <2>1. Part(s, n, p) \in 0..s.window BY <1>2, PartFacts
  <2> QED BY <2>1, <1>1
<1>4. ASSUME NEW j \in 1..n
      PROVE  /\ at(j)[1] \in 1..last /\ at(j)[2] \in 1..Part(s, n, at(j)[1])
             /\ j = Before(s, at(j)[1]) + at(j)[2]
  <2> DEFINE q == (j - 1) \div w
             r == j - 1 - q * w
  <2>1. q \in Nat /\ r \in 0..(w - 1) /\ j - 1 = q * w + r
    <3> DEFINE i == j - 1
    <3>1. i \in Nat /\ w \in Nat \ {0} BY <1>1
    <3>2. q \in Nat /\ q * w <= i /\ i < q * w + w
      <4> HIDE DEF w
      <4> QED BY <3>1, Quotient
    <3>3. q * w \in Nat BY <3>1, <3>2
    <3> DEFINE m == q * w
    <3> HIDE DEF q, m, w
    <3>4. m \in Nat /\ m <= i /\ i < m + w /\ r = i - m BY <3>2, <3>3 DEF m
    <3> HIDE DEF i, r
    <3>5. r \in 0..(w - 1) /\ i = m + r BY <3>1, <3>4
    <3> QED BY <3>2, <3>5 DEF m, i
  <2>2. Before(s, q + 1) = q * w
    <3>1. (q + 1) - 1 = q BY <2>1
    <3> QED BY <3>1 DEF Before
  <2>3. Part(s, n, q + 1) = IF n <= q * w THEN 0 ELSE Least(w, n - q * w)
    BY <2>2 DEF Part
  <2>4. q + 1 <= last
    <3> SUFFICES ASSUME last < q + 1 PROVE FALSE BY <1>2, <2>1
    <3>1. q + 1 \in Nat BY <2>1
    <3>2. Before(s, last) + w <= Before(s, q + 1)
      <4> HIDE DEF q
      <4> QED BY <3>1, <1>2, WindowFacts
    <3> DEFINE e == Before(s, last)
               m == q * w
    <3>3. e + w <= m /\ n <= e + w /\ e \in Int /\ m \in Int /\ j = m + r + 1
      BY <3>2, <2>1, <2>2, <1>2, <1>1, BeforeType
    <3> HIDE DEF e, m, q, r
    <3> QED BY <3>3, <2>1, <1>1
  <2> DEFINE m == q * w
  <2>5. m \in Int /\ j = m + r + 1
    <3> HIDE DEF q, r, w
    <3> QED BY <2>1, <1>1
  <2> HIDE DEF q, r, m
  <2>6. r + 1 \in 1..Part(s, n, q + 1)
    <3>1. Part(s, n, q + 1) = IF n <= m THEN 0 ELSE Least(w, n - m) BY <2>3 DEF m
    <3> QED BY <3>1, <2>1, <2>5, <1>1 DEF Least
  <2>7. at(j)[1] = q + 1 /\ at(j)[2] = r + 1
    <3>1. at(j)[1] = q + 1 /\ at(j)[2] = j - m BY DEF q, m
    <3> QED BY <3>1, <2>1, <2>5
  <2>8. j = Before(s, q + 1) + (r + 1) BY <2>1, <2>2, <2>5 DEF m
  <2> HIDE DEF at
  <2> QED BY <2>1, <2>4, <2>6, <2>7, <2>8, <1>2
<1>5. ASSUME NEW p \in 1..last, NEW i \in 1..Part(s, n, p)
      PROVE  \E j \in 1..n : <<p, i>> = at(j)
  <2> DEFINE m == (p - 1) * w
             j == m + i
  <2>1. p - 1 \in Nat BY <1>2
  <2>2. m \in Nat BY <1>1, <2>1
  <2>3. Part(s, n, p) = IF n <= m THEN 0 ELSE Least(w, n - m) BY DEF Part, Before
  <2>4. i \in 1..w /\ j \in 1..n
    <3> HIDE DEF m
    <3> QED BY <2>2, <2>3, <1>1 DEF Least
  <2>5. (j - 1) \div w = p - 1
    <3> DEFINE d == p - 1
               r == i - 1
    <3>1. j - 1 = d * w + r /\ d \in Nat /\ r \in 0..(w - 1) BY <1>1, <2>1, <2>2, <2>4
    <3> HIDE DEF j, d, r
    <3>2. (d * w + r) \div w = d
      <4>1. w \in Nat \ {0} BY <1>1
      <4> HIDE DEF w
      <4> QED BY <3>1, <4>1, QuotientIs
    <3> QED BY <3>1, <3>2 DEF d, r
  <2>6. at(j) = <<p, i>>
    <3>1. (p - 1) + 1 = p /\ j - m = i
      <4> HIDE DEF m
      <4> QED BY <2>2, <2>4, <1>2
    <3> HIDE DEF j
    <3> QED BY <2>5, <3>1
  <2> QED BY <2>4, <2>6
<1>6. b \in Bijection(1..n, Heap(f))
  <2>1. ASSUME NEW j \in 1..n PROVE at(j) \in Heap(f)
    <3>1. at(j)[1] \in 1..last /\ at(j)[2] \in 1..f[at(j)[1]] BY <1>4
    <3>2. at(j) = <<at(j)[1], at(j)[2]>> OBVIOUS
    <3> HIDE DEF at
    <3>3. at(j) \in {at(j)[1]} \X (1..f[at(j)[1]]) BY <3>1, <3>2
    <3> QED BY <3>1, <3>3, <1>3, InHeap
  <2>2. ASSUME NEW j \in 1..n, NEW k \in 1..n, at(j) = at(k) PROVE j = k
    <3> HIDE DEF at
    <3> QED BY <1>4, <2>2
  <2>3. ASSUME NEW e \in Heap(f) PROVE \E j \in 1..n : e = at(j)
    <3>1. PICK p \in 1..last : e \in {p} \X (1..f[p]) BY <1>3, InHeap
    <3>2. PICK i \in 1..f[p] : e = <<p, i>> BY <3>1
    <3>3. i \in 1..Part(s, n, p) BY <3>2
    <3> QED BY <3>2, <3>3, <1>5
  <2> HIDE DEF at
  <2> QED BY <2>1, <2>2, <2>3 DEF Bijection, Injection, Surjection, IsInjective
<1>7. ExistsBijection(1..n, Heap(f)) BY <1>6 DEF ExistsBijection
<1>8. IsFiniteSet(1..n) /\ Cardinality(1..n) = n BY FS_Interval
<1>9. Cardinality(Heap(f)) = n BY <1>7, <1>8, FS_Bijection
<1> QED BY <1>3, <1>9 DEF Sum

-------------------------------------------------------------------------------
\* What waits.

LEMMA AwakeFacts ==
  /\ Throttle!Awake \in Sleep
  /\ Throttle!Awake.bytes = 0 /\ Throttle!Awake.slept = 0 /\ Throttle!Awake.owed = 0
BY DEF Throttle!Awake, Sleep

LEMMA BytesType ==
  ASSUME NEW z \in [Tasks -> Sleep], NEW S
  PROVE  /\ [t \in Tasks |-> IF t \in S THEN z[t].bytes ELSE 0] \in [Tasks -> Nat]
         /\ Bytes(z, S) \in Nat
<1> DEFINE f == [t \in Tasks |-> IF t \in S THEN z[t].bytes ELSE 0]
<1>1. f \in [Tasks -> Nat]
  <2>1. \A t \in Tasks : z[t].bytes \in Nat BY DEF Sleep
  <2> QED BY <2>1
<1> HIDE DEF f
<1>2. Sum(f) \in Nat BY <1>1, HeapFinite, FetcherAssumption
<1> QED BY <1>1, <1>2 DEF Bytes, f

LEMMA BytesMonotone ==
  ASSUME NEW z \in [Tasks -> Sleep], NEW S, NEW T, S \subseteq T
  PROVE  Bytes(z, S) <= Bytes(z, T)
<1> DEFINE f == [t \in Tasks |-> IF t \in S THEN z[t].bytes ELSE 0]
           g == [t \in Tasks |-> IF t \in T THEN z[t].bytes ELSE 0]
<1>1. f \in [Tasks -> Nat] /\ g \in [Tasks -> Nat] BY BytesType
<1>2. \A t \in Tasks : f[t] <= g[t]
  <2>1. \A t \in Tasks : z[t].bytes \in Nat BY DEF Sleep
  <2> QED BY <2>1
<1> HIDE DEF f, g
<1>3. Sum(f) <= Sum(g) BY <1>1, <1>2, SumMonotone, FetcherAssumption
<1> QED BY <1>3 DEF Bytes, f, g

SameBut(y, z, t) == \A u \in Tasks \ {t} : y[u] = z[u]

\* One task that waits on top of others.
LEMMA BytesOfOne ==
  ASSUME NEW z \in [Tasks -> Sleep], NEW y \in [Tasks -> Sleep], NEW t \in Tasks,
         SameBut(y, z, t), NEW R, t \notin R
  PROVE  /\ Bytes(y, R \cup {t}) = Bytes(z, R) + y[t].bytes
         /\ Bytes(y, R) = Bytes(z, R)
<1> DEFINE f == [u \in Tasks |-> IF u \in R THEN z[u].bytes ELSE 0]
           g == [u \in Tasks |-> IF u \in R \cup {t} THEN y[u].bytes ELSE 0]
           h == [u \in Tasks |-> IF u \in R THEN y[u].bytes ELSE 0]
<1>1. f \in [Tasks -> Nat] /\ g \in [Tasks -> Nat] BY BytesType
<1>2. f[t] = 0 /\ g[t] = y[t].bytes /\ \A u \in Tasks \ {t} : g[u] = f[u]
  BY DEF SameBut
<1>3. h = f BY DEF SameBut
<1>4. Bytes(y, R \cup {t}) = Sum(g) /\ Bytes(z, R) = Sum(f)
      /\ Bytes(y, R) = Sum(h)
  BY DEF Bytes
<1> HIDE DEF f, g, h
<1>5. Sum(g) = Sum(f) - f[t] + g[t] BY <1>1, <1>2, SumChange, FetcherAssumption
<1>6. Sum(f) \in Nat /\ y[t].bytes \in Nat
  BY <1>1, HeapFinite, FetcherAssumption DEF Sleep
<1> QED BY <1>2, <1>3, <1>4, <1>5, <1>6

LEMMA BytesOfAll ==
  ASSUME NEW z \in [Tasks -> Sleep], NEW y \in [Tasks -> Sleep], NEW t \in Tasks,
         SameBut(y, z, t)
  PROVE  Bytes(y, Tasks) = Bytes(z, Tasks) - z[t].bytes + y[t].bytes
<1> DEFINE f == [u \in Tasks |-> IF u \in Tasks THEN z[u].bytes ELSE 0]
           g == [u \in Tasks |-> IF u \in Tasks THEN y[u].bytes ELSE 0]
<1>1. f \in [Tasks -> Nat] /\ g \in [Tasks -> Nat] BY BytesType
<1>2. f[t] = z[t].bytes /\ g[t] = y[t].bytes /\ \A u \in Tasks \ {t} : g[u] = f[u]
  BY DEF SameBut
<1>3. Bytes(y, Tasks) = Sum(g) /\ Bytes(z, Tasks) = Sum(f) BY DEF Bytes
<1> HIDE DEF f, g
<1>4. Sum(g) = Sum(f) - f[t] + g[t] BY <1>1, <1>2, SumChange, FetcherAssumption
<1> QED BY <1>2, <1>3, <1>4

LEMMA BytesOfNone ==
  ASSUME NEW z \in [Tasks -> Sleep], \A t \in Tasks : z[t] = Throttle!Awake, NEW S
  PROVE  Bytes(z, S) = 0
<1> DEFINE f == [t \in Tasks |-> IF t \in S THEN z[t].bytes ELSE 0]
<1>1. f \in [Tasks -> Nat] BY BytesType
<1>2. \A t \in Tasks : f[t] = 0 BY AwakeFacts
<1> HIDE DEF f
<1>3. Sum(f) = 0 BY <1>1, <1>2, SumZero
<1> QED BY <1>3 DEF Bytes, f

LEMMA WaitingIs == Throttle!Waiting = Bytes(sleep, Tasks)
<1> DEFINE f == [t \in Tasks |-> sleep[t].bytes]
           g == [t \in Tasks |-> IF t \in Tasks THEN sleep[t].bytes ELSE 0]
<1>1. f = g OBVIOUS
<1> HIDE DEF f, g
<1>2. Throttle!Heap(f) = Heap(f) BY DEF Throttle!Heap, Heap
<1>3. Throttle!Sum(f) = Sum(f)
  BY <1>2 DEF Throttle!Sum, Sum, Throttle!Cardinality, Cardinality
<1>4. Throttle!Waiting = Throttle!Sum(f) BY DEF Throttle!Waiting, f
<1>5. Bytes(sleep, Tasks) = Sum(g) BY DEF Bytes, g
<1> QED BY <1>1, <1>3, <1>4, <1>5

LEMMA LeftFacts ==
  ASSUME NEW k \in Sleep, NEW r \in Nat
  PROVE  /\ Left(k, r) \in Nat
         /\ k.slept * k.pace >= k.owed => Left(k, r) = 0
         /\ k.pace = r /\ k.slept = 0 => Left(k, r) >= k.owed
<1>1. k.slept \in Nat /\ k.pace \in Nat /\ k.owed \in Nat BY DEF Sleep
<1> DEFINE m == k.slept * k.pace
<1>2. m \in Nat /\ (k.slept = 0 => m = 0) BY <1>1
<1>3. Left(k, r) = IF k.pace <= r /\ m < k.owed THEN k.owed - m ELSE 0 BY DEF Left
<1> HIDE DEF m
<1>4. Left(k, r) \in Nat /\ (m >= k.owed => Left(k, r) = 0) BY <1>1, <1>2, <1>3
<1>5. k.pace = r /\ k.slept = 0 => Left(k, r) >= k.owed BY <1>1, <1>2, <1>3
<1> QED BY <1>4, <1>5 DEF m

-------------------------------------------------------------------------------
\* Who covers a debt.

LEMMA NoDebtIsCovered ==
  ASSUME NEW z \in [Tasks -> Sleep], NEW debt \in Int, debt <= 0, NEW r \in Nat
  PROVE  Covered(z, debt, r)
<1> DEFINE after == [t \in Tasks |-> {}]
<1>1. after \in [Tasks -> SUBSET Tasks] OBVIOUS
<1>2. Covers(after, z, debt, r)
  <2> SUFFICES ASSUME NEW t \in Tasks
               PROVE  /\ \A u \in after[t] : after[u] \subseteq after[t] \ {u}
                      /\ z[t] # Throttle!Awake =>
                           debt <= Bytes(z, after[t]) + Left(z[t], r)
    BY DEF Covers
  <2>1. Bytes(z, after[t]) \in Nat /\ Left(z[t], r) \in Nat BY BytesType, LeftFacts
  <2> QED BY <2>1
<1> QED BY <1>1, <1>2 DEF Covered

\* A task falls asleep for its tokens: it comes after all the others.
LEMMA SleepIsCovered ==
  ASSUME NEW z \in [Tasks -> Sleep], NEW debt \in Int, NEW r \in Nat, Covered(z, debt, r),
         NEW t \in Tasks, z[t] = Throttle!Awake,
         NEW k \in Sleep, k.owed = debt + k.bytes, k.pace = r, k.slept = 0,
         NEW y \in [Tasks -> Sleep], y[t] = k, SameBut(y, z, t)
  PROVE  Covered(y, debt + k.bytes, r)
<1>1. PICK after \in [Tasks -> SUBSET Tasks] : Covers(after, z, debt, r) BY DEF Covered
<1> DEFINE now == [x \in Tasks |-> IF x = t THEN {} ELSE after[x] \cup {t}]
<1>2. now \in [Tasks -> SUBSET Tasks] OBVIOUS
<1>3. y[t] = k /\ \A u \in Tasks \ {t} : y[u] = z[u] BY DEF SameBut
<1>4. k.bytes \in Nat /\ k.owed \in Nat BY DEF Sleep
<1>5. ASSUME NEW x \in Tasks, NEW u \in now[x] PROVE now[u] \subseteq now[x] \ {u}
  <2>1. x # t /\ u \in Tasks BY <1>5
  <2>2. CASE u = t BY <2>2
  <2>3. CASE u # t
    <3>1. u \in after[x] BY <2>1, <2>3, <1>5
    <3>2. after[u] \subseteq after[x] \ {u} BY <3>1, <1>1 DEF Covers
    <3> QED BY <2>1, <2>3, <3>2
  <2> QED BY <2>2, <2>3
<1>6. ASSUME NEW x \in Tasks, y[x] # Throttle!Awake
      PROVE  debt + k.bytes <= Bytes(y, now[x]) + Left(y[x], r)
  <2>1. CASE x = t
    <3>1. Left(y[x], r) >= debt + k.bytes /\ Left(y[x], r) \in Nat
      BY <2>1, <1>3, LeftFacts
    <3>2. Bytes(y, now[x]) \in Nat BY <1>3, BytesType
    <3> QED BY <3>1, <3>2, <1>4
  <2>2. CASE x # t
    <3> DEFINE S == after[x]
               R == S \ {t}
    <3>1. now[x] = R \cup {t} /\ y[x] = z[x] /\ t \notin R BY <2>2, <1>3
    <3>2. debt <= Bytes(z, S) + Left(z[x], r) BY <3>1, <1>1, <1>6 DEF Covers
    <3>3. S \subseteq R \cup {t} OBVIOUS
    <3> HIDE DEF S, now, R
    <3>4. Bytes(y, R \cup {t}) = Bytes(z, R) + y[t].bytes BY <3>1, BytesOfOne
    <3>5. Bytes(z, R \cup {t}) = Bytes(z, R) + z[t].bytes
      <4>1. SameBut(z, z, t) BY DEF SameBut
      <4> QED BY <3>1, <4>1, BytesOfOne
    <3>6. z[t].bytes = 0 /\ y[t].bytes = k.bytes BY <1>3, AwakeFacts
    <3>7. Bytes(z, S) <= Bytes(z, R \cup {t}) BY <3>3, BytesMonotone
    <3>8. /\ Bytes(z, S) \in Nat /\ Bytes(z, R) \in Nat /\ Bytes(z, R \cup {t}) \in Nat
          /\ Left(z[x], r) \in Nat
      BY BytesType, LeftFacts
    <3> QED BY <3>1, <3>2, <3>4, <3>5, <3>6, <3>7, <3>8, <1>4
  <2> QED BY <2>1, <2>2
<1> HIDE DEF now
<1>7. Covers(now, y, debt + k.bytes, r) BY <1>5, <1>6 DEF Covers
<1> QED BY <1>2, <1>7 DEF Covered

\* A task wakes: the rest of the debt is that of those who came after it.
LEMMA WakeIsCovered ==
  ASSUME NEW z \in [Tasks -> Sleep], NEW debt \in Int, NEW r \in Nat, Covered(z, debt, r),
         NEW t \in Tasks, z[t] # Throttle!Awake, Left(z[t], r) = 0,
         NEW y \in [Tasks -> Sleep], y[t] = Throttle!Awake, SameBut(y, z, t)
  PROVE  Covered(y, debt, r) /\ debt <= Bytes(y, Tasks)
<1>1. PICK after \in [Tasks -> SUBSET Tasks] : Covers(after, z, debt, r) BY DEF Covered
<1> DEFINE now == [x \in Tasks |-> after[x] \ {t}]
<1>2. now \in [Tasks -> SUBSET Tasks] OBVIOUS
<1>3. y[t] = Throttle!Awake /\ \A u \in Tasks \ {t} : y[u] = z[u] BY DEF SameBut
<1>4. t \notin after[t] BY <1>1 DEF Covers
<1>5. debt <= Bytes(z, after[t])
  <2>1. debt <= Bytes(z, after[t]) + Left(z[t], r) BY <1>1 DEF Covers
  <2>2. Bytes(z, after[t]) \in Nat BY BytesType
  <2> QED BY <2>1, <2>2
<1>6. ASSUME NEW S, t \notin S PROVE Bytes(y, S) = Bytes(z, S)
  <2>1. /\ Bytes(y, S \cup {t}) = Bytes(z, S) + y[t].bytes
        /\ Bytes(y, S) = Bytes(z, S)
    BY <1>6, BytesOfOne
  <2> QED BY <2>1
<1>7. ASSUME NEW x \in Tasks, NEW u \in now[x] PROVE now[u] \subseteq now[x] \ {u}
  <2>1. u \in after[x] BY <1>7
  <2>2. u \in Tasks BY <2>1
  <2>3. after[u] \subseteq after[x] \ {u} BY <2>1, <1>1 DEF Covers
  <2> QED BY <2>2, <2>3
<1>8. ASSUME NEW x \in Tasks, y[x] # Throttle!Awake
      PROVE  debt <= Bytes(y, now[x]) + Left(y[x], r)
  <2>1. x # t /\ y[x] = z[x] BY <1>3, <1>8
  <2>2. Bytes(y, now[x]) = Bytes(z, now[x]) BY <1>6
  <2>3. Bytes(z, now[x]) \in Nat /\ Left(y[x], r) \in Nat BY <1>3, BytesType, LeftFacts
  <2>4. CASE t \in after[x]
    <3>1. after[t] \subseteq now[x] BY <2>4, <1>1, <1>4 DEF Covers
    <3>2. Bytes(z, after[t]) <= Bytes(z, now[x])
      <4> HIDE DEF now
      <4> QED BY <3>1, BytesMonotone
    <3>3. Bytes(z, after[t]) \in Nat BY BytesType
    <3> HIDE DEF now
    <3> QED BY <2>2, <2>3, <3>2, <3>3, <1>5
  <2>5. CASE t \notin after[x]
    <3>1. now[x] = after[x] BY <2>5
    <3>2. debt <= Bytes(z, after[x]) + Left(z[x], r) BY <2>1, <1>1, <1>8 DEF Covers
    <3> HIDE DEF now
    <3> QED BY <2>1, <2>2, <3>1, <3>2
  <2> QED BY <2>4, <2>5
<1> HIDE DEF now
<1>9. Covered(y, debt, r) BY <1>2, <1>7, <1>8 DEF Covered, Covers
<1>10. debt <= Bytes(y, Tasks)
  <2>1. Bytes(y, after[t]) = Bytes(z, after[t]) BY <1>4, <1>6
  <2>2. after[t] \subseteq Tasks OBVIOUS
  <2>3. Bytes(y, after[t]) <= Bytes(y, Tasks) BY <2>2, <1>3, BytesMonotone
  <2>4. Bytes(y, after[t]) \in Nat /\ Bytes(y, Tasks) \in Nat BY <1>3, BytesType
  <2> QED BY <2>1, <2>3, <2>4, <1>5
<1> QED BY <1>9, <1>10

\* Time goes by for all of them, and the limiter works off what its rate allows.
LEMMA TimeIsCovered ==
  ASSUME NEW z \in [Tasks -> Sleep], NEW debt \in Int, NEW r \in Nat, Covered(z, debt, r),
         NEW y \in [Tasks -> Sleep],
         \A t \in Tasks :
           \/ y[t] = z[t]
           \/ z[t] # Throttle!Awake /\ y[t] = [z[t] EXCEPT !.slept = @ + 1],
         NEW rest \in Int, rest <= 0 \/ rest <= debt - r
  PROVE  Covered(y, rest, r)
<1>1. CASE rest <= 0 BY <1>1, NoDebtIsCovered
<1>2. CASE rest <= debt - r
  <2>1. PICK after \in [Tasks -> SUBSET Tasks] : Covers(after, z, debt, r) BY DEF Covered
  <2>2. ASSUME NEW t \in Tasks
        PROVE  /\ y[t].bytes = z[t].bytes
               /\ Left(z[t], r) <= Left(y[t], r) + r
    <3>1. /\ z[t].bytes \in Nat /\ z[t].owed \in Nat /\ z[t].pace \in Nat /\ z[t].slept \in Nat
          /\ Left(z[t], r) \in Nat
      BY LeftFacts DEF Sleep
    <3>2. CASE y[t] = z[t] BY <3>1, <3>2
    <3>3. CASE y[t] = [z[t] EXCEPT !.slept = @ + 1]
      <4> DEFINE k == z[t]
                 j == y[t]
                 m == k.slept * k.pace
                 n == (k.slept + 1) * k.pace
      <4>1. /\ j.bytes = k.bytes /\ j.owed = k.owed /\ j.pace = k.pace
            /\ j.slept = k.slept + 1
        BY <3>3 DEF Sleep
      <4>2. m \in Nat /\ n = m + k.pace
        <5> DEFINE a == k.slept
                   b == k.pace
        <5>1. a \in Nat /\ b \in Nat BY <3>1
        <5> HIDE DEF a, b
        <5>2. a * b \in Nat /\ (a + 1) * b = a * b + b BY <5>1
        <5> QED BY <5>2 DEF a, b
      <4>3. /\ Left(k, r) = IF k.pace <= r /\ m < k.owed THEN k.owed - m ELSE 0
            /\ Left(j, r) = IF k.pace <= r /\ n < k.owed THEN k.owed - n ELSE 0
        BY <4>1 DEF Left
      <4> HIDE DEF m, n, k, j
      <4>4. k.pace \in Nat /\ k.owed \in Nat BY <3>1 DEF k
      <4>5. Left(k, r) <= Left(j, r) + r BY <4>2, <4>3, <4>4
      <4> QED BY <4>1, <4>5 DEF k, j
    <3> QED BY <3>2, <3>3
  <2>3. ASSUME NEW S PROVE Bytes(y, S) = Bytes(z, S)
    <3>1. [t \in Tasks |-> IF t \in S THEN y[t].bytes ELSE 0]
            = [t \in Tasks |-> IF t \in S THEN z[t].bytes ELSE 0]
      BY <2>2
    <3> QED BY <3>1 DEF Bytes
  <2>4. ASSUME NEW t \in Tasks, y[t] # Throttle!Awake
        PROVE  rest <= Bytes(y, after[t]) + Left(y[t], r)
    <3>1. z[t] # Throttle!Awake BY <2>4
    <3>2. debt <= Bytes(z, after[t]) + Left(z[t], r) BY <3>1, <2>1 DEF Covers
    <3>3. Bytes(y, after[t]) = Bytes(z, after[t]) BY <2>3
    <3>4. Left(z[t], r) <= Left(y[t], r) + r BY <2>2
    <3>5. /\ Bytes(z, after[t]) \in Nat /\ Left(z[t], r) \in Nat /\ Left(y[t], r) \in Nat
      BY BytesType, LeftFacts
    <3> QED BY <3>2, <3>3, <3>4, <3>5, <1>2
  <2>5. Covers(after, y, rest, r) BY <2>1, <2>4 DEF Covers
  <2> QED BY <2>5 DEF Covered
<1> QED BY <1>1, <1>2

\* A higher rate covers what the lower one did.
LEMMA RateIsCovered ==
  ASSUME NEW z \in [Tasks -> Sleep], NEW debt \in Int, NEW r \in Nat, Covered(z, debt, r),
         NEW q \in Nat, r <= q
  PROVE  Covered(z, debt, q)
<1>1. PICK after \in [Tasks -> SUBSET Tasks] : Covers(after, z, debt, r) BY DEF Covered
<1>2. ASSUME NEW t \in Tasks PROVE Left(z[t], r) <= Left(z[t], q)
  <2> DEFINE k == z[t]
             m == k.slept * k.pace
  <2>1. k.pace \in Nat /\ k.owed \in Nat /\ m \in Nat BY DEF Sleep
  <2>2. /\ Left(k, r) = IF k.pace <= r /\ m < k.owed THEN k.owed - m ELSE 0
        /\ Left(k, q) = IF k.pace <= q /\ m < k.owed THEN k.owed - m ELSE 0
    BY DEF Left
  <2> HIDE DEF m, k
  <2>3. Left(k, r) <= Left(k, q) BY <2>1, <2>2
  <2> QED BY <2>3 DEF k
<1>3. ASSUME NEW t \in Tasks, z[t] # Throttle!Awake
      PROVE  debt <= Bytes(z, after[t]) + Left(z[t], q)
  <2>1. debt <= Bytes(z, after[t]) + Left(z[t], r) BY <1>1, <1>3 DEF Covers
  <2>2. Bytes(z, after[t]) \in Nat /\ Left(z[t], r) \in Nat /\ Left(z[t], q) \in Nat
    BY BytesType, LeftFacts
  <2> QED BY <2>1, <2>2, <1>2
<1>4. Covers(after, z, debt, q) BY <1>1, <1>3 DEF Covers
<1> QED BY <1>4 DEF Covered

-------------------------------------------------------------------------------
\* The steps of the limiter.

LEMMA BucketFacts ==
  ASSUME FileInv, LimiterInv
  PROVE  /\ rate \in Nat /\ tokens \in Int /\ since \in Nat /\ credit \in Int
         /\ sleep \in [Tasks -> Sleep] /\ lowered \in BOOLEAN
         /\ Burst \in Nat /\ Throttle!Capacity(rate) \in Nat
         /\ Throttle!Accrued \in Int
         /\ rate # 0 => Throttle!Accrued <= Throttle!Capacity(rate)
         /\ Bytes(sleep, Tasks) \in Nat
<1>1. setting \in Settings BY DEF FileInv, Typed
<1>2. setting.rate \in Nat /\ setting.rates \subseteq Nat BY <1>1, SettingFacts
<1>3. /\ rate \in Nat /\ tokens \in Int /\ since \in Nat /\ credit \in Int
      /\ sleep \in [Tasks -> Sleep] /\ lowered \in BOOLEAN
  BY <1>2 DEF LimiterInv, LimiterTyped
<1>4. Burst \in Nat BY FetcherAssumption
<1>5. Throttle!Capacity(rate) \in Nat BY <1>3, <1>4 DEF Throttle!Capacity
<1>6. since * rate \in Nat BY <1>3
<1>7. Throttle!Accrued \in Int /\ (rate # 0 => Throttle!Accrued <= Throttle!Capacity(rate))
  <2> DEFINE m == since * rate
             cap == Throttle!Capacity(rate)
  <2>1. Throttle!Accrued = IF rate = 0 THEN tokens
                           ELSE IF cap < tokens + m THEN cap ELSE tokens + m
    BY DEF Throttle!Accrued, Throttle!Least
  <2> HIDE DEF m, cap
  <2>2. m \in Int /\ cap \in Int BY <1>5, <1>6 DEF m, cap
  <2>3. Throttle!Accrued \in Int /\ (rate # 0 => Throttle!Accrued <= cap)
    BY <2>1, <2>2, <1>3
  <2> QED BY <2>3 DEF cap
<1>8. Bytes(sleep, Tasks) \in Nat BY <1>3, BytesType
<1> QED BY <1>3, <1>4, <1>5, <1>7, <1>8

\* Just after tokens are taken or given nothing has accrued.
LEMMA FreshLevel ==
  ASSUME since' = 0, rate' \in Nat, tokens' \in Int, Throttle!Capacity(rate)' \in Int,
         rate' # 0 => tokens' <= Throttle!Capacity(rate)'
  PROVE  Throttle!Accrued' = tokens'
<1>1. ASSUME NEW r \in Nat, NEW n \in Int, NEW cap \in Int, r # 0 => n <= cap
      PROVE  (IF r = 0 THEN n ELSE IF cap < n + 0 * r THEN cap ELSE n + 0 * r) = n
  <2>1. 0 * r = 0 OBVIOUS
  <2> QED BY <2>1, <1>1
<1>2. Throttle!Accrued' = IF rate' = 0 THEN tokens'
                          ELSE IF Throttle!Capacity(rate)' < tokens' + 0 * rate'
                               THEN Throttle!Capacity(rate)' ELSE tokens' + 0 * rate'
  BY DEF Throttle!Accrued, Throttle!Least
<1> QED BY <1>1, <1>2

LEMMA ConsumeKeeps ==
  ASSUME FileInv, LimiterInv, NEW t \in Tasks, ~Throttle!Asleep(t), NEW n \in Nat \ {0},
         Throttle!Consume(t, n), UNCHANGED setting,
         \A u \in Tasks \ {t} : task'[u].at = task[u].at,
         Throttle!Asleep(t)' => task'[t].at = "throttled"
  PROVE  LimiterInv'
<1> DEFINE level == Throttle!Accrued
           cap == Throttle!Capacity(rate)
           all == Bytes(sleep, Tasks)
<1>1. /\ rate \in Nat /\ tokens \in Int /\ since \in Nat /\ credit \in Int
      /\ sleep \in [Tasks -> Sleep] /\ lowered \in BOOLEAN
      /\ cap \in Nat /\ level \in Int /\ (rate # 0 => level <= cap) /\ all \in Nat
  BY BucketFacts
<1>2. rate' = rate /\ lowered' = lowered BY DEF Throttle!Consume
<1>3. rate \in setting.rates \cup {setting.rate} BY DEF LimiterInv, LimiterTyped
<1>4. cap = Throttle!Capacity(rate)' BY <1>2 DEF Throttle!Capacity
<1>5. \A u \in Tasks : Throttle!Asleep(u) => task[u].at = "throttled"
  BY DEF LimiterInv, SleepersRight
<1>6. CASE rate = 0
  <2>1. UNCHANGED <<tokens, since, sleep, credit>> BY <1>6 DEF Throttle!Consume
  <2>2. LimiterTyped' BY <2>1, <1>1, <1>2, <1>3, <1>6 DEF LimiterTyped
  <2>3. SleepersRight' BY <2>1, <1>5 DEF SleepersRight, Throttle!Asleep, Throttle!Awake
  <2>4. ~Limits' BY <1>2, <1>6 DEF Limits
  <2> QED BY <2>2, <2>3, <2>4 DEF LimiterInv, CreditRight, DebtCovered
<1>7. CASE rate # 0
  <2>1. tokens' = level - n /\ since' = 0 BY <1>7 DEF Throttle!Consume, Throttle!Takes
  <2>2. tokens' \in Int /\ tokens' <= cap /\ tokens' <= level
    <3> HIDE DEF level, cap
    <3> QED BY <2>1, <1>1, <1>7
  <2>3. Throttle!Accrued' = level - n
    <3>1. Throttle!Accrued' = tokens' BY <2>1, <2>2, <1>1, <1>2, <1>4, FreshLevel
    <3> QED BY <3>1, <2>1
  <2>4. ASSUME Limits'
        PROVE  /\ credit >= level + all /\ -level <= all
               /\ Covered(sleep, -level, rate)
    <3>1. Limits BY <2>4, <1>2 DEF Limits
    <3> QED BY <3>1 DEF LimiterInv, CreditRight, DebtCovered
  <2>5. CASE level - n < 0
    <3> DEFINE k == [bytes |-> n, owed |-> -(level - n), pace |-> rate, slept |-> 0]
    <3>1. sleep' = [sleep EXCEPT ![t] = k] /\ credit' = credit
      BY <2>5, <1>7 DEF Throttle!Consume, Throttle!Takes
    <3>2. k \in Sleep
      <4>1. -(level - n) \in Nat
        <5> HIDE DEF level
        <5> QED BY <2>5, <1>1
      <4> QED BY <4>1, <1>1 DEF Sleep
    <3>3. sleep' \in [Tasks -> Sleep] /\ sleep'[t] = k /\ SameBut(sleep', sleep, t)
      BY <3>1, <3>2, <1>1 DEF SameBut
    <3>4. k.bytes = n /\ k.owed = -(level - n) /\ k.pace = rate /\ k.slept = 0 OBVIOUS
    <3>5. k # Throttle!Awake BY <3>4, AwakeFacts
    <3>6. LimiterTyped' BY <3>1, <3>3, <2>1, <2>2, <1>1, <1>2, <1>3, <1>4 DEF LimiterTyped
    <3>7. SleepersRight'
      BY <3>3, <3>5, <1>5 DEF SleepersRight, Throttle!Asleep, Throttle!Awake, SameBut
    <3>8. sleep[t] = Throttle!Awake BY DEF Throttle!Asleep
    <3>9. Bytes(sleep', Tasks) = all + n
      <4> HIDE DEF k
      <4>1. Bytes(sleep', Tasks) = Bytes(sleep, Tasks) - sleep[t].bytes + sleep'[t].bytes
        BY <3>3, <1>1, BytesOfAll
      <4>2. sleep[t].bytes = 0 /\ sleep'[t].bytes = n BY <3>3, <3>4, <3>8, AwakeFacts
      <4> QED BY <4>1, <4>2, <1>1
    <3>10. CreditRight'
      <4> SUFFICES ASSUME Limits'
                   PROVE  /\ credit' >= Throttle!Accrued' + Bytes(sleep', Tasks)
                          /\ -Throttle!Accrued' <= Bytes(sleep', Tasks)
        BY DEF CreditRight
      <4>1. credit >= level + all /\ -level <= all BY <2>4
      <4> HIDE DEF level, all
      <4> QED BY <4>1, <3>1, <3>9, <2>3, <1>1
    <3>11. DebtCovered'
      <4> SUFFICES ASSUME Limits' PROVE Covered(sleep', -Throttle!Accrued', rate')
        BY DEF DebtCovered
      <4> DEFINE debt == -level
      <4>1. Covered(sleep, debt, rate) BY <2>4
      <4>2. debt \in Int /\ k.owed = debt + k.bytes /\ -Throttle!Accrued' = debt + k.bytes
        <5> HIDE DEF level, k
        <5> QED BY <3>4, <2>3, <1>1
      <4> HIDE DEF debt, k
      <4>3. Covered(sleep', debt + k.bytes, rate)
        BY <4>1, <4>2, <3>2, <3>3, <3>4, <3>8, <1>1, SleepIsCovered
      <4> QED BY <4>2, <4>3, <1>2
    <3> QED BY <3>6, <3>7, <3>10, <3>11 DEF LimiterInv
  <2>6. CASE ~(level - n < 0)
    <3>1. sleep' = sleep /\ credit' = credit - n
      BY <2>6, <1>7 DEF Throttle!Consume, Throttle!Takes
    <3>2. credit' \in Int BY <3>1, <1>1
    <3>3. LimiterTyped' BY <3>1, <3>2, <2>1, <2>2, <1>1, <1>2, <1>3, <1>4 DEF LimiterTyped
    <3>4. SleepersRight' BY <3>1, <1>5 DEF SleepersRight, Throttle!Asleep, Throttle!Awake
    <3>5. CreditRight'
      <4> SUFFICES ASSUME Limits'
                   PROVE  /\ credit' >= Throttle!Accrued' + Bytes(sleep', Tasks)
                          /\ -Throttle!Accrued' <= Bytes(sleep', Tasks)
        BY DEF CreditRight
      <4>1. credit >= level + all BY <2>4
      <4>2. Bytes(sleep', Tasks) = all BY <3>1
      <4> HIDE DEF level, all
      <4> QED BY <4>1, <4>2, <3>1, <2>3, <2>6, <1>1
    <3>6. DebtCovered'
      <4> DEFINE debt == -Throttle!Accrued'
      <4>1. debt \in Int /\ debt <= 0
        <5> HIDE DEF level
        <5> QED BY <2>3, <2>6, <1>1
      <4> HIDE DEF debt
      <4>2. Covered(sleep', debt, rate') BY <4>1, <3>1, <1>1, <1>2, NoDebtIsCovered
      <4> QED BY <4>2 DEF DebtCovered, debt
    <3> QED BY <3>3, <3>4, <3>5, <3>6 DEF LimiterInv
  <2> QED BY <2>5, <2>6
<1> QED BY <1>6, <1>7

LEMMA WakeKeeps ==
  ASSUME FileInv, LimiterInv, NEW t \in Tasks, Throttle!Wake(t), UNCHANGED setting,
         \A u \in Tasks \ {t} : task'[u].at = task[u].at
  PROVE  LimiterInv'
<1> DEFINE level == Throttle!Accrued
           all == Bytes(sleep, Tasks)
           k == sleep[t]
<1>1. /\ rate \in Nat /\ tokens \in Int /\ since \in Nat /\ credit \in Int
      /\ sleep \in [Tasks -> Sleep] /\ lowered \in BOOLEAN
      /\ level \in Int /\ all \in Nat
  BY BucketFacts
<1>2. /\ UNCHANGED <<rate, tokens, since, lowered>>
      /\ sleep' = [sleep EXCEPT ![t] = Throttle!Awake]
      /\ credit' = IF rate = 0 THEN credit ELSE credit - k.bytes
      /\ k # Throttle!Awake /\ k.slept * k.pace >= k.owed
  BY DEF Throttle!Wake, Throttle!Asleep, Throttle!Due
<1>3. k \in Sleep /\ k.bytes \in Nat BY <1>1 DEF Sleep
<1>4. Left(k, rate) = 0
  <2> HIDE DEF k
  <2> QED BY <1>1, <1>2, <1>3, LeftFacts
<1>5. /\ sleep' \in [Tasks -> Sleep] /\ sleep'[t] = Throttle!Awake
      /\ SameBut(sleep', sleep, t)
  BY <1>1, <1>2, AwakeFacts DEF SameBut
<1>6. credit' \in Int BY <1>1, <1>2, <1>3
<1>7. UNCHANGED <<rate, tokens, since, lowered, setting>> BY <1>2
<1>8. credit' = IF rate = 0 THEN credit ELSE credit - k.bytes BY <1>2
<1>9. LimiterTyped'
  <2>1. LimiterTyped BY DEF LimiterInv
  <2> QED BY <2>1, <1>5, <1>6, <1>7 DEF LimiterTyped, Throttle!Capacity
<1>10. SleepersRight'
  BY <1>5 DEF LimiterInv, SleepersRight, Throttle!Asleep, Throttle!Awake, SameBut
<1>11. Throttle!Accrued' = level
  BY <1>7 DEF Throttle!Accrued, Throttle!Capacity, Throttle!Least
<1>12. ASSUME Limits'
       PROVE  /\ credit >= level + all /\ -level <= all /\ rate # 0
              /\ Covered(sleep, -level, rate)
  <2>1. Limits BY <1>12, <1>7 DEF Limits
  <2> QED BY <2>1 DEF LimiterInv, CreditRight, DebtCovered, Limits
<1>13. ASSUME Limits' PROVE Covered(sleep', -level, rate) /\ -level <= Bytes(sleep', Tasks)
  <2> DEFINE debt == -level
  <2>1. debt \in Int
    <3> HIDE DEF level
    <3> QED BY <1>1
  <2>2. Covered(sleep, debt, rate) BY <1>12, <1>13
  <2>3. sleep[t] # Throttle!Awake /\ Left(sleep[t], rate) = 0 BY <1>2, <1>4
  <2> HIDE DEF debt
  <2>4. Covered(sleep', debt, rate) /\ debt <= Bytes(sleep', Tasks)
    BY <2>1, <2>2, <2>3, <1>1, <1>5, WakeIsCovered
  <2> QED BY <2>4 DEF debt
<1>14. all = Bytes(sleep', Tasks) + k.bytes /\ Bytes(sleep', Tasks) \in Nat
  <2> HIDE DEF k
  <2>1. Bytes(sleep', Tasks) = Bytes(sleep, Tasks) - sleep[t].bytes + sleep'[t].bytes
    BY <1>1, <1>5, BytesOfAll
  <2>2. sleep[t].bytes = k.bytes /\ sleep'[t].bytes = 0 BY <1>5, AwakeFacts DEF k
  <2>3. Bytes(sleep', Tasks) \in Nat BY <1>5, BytesType
  <2> QED BY <2>1, <2>2, <2>3, <1>1, <1>3
<1>15. CreditRight'
  <2> SUFFICES ASSUME Limits'
               PROVE  /\ credit' >= Throttle!Accrued' + Bytes(sleep', Tasks)
                      /\ -Throttle!Accrued' <= Bytes(sleep', Tasks)
    BY DEF CreditRight
  <2>1. credit >= level + all /\ rate # 0 /\ -level <= Bytes(sleep', Tasks) BY <1>12, <1>13
  <2> HIDE DEF level, all, k
  <2> QED BY <2>1, <1>1, <1>3, <1>8, <1>11, <1>14
<1>16. DebtCovered'
  <2> SUFFICES ASSUME Limits' PROVE Covered(sleep', -Throttle!Accrued', rate')
    BY DEF DebtCovered
  <2> QED BY <1>7, <1>11, <1>13
<1> QED BY <1>9, <1>10, <1>15, <1>16 DEF LimiterInv

LEMMA RateKeeps ==
  ASSUME FileInv, LimiterInv, NEW r \in setting.rates, Throttle!UpdateRate(r),
         UNCHANGED <<setting, task>>
  PROVE  LimiterInv'
<1> DEFINE level == Throttle!Accrued
           cap == Throttle!Capacity(rate)
           new == Throttle!Capacity(r)
           all == Bytes(sleep, Tasks)
<1>1. /\ rate \in Nat /\ tokens \in Int /\ since \in Nat /\ credit \in Int
      /\ sleep \in [Tasks -> Sleep] /\ lowered \in BOOLEAN
      /\ cap \in Nat /\ level \in Int /\ (rate # 0 => level <= cap) /\ all \in Nat
      /\ Burst \in Nat
  BY BucketFacts
<1>2. r \in Nat
  <2>1. setting \in Settings BY DEF FileInv, Typed
  <2> QED BY <2>1, SettingFacts
<1>3. new \in Nat /\ (rate <= r => cap <= new)
  <2>1. cap = rate * Burst /\ new = r * Burst BY DEF Throttle!Capacity
  <2>2. r * Burst \in Nat BY <1>1, <1>2
  <2>3. rate <= r => rate * Burst <= r * Burst
    <3>1. r * Burst = rate * Burst + (r - rate) * Burst BY <1>1, <1>2
    <3>2. rate <= r => (r - rate) * Burst >= 0 BY <1>1, <1>2
    <3>3. rate * Burst \in Int /\ (r - rate) * Burst \in Int BY <1>1, <1>2
    <3> QED BY <3>1, <3>2, <3>3
  <2> QED BY <2>1, <2>2, <2>3
<1>4. /\ rate' = r /\ since' = 0 /\ sleep' = sleep
      /\ tokens' = IF r = 0 THEN level ELSE IF rate = 0 THEN new
                   ELSE IF level < new THEN level ELSE new
      /\ credit' = IF r = 0 THEN 0 ELSE IF rate = 0 THEN new + all
                   ELSE IF credit < new + all THEN credit ELSE new + all
      /\ lowered' = (lowered \/ (0 < r /\ r < rate /\ Throttle!AnyAsleep))
  BY WaitingIs DEF Throttle!UpdateRate, Throttle!Least
<1>5. /\ tokens' \in Int /\ credit' \in Int /\ lowered' \in BOOLEAN
      /\ r # 0 => tokens' <= new
  <2>1. lowered' \in BOOLEAN BY <1>4
  <2> HIDE DEF level, cap, new, all
  <2> QED BY <2>1, <1>1, <1>3, <1>4
<1>6. Throttle!Capacity(rate)' = new BY <1>4 DEF Throttle!Capacity
<1>7. Throttle!Accrued' = tokens' BY <1>2, <1>3, <1>4, <1>5, <1>6, FreshLevel
<1>8. LimiterTyped' BY <1>1, <1>2, <1>4, <1>5, <1>6 DEF LimiterTyped
<1>9. SleepersRight'
  BY <1>4 DEF LimiterInv, SleepersRight, Throttle!Asleep, Throttle!Awake
<1>10. ASSUME Limits'
       PROVE  /\ credit' >= tokens' + all /\ -tokens' <= all
              /\ Covered(sleep, -tokens', r)
  <2>1. r # 0 /\ ~lowered' BY <1>4, <1>10 DEF Limits
  <2>2. CASE rate = 0
    <3>1. tokens' = new /\ credit' = new + all BY <1>4, <2>1, <2>2
    <3> DEFINE debt == -tokens'
    <3>2. debt \in Int /\ debt <= 0 /\ credit' >= tokens' + all /\ debt <= all
      <4> HIDE DEF new, all
      <4> QED BY <3>1, <1>1, <1>3
    <3> HIDE DEF debt
    <3>3. Covered(sleep, debt, r) BY <3>2, <1>1, <1>2, NoDebtIsCovered
    <3> QED BY <3>2, <3>3 DEF debt
  <2>3. CASE rate # 0
    <3>1. ~lowered /\ ~(0 < r /\ r < rate /\ Throttle!AnyAsleep) BY <2>1, <1>4
    <3>2. /\ credit >= level + all /\ -level <= all /\ Covered(sleep, -level, rate)
      BY <3>1, <2>3 DEF Limits, LimiterInv, CreditRight, DebtCovered
    <3>3. /\ tokens' = IF level < new THEN level ELSE new
          /\ credit' = IF credit < new + all THEN credit ELSE new + all
      BY <1>4, <2>1, <2>3
    <3>4. credit' >= tokens' + all /\ -tokens' <= all
      <4> HIDE DEF new, all, level, cap
      <4> QED BY <3>2, <3>3, <1>1, <1>3
    <3>5. CASE rate <= r
      <4> DEFINE debt == -level
      <4>1. tokens' = level /\ debt \in Int
        <5> HIDE DEF new, level, cap
        <5> QED BY <3>3, <3>5, <2>3, <1>1, <1>3
      <4>2. Covered(sleep, debt, rate) BY <3>2
      <4> HIDE DEF debt
      <4>3. Covered(sleep, debt, r) BY <4>1, <4>2, <3>5, <1>1, <1>2, RateIsCovered
      <4>4. -tokens' = debt BY <4>1 DEF debt
      <4> QED BY <3>4, <4>3, <4>4
    <3>6. CASE r < rate
      <4>1. 0 < r BY <2>1, <1>2
      <4>2. \A t \in Tasks : sleep[t] = Throttle!Awake
        BY <4>1, <3>1, <3>6 DEF Throttle!AnyAsleep, Throttle!Asleep
      <4>3. all = 0 BY <4>2, <1>1, BytesOfNone
      <4> DEFINE debt == -tokens'
      <4>4. debt \in Int /\ debt <= 0
        <5> DEFINE now == tokens'
        <5>1. now \in Int BY <1>5
        <5>2. -now <= all BY <3>4
        <5> HIDE DEF all, now
        <5>3. -now \in Int /\ -now <= 0 BY <4>3, <5>1, <5>2
        <5> QED BY <5>3 DEF now
      <4> HIDE DEF debt
      <4>5. Covered(sleep, debt, r) BY <4>4, <1>1, <1>2, NoDebtIsCovered
      <4> QED BY <3>4, <4>5 DEF debt
    <3> QED BY <3>5, <3>6, <1>1, <1>2
  <2> QED BY <2>2, <2>3
<1>11. CreditRight' BY <1>4, <1>7, <1>10 DEF CreditRight
<1>12. DebtCovered' BY <1>4, <1>7, <1>10 DEF DebtCovered
<1> QED BY <1>8, <1>9, <1>11, <1>12 DEF LimiterInv

LEMMA TickBucketKeeps ==
  ASSUME FileInv, LimiterInv, Throttle!TickBucket, UNCHANGED setting,
         \A u \in Tasks : task'[u].at = task[u].at
  PROVE  LimiterInv'
<1> DEFINE level == Throttle!Accrued
           cap == Throttle!Capacity(rate)
           all == Bytes(sleep, Tasks)
           m == since * rate
<1>1. /\ rate \in Nat /\ tokens \in Int /\ since \in Nat /\ credit \in Int
      /\ sleep \in [Tasks -> Sleep] /\ lowered \in BOOLEAN
      /\ cap \in Nat /\ level \in Int /\ (rate # 0 => level <= cap) /\ all \in Nat
  BY BucketFacts
<1>2. /\ UNCHANGED <<rate, tokens, lowered>>
      /\ since' = IF rate # 0 /\ tokens + m < cap THEN since + 1 ELSE since
      /\ sleep' = [c \in Tasks |-> IF Throttle!Due(c) THEN sleep[c]
                                   ELSE [sleep[c] EXCEPT !.slept = @ + 1]]
      /\ credit' = IF rate = 0 THEN 0
                   ELSE IF credit + rate < cap + all THEN credit + rate ELSE cap + all
  BY WaitingIs DEF Throttle!TickBucket, Throttle!Least
<1>3. since' \in Nat /\ credit' \in Int
  <2> HIDE DEF cap, all, m
  <2> QED BY <1>1, <1>2
<1>4. ASSUME NEW t \in Tasks
      PROVE  /\ sleep'[t] \in Sleep
             /\ \/ sleep'[t] = sleep[t]
                \/ /\ sleep[t] # Throttle!Awake
                   /\ sleep'[t] = [sleep[t] EXCEPT !.slept = @ + 1]
  <2>1. sleep[t] \in Sleep /\ sleep[t].slept \in Nat BY <1>1 DEF Sleep
  <2>2. CASE Throttle!Due(t)
    <3>1. sleep'[t] = sleep[t] BY <2>2, <1>2
    <3> QED BY <3>1, <2>1
  <2>3. CASE ~Throttle!Due(t)
    <3>1. sleep'[t] = [sleep[t] EXCEPT !.slept = @ + 1] BY <2>3, <1>2
    <3>2. sleep[t].slept + 1 \in Nat BY <2>1
    <3>3. sleep'[t] \in Sleep BY <3>1, <3>2, <2>1 DEF Sleep
    <3>4. sleep[t] # Throttle!Awake
      <4> SUFFICES ASSUME sleep[t] = Throttle!Awake PROVE Throttle!Due(t) BY <2>3
      <4>1. /\ sleep[t].slept = 0 /\ sleep[t].pace = 0 /\ sleep[t].owed = 0
        BY DEF Throttle!Awake
      <4> QED BY <4>1 DEF Throttle!Due
    <3> QED BY <3>1, <3>3, <3>4
  <2> QED BY <2>2, <2>3
<1>5. sleep' \in [Tasks -> Sleep]
  <2>1. sleep' = [t \in Tasks |-> sleep'[t]] BY <1>2
  <2> QED BY <2>1, <1>4
<1>6. \A t \in Tasks : sleep'[t].bytes = sleep[t].bytes
  <2> SUFFICES ASSUME NEW t \in Tasks PROVE sleep'[t].bytes = sleep[t].bytes OBVIOUS
  <2>1. sleep[t] \in Sleep BY <1>1
  <2> QED BY <2>1, <1>4 DEF Sleep
<1>7. Bytes(sleep', Tasks) = all BY <1>6 DEF Bytes
<1>8. UNCHANGED <<rate, tokens, lowered, setting>> BY <1>2
<1>9. Throttle!Capacity(rate)' = cap BY <1>8 DEF Throttle!Capacity
<1>10. LimiterTyped'
  <2>1. LimiterTyped BY DEF LimiterInv
  <2> QED BY <2>1, <1>3, <1>5, <1>8, <1>9 DEF LimiterTyped
<1>11. SleepersRight'
  <2> SUFFICES ASSUME NEW t \in Tasks, sleep'[t] # Throttle!Awake
               PROVE  task'[t].at = "throttled"
    BY DEF SleepersRight, Throttle!Asleep, Throttle!Awake
  <2>1. sleep[t] # Throttle!Awake BY <1>4
  <2> QED BY <2>1 DEF LimiterInv, SleepersRight, Throttle!Asleep
<1>12. ASSUME rate # 0
       PROVE  /\ Throttle!Accrued' \in Int
              /\ level <= Throttle!Accrued' /\ Throttle!Accrued' <= level + rate
              /\ Throttle!Accrued' <= cap
              /\ Throttle!Accrued' >= 0 \/ Throttle!Accrued' = level + rate
  <2>1. level = IF cap < tokens + m THEN cap ELSE tokens + m
    BY <1>12 DEF Throttle!Accrued, Throttle!Least
  <2>2. Throttle!Accrued' = IF cap < tokens + since' * rate THEN cap
                            ELSE tokens + since' * rate
    BY <1>8, <1>12 DEF Throttle!Accrued, Throttle!Least, Throttle!Capacity
  <2>3. m \in Nat /\ (since + 1) * rate = m + rate BY <1>1
  <2> DEFINE n == since' * rate
  <2>4. n = IF tokens + m < cap THEN m + rate ELSE m
    <3> HIDE DEF cap
    <3> QED BY <2>3, <1>2, <1>12
  <2> HIDE DEF n, cap, m
  <2>5. level <= tokens + m /\ n \in Int BY <2>1, <2>3, <2>4, <1>1
  <2> DEFINE new == Throttle!Accrued'
  <2>6. new = IF cap < tokens + n THEN cap ELSE tokens + n BY <2>2 DEF n
  <2> HIDE DEF level, new
  <2>8. new \in Int /\ level <= new /\ new <= level + rate /\ new <= cap
    BY <2>1, <2>3, <2>4, <2>6, <1>1
  <2>9. new >= 0 \/ new = level + rate
    BY <2>1, <2>3, <2>4, <2>6, <1>1
  <2> QED BY <2>8, <2>9 DEF new
<1>13. ASSUME Limits'
       PROVE  /\ rate # 0 /\ credit >= level + all /\ -level <= all
              /\ Covered(sleep, -level, rate)
  <2>1. Limits /\ rate # 0 BY <1>13, <1>8 DEF Limits
  <2> QED BY <2>1 DEF LimiterInv, CreditRight, DebtCovered
<1>14. CreditRight'
  <2> SUFFICES ASSUME Limits'
               PROVE  /\ credit' >= Throttle!Accrued' + Bytes(sleep', Tasks)
                      /\ -Throttle!Accrued' <= Bytes(sleep', Tasks)
    BY DEF CreditRight
  <2> DEFINE now == Throttle!Accrued'
  <2>1. /\ now \in Int /\ level <= now /\ now <= level + rate /\ now <= cap
    BY <1>12, <1>13
  <2>2. credit >= level + all /\ -level <= all BY <1>13
  <2>3. credit' = IF credit + rate < cap + all THEN credit + rate ELSE cap + all
    BY <1>2, <1>13
  <2> HIDE DEF level, cap, all, now
  <2>4. credit' >= now + all /\ -now <= all BY <2>1, <2>2, <2>3, <1>1
  <2> QED BY <2>4, <1>7 DEF now
<1>15. DebtCovered'
  <2> SUFFICES ASSUME Limits' PROVE Covered(sleep', -Throttle!Accrued', rate')
    BY DEF DebtCovered
  <2> DEFINE debt == -level
             rest == -Throttle!Accrued'
  <2>1. /\ debt \in Int /\ rest \in Int /\ (rest <= 0 \/ rest <= debt - rate)
    <3> DEFINE now == Throttle!Accrued'
    <3>1. now \in Int /\ (now >= 0 \/ now = level + rate) BY <1>12, <1>13
    <3> HIDE DEF level, now
    <3>2. -level \in Int /\ -now \in Int /\ (-now <= 0 \/ -now <= -level - rate)
      BY <3>1, <1>1
    <3> QED BY <3>2 DEF now
  <2>2. Covered(sleep, debt, rate) BY <1>13
  <2> HIDE DEF debt, rest
  <2>3. Covered(sleep', rest, rate) BY <2>1, <2>2, <1>1, <1>4, <1>5, TimeIsCovered
  <2> QED BY <2>3, <1>8 DEF rest
<1> QED BY <1>10, <1>11, <1>14, <1>15 DEF LimiterInv
\* Who is at the limiter stays there, and the bucket is left alone.
LEMMA BucketStays ==
  ASSUME LimiterInv, UNCHANGED <<setting, bucket>>,
         \A u \in Tasks : task[u].at = "throttled" => task'[u].at = "throttled"
  PROVE  LimiterInv'
<1>1. UNCHANGED <<setting, rate, tokens, since, sleep, credit, lowered>> BY DEF bucket
<1>2. UNCHANGED Throttle!Accrued /\ Throttle!Capacity(rate)' = Throttle!Capacity(rate)
  BY <1>1 DEF Throttle!Accrued, Throttle!Capacity, Throttle!Least
<1>3. LimiterTyped' BY <1>1, <1>2 DEF LimiterInv, LimiterTyped
<1>4. SleepersRight'
  BY <1>1 DEF LimiterInv, SleepersRight, Throttle!Asleep, Throttle!Awake
<1>5. CreditRight' /\ DebtCovered'
  BY <1>1, <1>2 DEF LimiterInv, CreditRight, DebtCovered, Limits
<1> QED BY <1>3, <1>4, <1>5 DEF LimiterInv

LEMMA LimiterInit == Init => LimiterInv
<1> SUFFICES ASSUME Init PROVE LimiterInv OBVIOUS
<1> DEFINE cap == Throttle!Capacity(rate)
<1>1. /\ setting \in Settings /\ rate = setting.rate
      /\ tokens = cap /\ since = 0 /\ credit = cap /\ lowered = FALSE
      /\ sleep = [t \in Tasks |-> Throttle!Awake]
  BY DEF Init, Throttle!InitBucket
<1>2. rate \in Nat /\ Burst \in Nat BY <1>1, SettingFacts, FetcherAssumption
<1>3. cap \in Nat BY <1>2 DEF Throttle!Capacity
<1>4. sleep \in [Tasks -> Sleep] /\ \A t \in Tasks : sleep[t] = Throttle!Awake
  BY <1>1, AwakeFacts
<1>5. LimiterTyped
  <2>1. tokens \in Int /\ credit \in Int /\ tokens <= cap /\ since \in Nat
    <3> HIDE DEF cap
    <3>1. cap \in Int /\ cap <= cap BY <1>3
    <3> QED BY <1>1, <3>1
  <2>2. rate \in setting.rates \cup {setting.rate} /\ lowered \in BOOLEAN BY <1>1
  <2> QED BY <1>4, <2>1, <2>2 DEF LimiterTyped
<1>6. SleepersRight BY <1>4 DEF SleepersRight, Throttle!Asleep
<1>7. Throttle!Accrued = cap
  <2>1. 0 * rate = 0 BY <1>2
  <2>2. Throttle!Accrued = IF rate = 0 THEN cap
                           ELSE IF cap < cap + 0 * rate THEN cap ELSE cap + 0 * rate
    BY <1>1 DEF Throttle!Accrued, Throttle!Least
  <2> HIDE DEF cap
  <2> QED BY <2>1, <2>2, <1>3
<1>8. Bytes(sleep, Tasks) = 0 BY <1>4, BytesOfNone
<1> DEFINE debt == -Throttle!Accrued
<1>9. debt \in Int /\ debt <= 0
  <2> HIDE DEF cap
  <2>1. -cap \in Int /\ -cap <= 0 BY <1>3
  <2> QED BY <2>1, <1>7
<1>10. CreditRight
  <2>1. debt <= 0 BY <1>9
  <2>2. credit >= Throttle!Accrued + Bytes(sleep, Tasks)
    <3> HIDE DEF cap
    <3> QED BY <1>1, <1>3, <1>7, <1>8
  <2> QED BY <2>1, <2>2, <1>8 DEF CreditRight
<1>11. DebtCovered
  <2> HIDE DEF debt
  <2>1. Covered(sleep, debt, rate) BY <1>2, <1>4, <1>9, NoDebtIsCovered
  <2> QED BY <2>1 DEF DebtCovered, debt
<1> QED BY <1>5, <1>6, <1>10, <1>11 DEF LimiterInv

\* A step of a task that is not at the limiter.
LEMMA ElsewhereKeeps ==
  ASSUME FileInv, LimiterInv, UNCHANGED <<setting, bucket>>, NEW t \in Tasks,
         task[t].at # "throttled", NEW k, task' = [task EXCEPT ![t] = k]
  PROVE  LimiterInv'
<1>1. task \in [Tasks -> Fetch] BY DEF FileInv, Typed
<1>2. \A u \in Tasks : u # t => task'[u] = task[u] BY <1>1
<1> QED BY <1>2, BucketStays

LEMMA ArrivesLimited == ASSUME FileInv, LimiterInv, NEW t \in Tasks, Arrives(t) PROVE LimiterInv'
<1>1. /\ task \in [Tasks -> Fetch] /\ task[t] \in Fetch /\ task[t].at = "body"
      /\ setting \in Settings
  BY DEF FileInv, Typed, Arrives
<1>2. ~Throttle!Asleep(t) BY <1>1 DEF LimiterInv, SleepersRight
<1>3. PICK n \in 1..Least(MaxPiece, task[t].upto - task[t].from + 1) :
        LET k == [task[t] EXCEPT !.from = @ + n,
                                 !.piece = [i \in 1..n |-> task[t].from + i - 1]]
        IN  /\ Throttle!Consume(t, n)
            /\ IF Throttle!Asleep(t)'
               THEN /\ task' = [task EXCEPT ![t] = [k EXCEPT !.at = "throttled"]]
                    /\ UNCHANGED progress
               ELSE /\ task' = [task EXCEPT ![t] = [k EXCEPT !.at = "copy", !.piece = Clamped(k)]]
                    /\ progress' = progress + Len(Clamped(k))
  BY DEF Arrives
<1>4. n \in Nat \ {0}
  <2>1. MaxPiece \in Int /\ task[t].upto \in Int /\ task[t].from \in Int
    BY <1>1, FetcherAssumption DEF Fetch
  <2>2. Least(MaxPiece, task[t].upto - task[t].from + 1) \in Int BY <2>1 DEF Least
  <2> QED BY <2>2
<1> DEFINE k == [task[t] EXCEPT !.from = @ + n,
                                !.piece = [i \in 1..n |-> task[t].from + i - 1]]
           held == [k EXCEPT !.at = "throttled"]
           clamped == [k EXCEPT !.at = "copy", !.piece = Clamped(k)]
<1>5. /\ Throttle!Consume(t, n)
      /\ IF Throttle!Asleep(t)' THEN task' = [task EXCEPT ![t] = held]
                                ELSE task' = [task EXCEPT ![t] = clamped]
  BY <1>3
<1>6. held.at = "throttled" BY <1>1 DEF Fetch
<1> HIDE DEF held, clamped
<1>7. \A u \in Tasks \ {t} : task'[u].at = task[u].at BY <1>1, <1>5
<1>8. Throttle!Asleep(t)' => task'[t].at = "throttled" BY <1>1, <1>5, <1>6
<1>9. UNCHANGED setting BY DEF Arrives
<1> QED BY <1>2, <1>4, <1>5, <1>7, <1>8, <1>9, ConsumeKeeps

LEMMA PassesLimited == ASSUME FileInv, LimiterInv, NEW t \in Tasks, Passes(t) PROVE LimiterInv'
<1>1. task \in [Tasks -> Fetch] BY DEF FileInv, Typed
<1> DEFINE k == [task[t] EXCEPT !.at = "copy", !.piece = Clamped(task[t])]
<1>2. task' = [task EXCEPT ![t] = k] /\ Throttle!Wake(t) /\ UNCHANGED setting BY DEF Passes
<1> HIDE DEF k
<1>3. \A u \in Tasks \ {t} : task'[u].at = task[u].at BY <1>1, <1>2
<1> QED BY <1>2, <1>3, WakeKeeps

LEMMA LimiterStep == FileInv /\ LimiterInv /\ [Next]_vars => LimiterInv'
<1> SUFFICES ASSUME FileInv, LimiterInv, [Next]_vars PROVE LimiterInv' OBVIOUS
<1>0. task \in [Tasks -> Fetch] BY DEF FileInv, Typed
<1>1. ASSUME NEW t \in Tasks, TaskStep(t) PROVE LimiterInv'
  <2>1. CASE Begin(t)
    <3>1. PICK c \in Pending :
            task' = [task EXCEPT ![t] =
                       [Idle EXCEPT !.at = "open", !.chunk = c,
                          !.expected = IF size[t] > 0 THEN Expected(c, size[t]) ELSE 0]]
      BY <2>1 DEF Begin
    <3>2. task[t].at # "throttled" /\ UNCHANGED <<setting, bucket>> BY <2>1 DEF Begin
    <3> QED BY <3>1, <3>2, ElsewhereKeeps
  <2>2. CASE Respond(t)
    <3>1. task[t].at # "throttled" /\ UNCHANGED <<setting, bucket>> BY <2>2 DEF Respond
    <3>2. \E k : task' = [task EXCEPT ![t] = k] BY <2>2, <1>0 DEF Respond, Fetch
    <3> QED BY <3>1, <3>2, ElsewhereKeeps
  <2>3. CASE Breaks(t) \/ Stops(t) \/ LeavesSlow(t) \/ IsIncomplete(t)
    <3>1. /\ task[t].at # "throttled" /\ UNCHANGED <<setting, bucket>>
          /\ task' = [task EXCEPT ![t] = Idle]
      BY <2>3 DEF Breaks, Stops, LeavesSlow, IsIncomplete, GivesUp
    <3> QED BY <3>1, ElsewhereKeeps
  <2>4. CASE Arrives(t) BY <2>4, ArrivesLimited
  <2>5. CASE Passes(t) BY <2>5, PassesLimited
  <2>6. CASE Copies(t)
    <3>1. /\ task[t].at # "throttled" /\ UNCHANGED <<setting, bucket>>
          /\ \A u \in Tasks : u # t => task'[u] = task[u]
      BY <2>6, <1>0 DEF Copies
    <3> QED BY <3>1, BucketStays
  <2>7. CASE Flushes(t) \/ FlushesRest(t)
    <3>1. /\ task[t].at # "throttled" /\ UNCHANGED <<setting, bucket>>
          /\ \A u \in Tasks : u # t => task'[u] = task[u]
      BY <2>7, <1>0 DEF Flushes, FlushesRest, Writes
    <3> QED BY <3>1, BucketStays
  <2>8. CASE \/ KeepsUp(t) \/ IsTooSlow(t) \/ EndsPiece(t) \/ BodyEnds(t) \/ IsComplete(t)
             \/ Truncates(t)
    <3>1. /\ task[t].at # "throttled" /\ UNCHANGED <<setting, bucket>>
          /\ \A u \in Tasks : u # t => task'[u] = task[u]
      BY <2>8, <1>0 DEF KeepsUp, IsTooSlow, EndsPiece, BodyEnds, IsComplete, Truncates
    <3> QED BY <3>1, BucketStays
  <2>9. CASE Marks(t)
    <3>1. /\ task[t].at # "throttled" /\ UNCHANGED <<setting, bucket>>
          /\ task' = [task EXCEPT ![t] = Idle]
      BY <2>9 DEF Marks
    <3> QED BY <3>1, ElsewhereKeeps
  <2> QED
    BY <1>1, <2>1, <2>2, <2>3, <2>4, <2>5, <2>6, <2>7, <2>8, <2>9 DEF TaskStep
<1>2. CASE Tick
  <2>1. Throttle!TickBucket /\ UNCHANGED setting BY <1>2 DEF Tick
  <2>2. ASSUME NEW u \in Tasks PROVE task'[u].at = task[u].at
    <3>1. task'[u] = IF setting.minimum > 0 /\ Counts(task[u]) /\ task[u].net < LongEnough
                     THEN [task[u] EXCEPT !.net = @ + 1] ELSE task[u]
      BY <1>2 DEF Tick
    <3>2. task[u] \in Fetch BY <1>0
    <3> QED BY <3>1, <3>2 DEF Fetch
  <2> QED BY <2>1, <2>2, TickBucketKeeps
<1>3. CASE \E r \in setting.rates : SetSpeedLimit(r)
  <2>1. PICK r \in setting.rates : SetSpeedLimit(r) BY <1>3
  <2>2. Throttle!UpdateRate(r) /\ UNCHANGED <<setting, task>> BY <2>1 DEF SetSpeedLimit
  <2> QED BY <2>2, RateKeeps
<1>4. CASE SetStop \/ Finished \/ UNCHANGED vars
  <2>1. UNCHANGED <<setting, task, bucket>> BY <1>4 DEF SetStop, Finished, vars
  <2> QED BY <2>1, BucketStays
<1> QED BY <1>1, <1>2, <1>3, <1>4 DEF Next

LEMMA LimiterIsRight == Spec => []LimiterInv
<1>1. FileInv /\ LimiterInv /\ [Next]_vars => LimiterInv' BY LimiterStep
<1> QED BY <1>1, FileIsRight, LimiterInit, PTL DEF Spec

LEMMA CreditIsLeft == FileInv /\ LimiterInv => NothingForFree
<1> SUFFICES ASSUME FileInv, LimiterInv, rate # 0, ~lowered PROVE credit >= 0
  BY DEF NothingForFree, Throttle!NothingForFree
<1> DEFINE level == Throttle!Accrued
           all == Bytes(sleep, Tasks)
<1>1. level \in Int /\ all \in Nat /\ credit \in Int BY BucketFacts
<1>2. credit >= level + all /\ -level <= all BY DEF LimiterInv, CreditRight, Limits
<1> HIDE DEF level, all
<1> QED BY <1>1, <1>2

\* Whatever tasks take from the limiter, sleep for it, wake, or are cut off by a stop, and
\* however often set_speed_limit changes the rate, in no stretch of time passes more than
\* the burst and the rate allow, unless the rate is lowered while somebody sleeps.
THEOREM LimiterGivesNothing == Spec => []NothingForFree
BY FileIsRight, LimiterIsRight, CreditIsLeft, PTL

-------------------------------------------------------------------------------
\* What the progress reporter is told.

LEMMA MarkedFinite ==
  ASSUME NEW S, S \subseteq [chunk : Chunks, parts : Parts, by : Tasks]
  PROVE  IsFiniteSet(S)
<1> DEFINE T == (Chunks \X Parts) \X Tasks
           f == [m \in S |-> <<<<m.chunk, m.parts>>, m.by>>]
<1>1. IsFiniteSet(Chunks) /\ IsFiniteSet(Parts) /\ IsFiniteSet(Tasks)
  <2>1. MaxChunks - 1 \in Int /\ NumParts \in Int BY FetcherAssumption
  <2>2. IsFiniteSet(0..(MaxChunks - 1)) /\ IsFiniteSet(1..NumParts) BY <2>1, FS_Interval
  <2> QED BY <2>2, FetcherAssumption DEF Chunks, Parts
<1>2. IsFiniteSet(T) BY <1>1, FS_Product
<1>3. f \in [S -> T] OBVIOUS
<1>4. ASSUME NEW a \in S, NEW b \in S, f[a] = f[b] PROVE a = b
  <2>1. a.chunk = b.chunk /\ a.parts = b.parts /\ a.by = b.by BY <1>4
  <2>2. /\ a \in [chunk : Chunks, parts : Parts, by : Tasks]
        /\ b \in [chunk : Chunks, parts : Parts, by : Tasks]
    OBVIOUS
  <2>3. /\ a = [chunk |-> a.chunk, parts |-> a.parts, by |-> a.by]
        /\ b = [chunk |-> b.chunk, parts |-> b.parts, by |-> b.by]
    BY <2>2
  <2> QED BY <2>1, <2>3
<1>5. f \in Injection(S, T)
  <2>1. DOMAIN f = S OBVIOUS
  <2> HIDE DEF f, T
  <2> QED BY <1>3, <1>4, <2>1 DEF Injection, IsInjective
<1> HIDE DEF f, T
<1> QED BY <1>2, <1>5, FS_Injection

LEMMA WayIs == ASSUME NEW t PROVE OnItsWay(t) = Way(task[t])
BY DEF OnItsWay, Way

LEMMA WayType == ASSUME NEW k \in Fetch PROVE Reported(k) \in Nat /\ Way(k) \in Nat
<1>1. k.written \in Nat /\ Len(k.buffer) \in Nat /\ Len(k.piece) \in Nat BY DEF Fetch
<1>2. Reported(k) \in Nat BY <1>1 DEF Reported
<1>3. \A a, b \in Nat : a + (IF k.at = "throttled" THEN 0 ELSE b) \in Nat OBVIOUS
<1> QED BY <1>1, <1>2, <1>3 DEF Way

LEMMA HeldType ==
  ASSUME NEW row \in [Parts -> Cell], NEW last \in Parts
  PROVE  [p \in 1..last |-> Len(row[p].units)] \in [1..last -> Nat] /\ Held(row, last) \in Nat
<1> DEFINE f == [p \in 1..last |-> Len(row[p].units)]
<1>1. f \in [1..last -> Nat]
  <2> SUFFICES ASSUME NEW p \in 1..last PROVE Len(row[p].units) \in Nat OBVIOUS
  <2>1. p \in Parts BY FetcherAssumption DEF Parts
  <2>2. row[p] \in Cell BY <2>1
  <2> QED BY <2>2 DEF Cell
<1> HIDE DEF f
<1>2. IsFiniteSet(1..last)
  <2>1. last \in Int BY FetcherAssumption DEF Parts
  <2> QED BY <2>1, FS_Interval
<1>3. Sum(f) \in Nat BY <1>1, <1>2, HeapFinite
<1> QED BY <1>1, <1>3 DEF Held, f
\* Both sums are sums of natural numbers.
LEMMA SumsAreCounted == FileInv => Counted
<1> SUFFICES ASSUME FileInv PROVE Counted OBVIOUS
<1>1. /\ task \in [Tasks -> Fetch] /\ disk \in [Chunks -> [Parts -> Cell]]
      /\ marked \subseteq [chunk : Chunks, parts : Parts, by : Tasks]
  BY DEF FileInv, Typed
<1>2. IsFiniteSet(marked) BY <1>1, MarkedFinite
<1>3. ASSUME NEW t \in Tasks PROVE OnItsWay(t) \in Nat /\ OnItsWay(t) = Way(task[t])
  <2>1. task[t] \in Fetch BY <1>1
  <2> QED BY <2>1, WayType DEF OnItsWay, Way
<1>4. ASSUME NEW m \in marked
      PROVE  Delivered(m) = Held(disk[m.chunk], m.parts) /\ Delivered(m) \in Nat
  <2>1. m.chunk \in Chunks /\ m.parts \in Parts BY <1>1
  <2>2. disk[m.chunk] \in [Parts -> Cell] BY <1>1, <2>1
  <2>3. Delivered(m) = Held(disk[m.chunk], m.parts) BY DEF Delivered, Held
  <2> QED BY <2>1, <2>2, <2>3, HeldType
<1>5. OnTheWay \in [Tasks -> Nat] /\ \A t \in Tasks : OnTheWay[t] = Way(task[t])
  BY <1>3 DEF OnTheWay
<1>6. InTheFile \in [marked -> Nat]
      /\ \A m \in marked : InTheFile[m] = Held(disk[m.chunk], m.parts)
  BY <1>4 DEF InTheFile
<1> QED BY <1>2, <1>5, <1>6 DEF Counted

LEMMA AddsUpIs ==
  ProgressAddsUp <=> /\ progress >= Sum(InTheFile) + Sum(OnTheWay)
                     /\ drifted \/ progress = Sum(InTheFile) + Sum(OnTheWay)
BY DEF ProgressAddsUp, InTheFile, OnTheWay

\* The arithmetic of a step: given is what the reporter is told, a fetch has a before and b
\* after it.
LEMMA TellsWhatComes ==
  ASSUME NEW done \in Nat, NEW old \in Nat, NEW a \in Nat, NEW b \in Nat, NEW new,
         NEW told \in Int, NEW given \in Int, NEW d \in BOOLEAN, NEW e \in BOOLEAN,
         told >= done + old, d \/ told = done + old, d => e,
         new = old - a + b, b <= a + given, e \/ b = a + given
  PROVE  told + given >= done + new /\ (e \/ told + given = done + new)
OBVIOUS

\* One fetch goes on, and the chunks that are reported stay as they are: the reporter is
\* told of what comes in addition, or of too little that is taken back.
LEMMA ReportMoves ==
  ASSUME Counted, Counted', ReportsInv, NEW t \in Tasks, NEW given \in Int,
         \A u \in Tasks \ {t} : task'[u] = task[u],
         marked' = marked,
         \A m \in marked : disk'[m.chunk] = disk[m.chunk],
         progress' = progress + given,
         drifted' \in BOOLEAN, drifted => drifted',
         Way(task'[t]) <= Way(task[t]) + given,
         drifted' \/ Way(task'[t]) = Way(task[t]) + given
  PROVE  ReportsInv'
<1>1. /\ OnTheWay \in [Tasks -> Nat] /\ OnTheWay' \in [Tasks -> Nat]
      /\ OnTheWay[t] = Way(task[t]) /\ OnTheWay'[t] = Way(task'[t])
      /\ \A u \in Tasks \ {t} : OnTheWay'[u] = OnTheWay[u]
  BY DEF Counted
<1>2. /\ InTheFile \in [marked -> Nat] /\ InTheFile' \in [marked -> Nat]
      /\ IsFiniteSet(marked) /\ \A m \in marked : InTheFile'[m] = InTheFile[m]
  BY DEF Counted
<1>3. InTheFile' = InTheFile BY <1>2
<1>4. IsFiniteSet(Tasks) BY FetcherAssumption
<1> DEFINE old == Sum(OnTheWay)
           new == Sum(OnTheWay')
           done == Sum(InTheFile)
           a == Way(task[t])
           b == Way(task'[t])
<1>5. a \in Nat /\ b \in Nat /\ old \in Nat /\ done \in Nat BY <1>1, <1>2, <1>4, HeapFinite
<1>6. new = old - a + b BY <1>1, <1>4, SumChange
<1>7. /\ progress \in Int /\ drifted \in BOOLEAN
      /\ progress >= done + old /\ (drifted \/ progress = done + old)
  BY AddsUpIs DEF ReportsInv
<1>8. b <= a + given /\ (drifted' \/ b = a + given) OBVIOUS
<1> HIDE DEF old, new, done, a, b
<1>9. progress + given >= done + new /\ (drifted' \/ progress + given = done + new)
  BY <1>5, <1>6, <1>7, <1>8, TellsWhatComes
<1>10. progress' \in Int /\ progress' >= done + new /\ (drifted' \/ progress' = done + new)
  BY <1>7, <1>9
<1>11. Sum(InTheFile)' = done /\ Sum(OnTheWay)' = new BY <1>3 DEF done, new
<1>12. ProgressAddsUp' BY <1>10, <1>11 DEF ProgressAddsUp, InTheFile, OnTheWay
<1> QED BY <1>10, <1>12 DEF ReportsInv

\* Nothing changes that counts.
LEMMA ReportStays ==
  ASSUME Counted, Counted', ReportsInv, UNCHANGED <<marked, disk, progress, drifted>>,
         \A u \in Tasks : Way(task'[u]) = Way(task[u])
  PROVE  ReportsInv'
<1>1. OnTheWay' = OnTheWay
  <2>1. /\ OnTheWay \in [Tasks -> Nat] /\ OnTheWay' \in [Tasks -> Nat]
        /\ \A u \in Tasks : OnTheWay'[u] = OnTheWay[u]
    BY DEF Counted
  <2> QED BY <2>1
<1>2. InTheFile' = InTheFile BY DEF InTheFile, Delivered
<1>3. Sum(InTheFile)' = Sum(InTheFile) /\ Sum(OnTheWay)' = Sum(OnTheWay) BY <1>1, <1>2
<1> QED BY <1>3 DEF ReportsInv, ProgressAddsUp, InTheFile, OnTheWay

LEMMA ReportsInit == Init => ReportsInv
<1> SUFFICES ASSUME Init PROVE ReportsInv OBVIOUS
<1>1. /\ task = [t \in Tasks |-> Idle] /\ marked = {} /\ progress = 0 /\ drifted = FALSE
  BY DEF Init
<1>2. Counted BY FileInit, SumsAreCounted
<1>3. \A t \in Tasks : OnTheWay[t] = 0
  <2>1. Way(Idle) = 0 BY DEF Way, Idle, Reported
  <2> QED BY <1>1, <1>2, <2>1 DEF Counted
<1>4. Sum(OnTheWay) = 0 BY <1>2, <1>3, SumZero DEF Counted
<1>5. Sum(InTheFile) = 0 BY <1>1, <1>2, SumZero DEF Counted
<1>6. progress >= 0 + 0 /\ progress = 0 + 0 BY <1>1
<1>7. ProgressAddsUp BY <1>4, <1>5, <1>6, AddsUpIs
<1>8. progress \in Int BY <1>1
<1>9. drifted \in BOOLEAN BY <1>1
<1> QED BY <1>7, <1>8, <1>9 DEF ReportsInv

\* A step that moves one fetch and nothing else that counts.
LEMMA OneMoves ==
  ASSUME FileInv, NEW t \in Tasks, NEW k, task' = [task EXCEPT ![t] = k]
  PROVE  task'[t] = k /\ \A u \in Tasks \ {t} : task'[u] = task[u]
BY DEF FileInv, Typed

\* A fetch that begins, or that fails.
LEMMA FailureReports ==
  ASSUME FileInv, Counted, Counted', ReportsInv, NEW t \in Tasks,
         \/ Begin(t) \/ Breaks(t) \/ Stops(t) \/ LeavesSlow(t) \/ IsIncomplete(t)
  PROVE  ReportsInv'
<1> DEFINE k == task[t]
<1>1. drifted \in BOOLEAN /\ progress \in Int BY DEF ReportsInv
<1>2. k \in Fetch /\ Reported(k) \in Nat /\ Way(k) \in Nat /\ Len(k.piece) \in Nat
      /\ k.piece \in Seq(Nat) /\ k.buffer \in Seq(Nat) /\ k.written \in Nat
  BY WayType DEF FileInv, Typed, Fetch
<1>3. Way(Idle) = 0 BY DEF Way, Idle, Reported
<1>4. CASE Begin(t)
  <2>1. PICK c \in Pending :
          task' = [task EXCEPT ![t] =
                     [Idle EXCEPT !.at = "open", !.chunk = c,
                        !.expected = IF size[t] > 0 THEN Expected(c, size[t]) ELSE 0]]
    BY <1>4 DEF Begin
  <2>2. task[t] = Idle BY <1>4 DEF Begin, FileInv, FetchesRight, Active
  <2> DEFINE r == [Idle EXCEPT !.at = "open", !.chunk = c,
                     !.expected = IF size[t] > 0 THEN Expected(c, size[t]) ELSE 0]
  <2>3. Way(r) = 0 BY DEF Way, Idle, Reported
  <2>4. task'[t] = r /\ \A u \in Tasks \ {t} : task'[u] = task[u] BY <2>1, OneMoves
  <2>5. UNCHANGED <<marked, disk, progress, drifted>> BY <1>4 DEF Begin, history
  <2>6. \A u \in Tasks : Way(task'[u]) = Way(task[u]) BY <1>3, <2>2, <2>3, <2>4
  <2> QED BY <2>5, <2>6, ReportStays
<1>5. ASSUME Active(t), task' = [task EXCEPT ![t] = Idle], UNCHANGED <<marked, disk>>,
             NEW given \in Int, progress' = progress + given,
             drifted' \in BOOLEAN, drifted => drifted',
             0 <= Way(k) + given, drifted' \/ 0 = Way(k) + given
      PROVE  ReportsInv'
  <2>1. task'[t] = Idle /\ \A u \in Tasks \ {t} : task'[u] = task[u] BY <1>5, OneMoves
  <2>2. Way(task'[t]) = 0 BY <1>3, <2>1
  <2> HIDE DEF k
  <2>3. Way(task'[t]) <= Way(k) + given /\ (drifted' \/ Way(task'[t]) = Way(k) + given)
    BY <1>5, <2>2
  <2> QED BY <1>5, <2>1, <2>3, ReportMoves DEF k
<1> DEFINE back == -Reported(k)
<1>6. back \in Int /\ 0 = Reported(k) + back /\ progress - Reported(k) = progress + back
  <2> DEFINE n == Reported(k)
  <2>1. n \in Int BY <1>2
  <2> HIDE DEF n
  <2>2. -n \in Int /\ 0 = n + -n /\ progress - n = progress + -n BY <1>1, <2>1
  <2> QED BY <2>2 DEF n
<1>7. Active(t) => Collected(setting, t, k, size[t]) BY FetchFacts DEF FetchRight
<1>8. CASE Breaks(t) \/ Stops(t)
  <2>1. /\ k.at \in {"open", "body"} /\ task' = [task EXCEPT ![t] = Idle]
        /\ UNCHANGED <<marked, disk, drifted>> /\ progress' = progress - Reported(k)
    BY <1>8 DEF Breaks, Stops, GivesUp, history
  <2>2. Active(t) BY <2>1 DEF Active
  <2>3. k.piece = <<>> BY <1>7, <2>1, <2>2 DEF Collected
  <2>4. Way(k) = Reported(k) BY <1>2, <2>1, <2>3 DEF Way
  <2> HIDE DEF back, k
  <2>5. 0 <= Way(k) + back /\ 0 = Way(k) + back BY <1>6, <2>4
  <2>6. progress' = progress + back BY <1>6, <2>1
  <2>7. drifted' \in BOOLEAN /\ (drifted => drifted') BY <1>1, <2>1
  <2> QED BY <1>5, <1>6, <2>1, <2>2, <2>5, <2>6, <2>7
<1>9. CASE LeavesSlow(t)
  <2>1. /\ k.at = "slow" /\ task' = [task EXCEPT ![t] = Idle]
        /\ UNCHANGED <<marked, disk>> /\ progress' = progress - Reported(k)
        /\ drifted' = (drifted \/ k.piece # <<>>)
    BY <1>9 DEF LeavesSlow, GivesUp
  <2>2. Active(t) BY <2>1 DEF Active
  <2>3. drifted' \in BOOLEAN /\ (drifted => drifted') BY <1>1, <2>1
  <2>4. Way(k) = Reported(k) + Len(k.piece) BY <2>1 DEF Way
  <2>5. drifted' \/ Len(k.piece) = 0
    <3>1. CASE k.piece = <<>> BY <3>1
    <3>2. CASE k.piece # <<>> BY <2>1, <3>2
    <3> QED BY <3>1, <3>2
  <2> HIDE DEF back
  <2>6. 0 <= Way(k) + back
    <3> DEFINE n == Reported(k)
               l == Len(k.piece)
    <3>1. n \in Nat /\ l \in Nat /\ Way(k) = n + l /\ 0 = n + back BY <1>2, <1>6, <2>4
    <3> HIDE DEF n, l, k
    <3> QED BY <1>6, <3>1
  <2>7. Len(k.piece) = 0 => 0 = Way(k) + back
    <3> DEFINE n == Reported(k)
    <3>1. n \in Nat /\ 0 = n + back BY <1>2, <1>6
    <3>2. Len(k.piece) = 0 => Way(k) = n BY <2>4, <3>1
    <3> HIDE DEF n, k
    <3> QED BY <3>1, <3>2
  <2>8. progress' = progress + back BY <1>6, <2>1
  <2> HIDE DEF k
  <2> QED BY <1>5, <1>6, <2>1, <2>2, <2>3, <2>5, <2>6, <2>7, <2>8
<1>10. CASE IsIncomplete(t)
  <2>1. /\ k.at = "finish" /\ k.buffer = <<>> /\ task' = [task EXCEPT ![t] = Idle]
        /\ UNCHANGED <<marked, disk, progress>>
        /\ drifted' = (drifted \/ k.written > 0)
    BY <1>10 DEF IsIncomplete, GivesUp
  <2>2. Active(t) BY <2>1 DEF Active
  <2>3. k.piece = <<>> BY <1>7, <2>1, <2>2 DEF Collected
  <2>4. Way(k) = k.written BY <1>2, <2>1, <2>3 DEF Way, Reported
  <2>5. drifted' \in BOOLEAN /\ (drifted => drifted') BY <1>1, <2>1
  <2>6. drifted' \/ k.written = 0
    <3>1. CASE k.written > 0 BY <2>1, <3>1
    <3>2. CASE ~(k.written > 0) BY <1>2, <3>2
    <3> QED BY <3>1, <3>2
  <2>7. 0 <= Way(k) + 0 /\ (k.written = 0 => 0 = Way(k) + 0) BY <1>2, <2>4
  <2>8. progress' = progress + 0 BY <1>1, <2>1
  <2> HIDE DEF k
  <2> QED BY <1>5, <2>1, <2>2, <2>5, <2>6, <2>7, <2>8
<1> QED BY <1>4, <1>8, <1>9, <1>10

\* A fetch goes on with k, and nothing else happens.
LEMMA SameWay ==
  ASSUME FileInv, Counted, Counted', ReportsInv, NEW t \in Tasks,
         NEW k, task' = [task EXCEPT ![t] = k], Way(k) = Way(task[t]),
         UNCHANGED <<marked, disk, progress, drifted>>
  PROVE  ReportsInv'
<1>1. task'[t] = k /\ \A u \in Tasks \ {t} : task'[u] = task[u] BY OneMoves
<1>2. \A u \in Tasks : Way(task'[u]) = Way(task[u]) BY <1>1
<1> QED BY <1>2, ReportStays

LEMMA TurnReports ==
  ASSUME FileInv, Counted, Counted', ReportsInv, NEW t \in Tasks,
         Respond(t) \/ KeepsUp(t) \/ IsTooSlow(t) \/ EndsPiece(t) \/ BodyEnds(t) \/ IsComplete(t)
  PROVE  ReportsInv'
<1>1. UNCHANGED <<marked, disk, progress, drifted>>
  BY DEF Respond, KeepsUp, IsTooSlow, EndsPiece, BodyEnds, IsComplete, history
<1>2. task[t] \in Fetch /\ task[t].at # "throttled"
  BY DEF FileInv, Typed, Respond, KeepsUp, IsTooSlow, EndsPiece, BodyEnds, IsComplete
<1>3. \A u \in Tasks \ {t} : task'[u] = task[u]
  BY DEF FileInv, Typed, Respond, KeepsUp, IsTooSlow, EndsPiece, BodyEnds, IsComplete
<1>4. /\ task'[t].at # "throttled" /\ task'[t].written = task[t].written
      /\ task'[t].buffer = task[t].buffer /\ task'[t].piece = task[t].piece
  BY <1>2 DEF FileInv, Typed, Fetch, Respond, KeepsUp, IsTooSlow, EndsPiece, BodyEnds, IsComplete
<1>5. Way(task'[t]) = Way(task[t]) BY <1>2, <1>4 DEF Way, Reported
<1>6. \A u \in Tasks : Way(task'[u]) = Way(task[u]) BY <1>3, <1>5
<1> QED BY <1>1, <1>6, ReportStays

LEMMA ClampedType ==
  ASSUME FileInv, NEW k \in Fetch
  PROVE  Clamped(k) \in Seq(Nat) /\ Len(Clamped(k)) \in Nat
<1> DEFINE room == k.expected - Reported(k)
<1>1. k.piece \in Seq(Nat) /\ Reported(k) \in Nat /\ k.expected \in Nat BY WayType DEF Fetch
<1>2. CASE k.expected > 0 /\ Len(k.piece) > room
  <2>1. room \in Int /\ room <= Len(k.piece) BY <1>1, <1>2
  <2> HIDE DEF room
  <2>2. SubSeq(k.piece, 1, room) \in Seq(Nat) BY <1>1, <2>1
  <2>3. Clamped(k) = SubSeq(k.piece, 1, room) BY <1>2 DEF Clamped, room
  <2> QED BY <2>2, <2>3
<1>3. CASE ~(k.expected > 0 /\ Len(k.piece) > room)
  <2>1. Clamped(k) = k.piece BY <1>3 DEF Clamped
  <2> QED BY <2>1, <1>1
<1> QED BY <1>2, <1>3

LEMMA PassesReports ==
  ASSUME FileInv, Counted, Counted', ReportsInv, NEW t \in Tasks, Passes(t)
  PROVE  ReportsInv'
<1> DEFINE k == task[t]
           r == [k EXCEPT !.at = "copy", !.piece = Clamped(k)]
           given == Len(Clamped(k))
<1>1. k \in Fetch /\ k.at = "throttled" /\ Reported(k) \in Nat
  BY WayType DEF Passes, FileInv, Typed
<1>2. /\ task' = [task EXCEPT ![t] = r] /\ progress' = progress + given
      /\ UNCHANGED <<marked, disk, drifted>>
  BY DEF Passes, history
<1>3. given \in Int BY <1>1, ClampedType
<1>4. r.at = "copy" /\ r.written = k.written /\ r.buffer = k.buffer /\ r.piece = Clamped(k)
  BY <1>1 DEF Fetch
<1>5. Way(k) = Reported(k) /\ Way(r) = Reported(k) + given
  BY <1>1, <1>4 DEF Way, Reported
<1>6. task'[t] = r /\ \A u \in Tasks \ {t} : task'[u] = task[u] BY <1>2, OneMoves
<1> HIDE DEF r, given, k
<1>7. Way(r) = Way(k) + given /\ Way(r) <= Way(k) + given BY <1>1, <1>3, <1>5
<1>8. drifted' \in BOOLEAN /\ (drifted => drifted') BY <1>2 DEF ReportsInv
<1> QED BY <1>2, <1>3, <1>6, <1>7, <1>8, ReportMoves DEF k

LEMMA ArrivesReports ==
  ASSUME FileInv, Counted, Counted', ReportsInv, NEW t \in Tasks, Arrives(t)
  PROVE  ReportsInv'
<1> DEFINE k == task[t]
<1>1. k \in Fetch /\ k.at = "body" /\ Reported(k) \in Nat /\ Active(t)
  BY WayType DEF Arrives, FileInv, Typed, Active
<1>2. k.piece = <<>> BY <1>1, FetchFacts DEF FetchRight, Collected
<1>3. Way(k) = Reported(k) BY <1>1, <1>2 DEF Way
<1>4. PICK n \in 1..Least(MaxPiece, k.upto - k.from + 1) :
        LET r == [k EXCEPT !.from = @ + n, !.piece = [i \in 1..n |-> k.from + i - 1]]
        IN  /\ Throttle!Consume(t, n)
            /\ IF Throttle!Asleep(t)'
               THEN /\ task' = [task EXCEPT ![t] = [r EXCEPT !.at = "throttled"]]
                    /\ UNCHANGED progress
               ELSE /\ task' = [task EXCEPT ![t] = [r EXCEPT !.at = "copy", !.piece = Clamped(r)]]
                    /\ progress' = progress + Len(Clamped(r))
  BY DEF Arrives
<1> DEFINE q == [i \in 1..n |-> k.from + i - 1]
           r == [k EXCEPT !.from = @ + n, !.piece = q]
           held == [r EXCEPT !.at = "throttled"]
           clamped == [r EXCEPT !.at = "copy", !.piece = Clamped(r)]
<1>5. \/ task' = [task EXCEPT ![t] = held] /\ UNCHANGED progress
      \/ task' = [task EXCEPT ![t] = clamped] /\ progress' = progress + Len(Clamped(r))
  BY <1>4
<1>6. r \in Fetch
  <2>1. k.from \in Nat /\ k.upto \in Nat /\ MaxPiece \in Nat
    BY <1>1, FetcherAssumption DEF Fetch
  <2>2. Least(MaxPiece, k.upto - k.from + 1) \in Int BY <2>1 DEF Least
  <2>3. n \in Nat BY <2>2
  <2>4. \A i \in 1..n : k.from + i - 1 \in Nat BY <2>1, <2>3
  <2>5. q \in Seq(Nat) BY <2>3, <2>4
  <2>6. k.from + n \in Nat BY <2>1, <2>3
  <2> HIDE DEF q
  <2> QED BY <1>1, <2>5, <2>6 DEF Fetch
<1>7. Reported(r) = Reported(k) /\ held.at = "throttled" /\ clamped.at = "copy"
      /\ Reported(held) = Reported(k) /\ Reported(clamped) = Reported(k)
      /\ clamped.piece = Clamped(r)
  BY <1>1 DEF Fetch, Reported
<1>8. Way(held) = Reported(k) BY <1>1, <1>7 DEF Way
<1> DEFINE given == Len(Clamped(r))
<1>9. given \in Int BY <1>6, ClampedType
<1>10. Way(clamped) = Reported(k) + given BY <1>7 DEF Way
<1>11. UNCHANGED <<marked, disk, drifted>> BY DEF Arrives, history
<1> HIDE DEF held, clamped, given, r, k
<1>12. CASE task' = [task EXCEPT ![t] = held] /\ UNCHANGED progress
  BY <1>3, <1>8, <1>11, <1>12, SameWay DEF k
<1>13. CASE task' = [task EXCEPT ![t] = clamped] /\ progress' = progress + given
  <2>1. task'[t] = clamped /\ \A u \in Tasks \ {t} : task'[u] = task[u] BY <1>13, OneMoves
  <2>2. Way(clamped) = Way(k) + given /\ Way(clamped) <= Way(k) + given
    BY <1>1, <1>3, <1>9, <1>10
  <2>3. drifted' \in BOOLEAN /\ (drifted => drifted') BY <1>11 DEF ReportsInv
  <2> QED BY <1>9, <1>11, <1>13, <2>1, <2>2, <2>3, ReportMoves DEF k
<1> QED BY <1>5, <1>12, <1>13 DEF given

\* A fetch writes its own chunk, which nobody has reported.
LEMMA OthersStay ==
  ASSUME FileInv, NEW t \in Tasks, Active(t),
         NEW row, disk' = [disk EXCEPT ![task[t].chunk] = row]
  PROVE  \A m \in marked : disk'[m.chunk] = disk[m.chunk]
<1>1. \A m \in marked : m.chunk # task[t].chunk BY DEF FileInv, Exclusive
<1>2. disk \in [Chunks -> [Parts -> Cell]] /\ \A m \in marked : m.chunk \in Chunks
  BY DEF FileInv, Typed
<1> QED BY <1>1, <1>2

LEMMA CopiesReports ==
  ASSUME FileInv, Counted, Counted', ReportsInv, NEW t \in Tasks, Copies(t)
  PROVE  ReportsInv'
<1> DEFINE k == task[t]
           n == Least(Len(k.piece), setting.window - Len(k.buffer))
           more == k.buffer \o SubSeq(k.piece, 1, n)
           rest == SubSeq(k.piece, n + 1, Len(k.piece))
           r == [k EXCEPT !.buffer = more, !.piece = rest]
<1>1. k \in Fetch /\ k.at = "copy" /\ n > 0 /\ setting \in Settings
  BY DEF Copies, FileInv, Typed
<1>2. /\ task'[t] = r /\ \A u \in Tasks \ {t} : task'[u] = task[u]
      /\ UNCHANGED <<marked, disk, progress, drifted>>
  BY <1>1 DEF Copies, FileInv, Typed, history
<1>3. k.piece \in Seq(Nat) /\ k.buffer \in Seq(Nat) /\ k.written \in Nat BY <1>1 DEF Fetch
<1>4. n \in Nat /\ n <= Len(k.piece)
  <2>1. setting.window \in Nat BY <1>1, SettingFacts
  <2>2. Len(k.piece) \in Int /\ setting.window - Len(k.buffer) \in Int BY <1>3, <2>1
  <2> QED BY <1>1, <2>2 DEF Least
<1>5. Len(more) = Len(k.buffer) + n /\ Len(rest) = Len(k.piece) - n
  <2> HIDE DEF n, k
  <2>1. SubSeq(k.piece, 1, n) \in Seq(Nat) /\ Len(SubSeq(k.piece, 1, n)) = n
    BY <1>3, <1>4
  <2>2. Len(more) = Len(k.buffer) + n BY <1>3, <2>1
  <2>3. Len(rest) = Len(k.piece) - n BY <1>3, <1>4
  <2> QED BY <2>2, <2>3
<1>6. r.at = "copy" /\ r.written = k.written /\ r.buffer = more /\ r.piece = rest
  <2> HIDE DEF more, rest
  <2> QED BY <1>1 DEF Fetch
<1>7. Way(r) = Way(k)
  <2>1. Way(r) = k.written + Len(more) + Len(rest) BY <1>6 DEF Way, Reported
  <2>2. Way(k) = k.written + Len(k.buffer) + Len(k.piece) BY <1>1 DEF Way, Reported
  <2> DEFINE a == Len(more)
             b == Len(rest)
             c == Len(k.buffer)
             d == Len(k.piece)
             e == k.written
  <2>3. a = c + n /\ b = d - n BY <1>5
  <2>5. c \in Nat /\ d \in Nat /\ e \in Nat BY <1>3
  <2> HIDE DEF a, b, c, d, e, n
  <2>4. e + a + b = e + c + d BY <1>4, <2>3, <2>5
  <2> QED BY <2>1, <2>2, <2>4 DEF a, b, c, d, e
<1> HIDE DEF r
<1>8. \A u \in Tasks : Way(task'[u]) = Way(task[u]) BY <1>2, <1>7
<1> QED BY <1>2, <1>8, ReportStays

LEMMA WritesReports ==
  ASSUME FileInv, Counted, Counted', ReportsInv, NEW t \in Tasks, Flushes(t) \/ FlushesRest(t)
  PROVE  ReportsInv'
<1> DEFINE k == task[t]
           p == (k.written \div setting.window) + 1
           old == disk[k.chunk][p].units
           cell == [by |-> t, units |-> k.buffer \o SubSeq(old, Len(k.buffer) + 1, Len(old))]
<1>1. k \in Fetch /\ k.at \in {"copy", "finish"} /\ Active(t) /\ k.chunk \in Chunks
      /\ disk \in [Chunks -> [Parts -> Cell]]
  BY DEF Flushes, FlushesRest, FileInv, Typed, Active, Fetch
<1>2. PICK next \in {"check", "finish"} : Writes(t, next) BY DEF Flushes, FlushesRest
<1>3. /\ disk' = [disk EXCEPT ![k.chunk][p] = cell]
      /\ UNCHANGED <<marked, progress, drifted>>
  BY <1>2 DEF Writes, history
<1>4. /\ task'[t] = [k EXCEPT !.at = next, !.buffer = <<>>, !.written = @ + Len(k.buffer)]
      /\ \A u \in Tasks \ {t} : task'[u] = task[u]
  BY <1>2 DEF Writes, FileInv, Typed
<1> HIDE DEF cell
<1>5. disk' = [disk EXCEPT ![k.chunk] = [disk[k.chunk] EXCEPT ![p] = cell]] BY <1>1, <1>3
<1>6. \A m \in marked : disk'[m.chunk] = disk[m.chunk] BY <1>1, <1>5, OthersStay
<1>7. Way(task'[t]) = Way(k)
  <2> DEFINE r == task'[t]
  <2>1. /\ r.at = next /\ r.buffer = <<>> /\ r.written = k.written + Len(k.buffer)
        /\ r.piece = k.piece
    BY <1>1, <1>4 DEF Fetch
  <2>2. k.written + Len(k.buffer) \in Nat /\ Len(<<>>) = 0 BY <1>1 DEF Fetch
  <2>3. Reported(r) = Reported(k)
    <3>1. Reported(r) = k.written + Len(k.buffer) + 0 BY <2>1, <2>2 DEF Reported
    <3>2. Reported(k) = k.written + Len(k.buffer) BY DEF Reported
    <3> HIDE DEF r, k
    <3> QED BY <2>2, <3>1, <3>2
  <2>4. r.at # "throttled" /\ k.at # "throttled" BY <1>1, <2>1
  <2> HIDE DEF r, k
  <2>5. Way(r) = Way(k) BY <2>1, <2>3, <2>4 DEF Way
  <2> QED BY <2>5 DEF r, k
<1>8. Way(k) \in Nat BY <1>1, WayType
<1>9. drifted' \in BOOLEAN /\ (drifted => drifted') BY <1>3 DEF ReportsInv
<1>10. progress' = progress + 0
  <2>1. progress \in Int BY DEF ReportsInv
  <2> QED BY <1>3, <2>1
<1>11. Way(task'[t]) <= Way(task[t]) + 0 /\ Way(task'[t]) = Way(task[t]) + 0
  <2>1. Way(task'[t]) = Way(task[t]) /\ Way(task[t]) \in Nat BY <1>7, <1>8
  <2> QED BY <2>1
<1> QED BY <1>3, <1>4, <1>6, <1>9, <1>10, <1>11, ReportMoves

LEMMA TruncatesReports ==
  ASSUME FileInv, Counted, Counted', ReportsInv, NEW t \in Tasks, Truncates(t)
  PROVE  ReportsInv'
<1> DEFINE k == task[t]
<1>1. k \in Fetch /\ k.at = "cut" /\ Active(t)
  BY DEF Truncates, FileInv, Typed, Active
<1>2. /\ \E row : disk' = [disk EXCEPT ![k.chunk] = row]
      /\ UNCHANGED <<marked, progress, drifted>>
      /\ task' = [task EXCEPT ![t].at = "mark"]
  BY DEF Truncates, history
<1>3. \A m \in marked : disk'[m.chunk] = disk[m.chunk] BY <1>1, <1>2, OthersStay
<1>4. /\ task'[t] = [k EXCEPT !.at = "mark"]
      /\ \A u \in Tasks \ {t} : task'[u] = task[u]
  BY <1>2 DEF FileInv, Typed
<1>5. /\ task'[t].at = "mark" /\ task'[t].written = k.written
      /\ task'[t].buffer = k.buffer /\ task'[t].piece = k.piece
  BY <1>1, <1>4 DEF Fetch
<1>6. Way(task'[t]) = Way(k) BY <1>1, <1>5 DEF Way, Reported
<1>7. Way(k) \in Nat BY <1>1, WayType
<1>8. drifted' \in BOOLEAN /\ (drifted => drifted') BY <1>2 DEF ReportsInv
<1>9. progress' = progress + 0
  <2>1. progress \in Int BY DEF ReportsInv
  <2> QED BY <1>2, <2>1
<1>10. Way(task'[t]) <= Way(task[t]) + 0 /\ Way(task'[t]) = Way(task[t]) + 0
  <2>1. Way(task'[t]) = Way(task[t]) /\ Way(task[t]) \in Nat BY <1>6, <1>7
  <2> QED BY <2>1
<1> QED BY <1>2, <1>3, <1>4, <1>8, <1>9, <1>10, ReportMoves

\* A chunk is reported: what its fetch had on its way, all of it written, is now what lies in
\* the file.
LEMMA MarkedHolds ==
  ASSUME FileInv, NEW t \in Tasks, Marks(t),
         NEW last, last = Windows(task[t].written)
  PROVE  Held(disk[task[t].chunk], last) = Way(task[t])
<1> DEFINE k == task[t]
           s == setting
           n == k.written
           row == disk[k.chunk]
           f == [p \in 1..last |-> Part(s, n, p)]
           g == [p \in 1..last |-> Len(row[p].units)]
<1>1. Active(t) /\ k.at = "mark" BY DEF Marks, Active
<1>2. s \in Settings /\ Collected(s, t, k, size[t]) /\ Snug(s, n, row) /\ n \in Nat
  BY <1>1, FetchFacts DEF FetchRight
<1>3. k.buffer = <<>> /\ k.piece = <<>> /\ n > 0 BY <1>1, <1>2 DEF Collected
<1>4. Way(k) = n BY <1>1, <1>2, <1>3 DEF Way, Reported
<1>5. last = (n + s.window - 1) \div s.window BY DEF Windows
<1>6. last \in Parts
  <2>1. /\ [chunk |-> k.chunk, parts |-> Windows(n), by |-> t]
           \in [chunk : Chunks, parts : Parts, by : Tasks]
    BY <1>1, MarkIsRight
  <2> QED BY <2>1
<1>7. f = g
  <2> SUFFICES ASSUME NEW p \in 1..last PROVE Part(s, n, p) = Len(row[p].units) OBVIOUS
  <2>1. p \in Parts /\ p <= last BY <1>6, FetcherAssumption DEF Parts
  <2>2. Before(s, p) < n
    <3>1. n \in Nat \ {0} BY <1>2, <1>3
    <3> HIDE DEF n, s
    <3>2. Before(s, last) < n /\ last \in Nat /\ s \in Settings BY <1>2, <1>5, <3>1, LastWindow
    <3>3. p < last => Before(s, p) + s.window <= Before(s, last)
      BY <2>1, <3>2, WindowFacts, FetcherAssumption DEF Parts
    <3> DEFINE a == Before(s, p)
               b == Before(s, last)
    <3>4. a \in Int /\ b \in Int /\ s.window \in Nat /\ p \in Nat
      BY <2>1, <3>2, BeforeType, SettingFacts, FetcherAssumption DEF Parts
    <3>5. p < last \/ p = last BY <2>1, <3>2, <3>4
    <3>6. a < n
      <4>1. p = last => a = b OBVIOUS
      <4> HIDE DEF a, b
      <4> QED BY <3>2, <3>3, <3>4, <3>5, <4>1, <3>1 DEF a, b
    <3> QED BY <3>6
  <2> QED BY <2>1, <2>2, <1>2 DEF Snug
<1> HIDE DEF f, n, s
<1>8. Sum(f) = n BY <1>2, <1>3, <1>5, SumOfParts DEF f
<1> QED BY <1>4, <1>7, <1>8 DEF Held

LEMMA MarksReports ==
  ASSUME FileInv, Counted, Counted', ReportsInv, NEW t \in Tasks, Marks(t)
  PROVE  ReportsInv'
<1> DEFINE c == task[t].chunk
           last == Windows(task[t].written)
<1>1. PICK m : m = [chunk |-> c, parts |-> last, by |-> t] OBVIOUS
<1>2. /\ marked' = marked \cup {m} /\ task' = [task EXCEPT ![t] = Idle]
      /\ UNCHANGED <<disk, progress, drifted>> /\ Active(t)
  BY <1>1 DEF Marks, Active
<1>3. m.chunk = c /\ m.parts = last BY <1>1
<1>4. m \notin marked BY <1>2, <1>3 DEF FileInv, Exclusive
<1>5. Held(disk[m.chunk], m.parts) = Way(task[t]) BY <1>3, MarkedHolds
<1>6. Way(Idle) = 0 BY DEF Way, Idle, Reported
<1>7. task'[t] = Idle /\ \A u \in Tasks \ {t} : task'[u] = task[u] BY <1>2, OneMoves
<1>8. /\ OnTheWay \in [Tasks -> Nat] /\ OnTheWay' \in [Tasks -> Nat]
      /\ OnTheWay[t] = Way(task[t]) /\ OnTheWay'[t] = Way(task'[t])
      /\ \A u \in Tasks \ {t} : OnTheWay'[u] = OnTheWay[u]
  BY <1>7 DEF Counted
<1>9. /\ InTheFile \in [marked -> Nat] /\ InTheFile' \in [marked \cup {m} -> Nat]
      /\ IsFiniteSet(marked) /\ InTheFile'[m] = Held(disk'[m.chunk], m.parts)
      /\ \A l \in marked : InTheFile'[l] = InTheFile[l]
  <2>1. marked' = marked \cup {m} /\ disk' = disk BY <1>2
  <2> QED BY <2>1 DEF Counted
<1>10. IsFiniteSet(Tasks) BY FetcherAssumption
<1> DEFINE old == Sum(OnTheWay)
           new == Sum(OnTheWay')
           done == Sum(InTheFile)
           more == Sum(InTheFile')
           a == Way(task[t])
<1>11. new = old - a + 0
  <2>1. new = old - OnTheWay[t] + OnTheWay'[t] BY <1>8, <1>10, SumChange
  <2> QED BY <2>1, <1>6, <1>7, <1>8
<1>12. more = done + a
  <2>1. more = done + InTheFile'[m] BY <1>4, <1>9, SumExtend
  <2>2. InTheFile'[m] = a BY <1>2, <1>5, <1>9
  <2> QED BY <2>1, <2>2
<1>13. a \in Nat /\ old \in Nat /\ done \in Nat BY <1>8, <1>9, <1>10, HeapFinite
<1>14. progress \in Int /\ progress >= done + old /\ (drifted \/ progress = done + old)
  BY AddsUpIs DEF ReportsInv
<1> HIDE DEF old, new, done, more, a
<1>15. more + new = done + old BY <1>11, <1>12, <1>13
<1>16. /\ progress' >= more + new /\ (drifted' \/ progress' = more + new)
  BY <1>2, <1>14, <1>15
<1>17. Sum(InTheFile)' = more /\ Sum(OnTheWay)' = new BY DEF more, new
<1>18. ProgressAddsUp' BY <1>16, <1>17 DEF ProgressAddsUp, InTheFile, OnTheWay
<1> QED BY <1>2, <1>18 DEF ReportsInv

LEMMA TickReports ==
  ASSUME FileInv, Counted, Counted', ReportsInv, Tick
  PROVE  ReportsInv'
<1>1. UNCHANGED <<marked, disk, progress, drifted>> BY DEF Tick, history
<1>2. ASSUME NEW u \in Tasks PROVE Way(task'[u]) = Way(task[u])
  <2>1. task'[u] = IF setting.minimum > 0 /\ Counts(task[u]) /\ task[u].net < LongEnough
                   THEN [task[u] EXCEPT !.net = @ + 1] ELSE task[u]
    BY DEF Tick
  <2>2. task[u] \in Fetch BY DEF FileInv, Typed
  <2>3. /\ task'[u].at = task[u].at /\ task'[u].written = task[u].written
        /\ task'[u].buffer = task[u].buffer /\ task'[u].piece = task[u].piece
    BY <2>1, <2>2 DEF Fetch
  <2> QED BY <2>3 DEF Way, Reported
<1> QED BY <1>1, <1>2, ReportStays

LEMMA ReportsStep ==
  FileInv /\ Counted /\ Counted' /\ ReportsInv /\ [Next]_vars => ReportsInv'
<1> SUFFICES ASSUME FileInv, Counted, Counted', ReportsInv, [Next]_vars PROVE ReportsInv'
  OBVIOUS
<1>1. ASSUME NEW t \in Tasks, TaskStep(t) PROVE ReportsInv'
  <2>1. CASE \/ Begin(t) \/ Breaks(t) \/ Stops(t) \/ LeavesSlow(t) \/ IsIncomplete(t)
    BY <2>1, FailureReports
  <2>2. CASE \/ Respond(t) \/ KeepsUp(t) \/ IsTooSlow(t) \/ EndsPiece(t) \/ BodyEnds(t)
             \/ IsComplete(t)
    BY <2>2, TurnReports
  <2>3. CASE Arrives(t) BY <2>3, ArrivesReports
  <2>4. CASE Passes(t) BY <2>4, PassesReports
  <2>5. CASE Copies(t) BY <2>5, CopiesReports
  <2>6. CASE Flushes(t) \/ FlushesRest(t) BY <2>6, WritesReports
  <2>7. CASE Truncates(t) BY <2>7, TruncatesReports
  <2>8. CASE Marks(t) BY <2>8, MarksReports
  <2> QED BY <1>1, <2>1, <2>2, <2>3, <2>4, <2>5, <2>6, <2>7, <2>8 DEF TaskStep
<1>2. CASE Tick BY <1>2, TickReports
<1>3. CASE SetStop \/ (\E r \in setting.rates : SetSpeedLimit(r)) \/ Finished \/ UNCHANGED vars
  <2>1. UNCHANGED <<task, marked, disk, progress, drifted>>
    BY <1>3 DEF SetStop, SetSpeedLimit, Finished, vars, history
  <2> QED BY <2>1, ReportStays
<1> QED BY <1>1, <1>2, <1>3 DEF Next

LEMMA ReportsAreRight == Spec => []ReportsInv
BY ReportsInit, ReportsStep, SumsAreCounted, FileIsRight, PTL DEF Spec

\* What the progress reporter was told is what lies in the file and is on its way there, or
\* more where fetch() takes back too little, and never less: whatever is cut short, retried,
\* clamped or cut off.
THEOREM ReportsAddUp == Spec => []ProgressAddsUp
<1>1. ReportsInv => ProgressAddsUp BY DEF ReportsInv
<1> QED BY <1>1, ReportsAreRight, PTL

LEMMA TypesHold == FileInv /\ LimiterInv /\ ReportsInv => TypeOK
<1> SUFFICES ASSUME FileInv, LimiterInv, ReportsInv PROVE TypeOK OBVIOUS
<1>1. /\ setting \in Settings /\ task \in [Tasks -> Fetch]
      /\ size \in [Tasks -> {0, setting.size}] /\ disk \in [Chunks -> [Parts -> Cell]]
      /\ marked \subseteq [chunk : Chunks, parts : Parts, by : Tasks]
      /\ failures \in 0..setting.faults
  BY DEF FileInv, Typed
<1>2. setting.chunk \in Nat /\ setting.window \in Nat /\ MaxPiece \in Nat /\ Grace \in Nat
  BY <1>1, SettingFacts, FetcherAssumption
<1>3. ASSUME NEW t \in Tasks
      PROVE  /\ task[t].at \in Places /\ task[t].chunk \in Chunks
             /\ Len(task[t].piece) <= MaxPiece /\ Len(task[t].buffer) <= setting.window
             /\ Reported(task[t]) <= Units(task[t].chunk)
             /\ task[t].net \in 0..LongEnough
             /\ size[t] \in {0, setting.size}
  <2>1. task[t] \in Fetch BY <1>1
  <2>2. task[t].net \in 0..LongEnough
    <3>1. task[t].net \in Nat /\ task[t].net <= LongEnough
      BY <2>1 DEF Fetch, FileInv, Slow
    <3>2. LongEnough \in Nat BY <1>1, <1>2, SettingFacts DEF LongEnough
    <3> QED BY <3>1, <3>2
  <2>3. CASE Active(t)
    <3> DEFINE k == task[t]
               aim == Aim(setting, k, size[t])
               room == Room(setting, k.chunk)
    <3>1. /\ Collected(setting, t, k, size[t]) /\ InFile(setting, k.chunk)
          /\ size[t] \in {0, setting.size} /\ (size[t] = 0 => setting.told = 0)
          /\ k.chunk \in Nat
      BY <2>3, FetchFacts DEF FetchRight
    <3>2. /\ Len(k.piece) <= MaxPiece /\ Len(k.buffer) <= setting.window
          /\ Reported(k) <= aim
      BY <3>1 DEF Collected
    <3>3. Reported(k) \in Nat BY <2>1, WayType
    <3>4. aim \in Nat /\ aim <= room BY <1>1, <2>1, <3>1, AimFacts
    <3>5. room \in Int BY <1>1, <3>1, RoomFacts
    <3>6. Reported(k) <= room
      <4> HIDE DEF k, aim, room
      <4> QED BY <3>2, <3>3, <3>4, <3>5
    <3>7. Units(k.chunk) = room BY DEF Units, Room, Start, Base
    <3>8. Reported(task[t]) <= Units(task[t].chunk) BY <3>6, <3>7
    <3> QED BY <1>1, <2>1, <2>2, <3>2, <3>8 DEF Fetch
  <2>4. CASE ~Active(t)
    <3>1. task[t] = Idle BY <2>4 DEF FileInv, FetchesRight
    <3>2. Len(Idle.piece) = 0 /\ Len(Idle.buffer) = 0 /\ Reported(Idle) = 0
      BY DEF Idle, Reported
    <3>3. Units(Idle.chunk) \in Nat
      <4>1. /\ Idle.chunk = 0 /\ setting.size \in Nat /\ 0 * setting.chunk = 0
            /\ setting.chunk \in Nat
        BY <1>1, SettingFacts DEF Idle
      <4> QED BY <4>1 DEF Units, Start, Least
    <3> QED BY <1>1, <1>2, <2>1, <2>2, <3>1, <3>2, <3>3 DEF Fetch
  <2> QED BY <2>3, <2>4
<1>4. ASSUME NEW c \in Chunks, NEW p \in Parts
      PROVE  disk[c][p].by \in Tasks \cup {Hole} /\ Len(disk[c][p].units) <= setting.window
  <2>1. disk[c][p] \in Cell BY <1>1
  <2>2. Len(disk[c][p].units) <= Part(setting, Room(setting, c), p)
    BY DEF FileInv, RowsRight, Row
  <2>3. Part(setting, Room(setting, c), p) \in 0..setting.window
    <3>1. c \in Nat /\ p \in Nat BY FetcherAssumption DEF Chunks, Parts
    <3>2. Room(setting, c) \in Int
      <4>1. setting.size \in Int BY <1>1, SettingFacts
      <4> QED BY <1>2, <3>1, <4>1 DEF Room, Base, Least
    <3> QED BY <1>1, <3>1, <3>2, PartFacts
  <2>4. Len(disk[c][p].units) \in Nat BY <2>1 DEF Cell
  <2> QED BY <1>2, <2>1, <2>2, <2>3, <2>4 DEF Cell
<1>5. progress \in Nat
  <2>1. Counted BY SumsAreCounted
  <2>2. Sum(InTheFile) \in Nat /\ Sum(OnTheWay) \in Nat
    BY <2>1, HeapFinite, FetcherAssumption DEF Counted
  <2>3. progress \in Int /\ progress >= Sum(InTheFile) + Sum(OnTheWay)
    BY AddsUpIs DEF ReportsInv
  <2> QED BY <2>2, <2>3
<1>6. /\ rate \in setting.rates \cup {setting.rate}
      /\ Throttle!Accrued <= Throttle!Capacity(rate) \/ rate = 0
  BY BucketFacts DEF LimiterInv, LimiterTyped
<1> QED BY <1>1, <1>3, <1>4, <1>5, <1>6 DEF TypeOK

\* Every variable keeps to its type: no fetch buffers more than its window or collects more
\* than its chunk, the reporter is never told of less than nothing, and the limiter saves
\* no more than its burst.
THEOREM FetcherTypes == Spec => []TypeOK
BY FileIsRight, LimiterIsRight, ReportsAreRight, TypesHold, PTL

================================================================================
