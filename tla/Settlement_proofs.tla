-------------------------- MODULE Settlement_proofs --------------------------
(***************************************************************************)
(* What Fixings and Settlement guarantee for every set of publications,    *)
(* banks, books, curves and dates: their types, that the store is the      *)
(* sorted record of what was published, that adjoining periods compose,    *)
(* and that netting conserves what every two banks owe each other.         *)
(***************************************************************************)
EXTENDS Settlement, CurveMath_proofs

-----------------------------------------------------------------------------
(* Products, as the sums of CurveMath_proofs. *)

\* Two factors trade places.
LEMMA FactorsSwap ==
  ASSUME NEW a \in Int, NEW b \in Int, NEW c \in Int
  PROVE  a * (b * c) = b * (a * c) /\ a * (b * c) = (a * b) * c
  OBVIOUS

\* One more factor.
Multiplies(f, V, s, x) == f[s] = V[x] * f[s \ {x}]

\* The recursion by which ProductOnSet is defined.
Multiplying(V, S) ==
  CHOOSE f : f = [s \in SUBSET S |->
                    IF s = {} THEN 1
                    ELSE V[First(s)] * f[s \ {First(s)}]]

\* What the products over the subsets of a set are.
IsMultiplying(f, V, S) ==
  /\ f \in [SUBSET S -> Int]
  /\ f[{}] = 1
  /\ \A s \in SUBSET S : s # {} => First(s) \in s /\ Multiplies(f, V, s, First(s))

\* The recursion does define a function.
LEMMA MultiplyingIs ==
  ASSUME NEW S, NEW V, Summable(V, S)
  PROVE  /\ IsMultiplying(Multiplying(V, S), V, S)
         /\ ProductOnSet(V, S) = Multiplying(V, S)[S]
  <1> DEFINE Choice == [s \in SUBSET S |-> First(s)]
             Step == [x \in S |-> [v \in Int |-> V[x] * v]]
             Is(g) == g = [s \in SUBSET S |->
                             IF s = {} THEN 1 ELSE V[First(s)] * g[s \ {First(s)}]]
             f == Multiplying(V, S)
  <1>0. IsFiniteSet(S) /\ \A x \in S : V[x] \in Int
    BY DEF Summable
  <1>1. \A s \in SUBSET S : s # {} => First(s) \in s
    BY DEF First
  <1>2. PICK g : IsFold(g, S, Int, 1, Choice, Step)
    <2>1. \A s \in SUBSET S : s # {} => Choice[s] \in s
      BY <1>1
    <2>2. \A x \in S, v \in Int : Step[x][v] \in Int
      BY <1>0
    <2> HIDE DEF Choice, Step
    <2>3. Foldable(S, Int, 1, Choice, Step)
      BY <1>0, <2>1, <2>2 DEF Foldable
    <2> QED
      BY <2>3, FoldsExist
  <1>3. ASSUME NEW s \in SUBSET S
        PROVE  g[s] = IF s = {} THEN 1 ELSE V[First(s)] * g[s \ {First(s)}]
    <2>1. g[s] = FoldStep(g, s, 1, Choice, Step) /\ g \in [SUBSET S -> Int]
      BY <1>2 DEF IsFold
    <2>2. CASE s = {}
      BY <2>1, <2>2 DEF FoldStep
    <2>3. CASE s # {}
      <3>1. First(s) \in S /\ g[s \ {First(s)}] \in Int
        BY <1>1, <2>1, <2>3
      <3> QED
        BY <2>1, <2>3, <3>1 DEF FoldStep
    <2> QED
      BY <2>2, <2>3
  <1>4. Is(g)
    <2>1. g = [s \in SUBSET S |-> g[s]]
      BY <1>2 DEF IsFold
    <2> QED
      BY <1>3, <2>1
  <1>5. f = CHOOSE h : Is(h)
    BY DEF Multiplying
  <1>6. Is(f)
    BY <1>4, <1>5
  <1>7. /\ f[{}] = 1
        /\ \A s \in SUBSET S : s # {} => Multiplies(f, V, s, First(s))
    BY <1>6 DEF Multiplies
  <1>8. f = [s \in SUBSET S |-> f[s]]
    BY <1>6
  <1> HIDE DEF f
  <1>9. \A s \in SUBSET S : f[s] \in Int
    <2> DEFINE Bad == {s \in SUBSET S : f[s] \notin Int}
    <2>1. SUFFICES ASSUME Bad # {} PROVE FALSE
      OBVIOUS
    <2>2. PICK s \in Bad : \A x \in s : s \ {x} \notin Bad
      BY <1>0, <2>1, SmallestSubset
    <2>3. s \in SUBSET S /\ f[s] \notin Int
      BY <2>2
    <2>4. s # {} /\ First(s) \in s
      BY <1>1, <1>7, <2>3
    <2>5. s \ {First(s)} \in SUBSET S /\ s \ {First(s)} \notin Bad
      BY <2>2, <2>3, <2>4
    <2>6. f[s \ {First(s)}] \in Int
      BY <2>5
    <2>7. V[First(s)] \in Int /\ Multiplies(f, V, s, First(s))
      BY <1>0, <1>7, <2>3, <2>4
    <2> QED
      BY <2>3, <2>6, <2>7 DEF Multiplies
  <1>10. ProductOnSet(V, S) = f[S]
    BY DEF ProductOnSet, FoldFunctionOnSet, MapThenFoldSet, f, Multiplying, First
  <1>11. IsMultiplying(f, V, S)
    BY <1>1, <1>7, <1>8, <1>9 DEF IsMultiplying
  <1> QED
    BY <1>10, <1>11 DEF f

\* The product over a part does not depend on what it is a part of.
LEMMA MultiplyingPart ==
  ASSUME NEW S, NEW V, Summable(V, S), NEW T \in SUBSET S
  PROVE  ProductOnSet(V, T) = Multiplying(V, S)[T]
  <1>1. IsFiniteSet(T) /\ Summable(V, T)
    BY FS_Subset DEF Summable
  <1>2. PICK f : f = Multiplying(V, S) /\ IsMultiplying(f, V, S)
    BY MultiplyingIs
  <1>3. PICK g : /\ g = Multiplying(V, T) /\ IsMultiplying(g, V, T)
                 /\ ProductOnSet(V, T) = g[T]
    BY <1>1, MultiplyingIs
  <1> DEFINE Bad == {s \in SUBSET T : g[s] # f[s]}
  <1>4. Bad = {}
    <2>1. SUFFICES ASSUME Bad # {} PROVE FALSE
      OBVIOUS
    <2>2. PICK s \in Bad : \A x \in s : s \ {x} \notin Bad
      BY <1>1, <2>1, SmallestSubset
    <2>3. s \in SUBSET T /\ s \in SUBSET S /\ g[s] # f[s]
      BY <2>2
    <2>4. /\ s # {} /\ First(s) \in s
          /\ Multiplies(f, V, s, First(s)) /\ Multiplies(g, V, s, First(s))
      BY <1>2, <1>3, <2>3 DEF IsMultiplying
    <2>5. s \ {First(s)} \in SUBSET T /\ s \ {First(s)} \notin Bad
      BY <2>2, <2>3, <2>4
    <2>6. g[s \ {First(s)}] = f[s \ {First(s)}]
      BY <2>5
    <2> QED
      BY <2>3, <2>4, <2>6 DEF Multiplies
  <1> QED
    BY <1>2, <1>3, <1>4

\* What a product is: one over nothing, and any one factor times the product
\* over the rest.
LEMMA ProductRules ==
  ASSUME NEW S, NEW V, Summable(V, S)
  PROVE  /\ ProductOnSet(V, S) \in Int
         /\ S = {} => ProductOnSet(V, S) = 1
         /\ \A x \in S : /\ ProductOnSet(V, S \ {x}) \in Int
                         /\ ProductOnSet(V, S) = V[x] * ProductOnSet(V, S \ {x})
  <1>1. PICK f : f = Multiplying(V, S) /\ IsMultiplying(f, V, S)
    BY MultiplyingIs
  <1> DEFINE Bad == {s \in SUBSET S : \E x \in s : ~Multiplies(f, V, s, x)}
  <1>2. Bad = {}
    <2>1. SUFFICES ASSUME Bad # {} PROVE FALSE
      OBVIOUS
    <2>2. PICK s \in Bad : \A x \in s : s \ {x} \notin Bad
      BY <2>1, SmallestSubset DEF Summable
    <2>3. /\ s \in SUBSET S
          /\ \A y \in s : \A x \in s \ {y} : Multiplies(f, V, s \ {y}, x)
      BY <2>2
    <2>4. PICK x \in s : ~Multiplies(f, V, s, x)
      BY <2>2
    <2>5. PICK c \in s : Multiplies(f, V, s, c)
      BY <1>1, <2>3, <2>4 DEF IsMultiplying
    <2>6. c # x /\ Multiplies(f, V, s \ {c}, x) /\ Multiplies(f, V, s \ {x}, c)
      BY <2>3, <2>4, <2>5
    <2>7. (s \ {c}) \ {x} = (s \ {x}) \ {c}
      OBVIOUS
    <2>8. V[c] \in Int /\ V[x] \in Int /\ f[(s \ {x}) \ {c}] \in Int
      BY <1>1, <2>3 DEF Summable, IsMultiplying
    <2>9. f[s \ {c}] = V[x] * f[(s \ {x}) \ {c}]
      BY <2>6, <2>7 DEF Multiplies
    <2>10. f[s \ {x}] = V[c] * f[(s \ {x}) \ {c}]
      BY <2>6 DEF Multiplies
    <2>11. f[s] = V[c] * (V[x] * f[(s \ {x}) \ {c}])
      BY <2>5, <2>9 DEF Multiplies
    <2>12. f[s] = V[x] * (V[c] * f[(s \ {x}) \ {c}])
      BY ONLY <2>8, <2>11, FactorsSwap
    <2> QED
      BY <2>4, <2>10, <2>12 DEF Multiplies
  <1>3. \A T \in SUBSET S : ProductOnSet(V, T) = f[T]
    BY <1>1, MultiplyingPart
  <1>4. S = {} => f[S] = 1
    BY <1>1 DEF IsMultiplying
  <1>5. ASSUME NEW x \in S
        PROVE  /\ f[S \ {x}] \in Int
               /\ f[S] = V[x] * f[S \ {x}]
               /\ ProductOnSet(V, S \ {x}) = f[S \ {x}]
    <2>1. S \in SUBSET S /\ S \ {x} \in SUBSET S
      OBVIOUS
    <2>2. Multiplies(f, V, S, x)
      BY <1>2, <2>1
    <2> QED
      BY <1>1, <1>3, <2>1, <2>2 DEF Multiplies, IsMultiplying
  <1>6. S \in SUBSET S /\ f[S] \in Int
    BY <1>1 DEF IsMultiplying
  <1> QED
    BY <1>3, <1>4, <1>5, <1>6

\* The product over a set is that over a part times that over the rest.
LEMMA ProductSplits ==
  ASSUME NEW S, NEW V, Summable(V, S), NEW A \in SUBSET S
  PROVE  ProductOnSet(V, S) = ProductOnSet(V, A) * ProductOnSet(V, S \ A)
  <1> DEFINE product(T) == ProductOnSet(V, T)
             Bad == {T \in SUBSET A : product(T) * product(S \ A) # product(T \union (S \ A))}
  <1>1. IsFiniteSet(S) /\ IsFiniteSet(A)
    BY FS_Subset DEF Summable
  <1>2. ASSUME NEW T \in SUBSET S
        PROVE  /\ product(T) \in Int
               /\ T = {} => product(T) = 1
               /\ \A x \in T : /\ V[x] \in Int
                               /\ product(T \ {x}) \in Int
                               /\ product(T) = V[x] * product(T \ {x})
    <2>1. Summable(V, T) /\ \A x \in T : V[x] \in Int
      BY FS_Subset DEF Summable
    <2> QED
      BY <2>1, ProductRules
  <1> HIDE DEF product
  <1>3. Bad = {}
    <2>1. SUFFICES ASSUME Bad # {} PROVE FALSE
      OBVIOUS
    <2>2. PICK T \in Bad : \A x \in T : T \ {x} \notin Bad
      BY <1>1, <2>1, SmallestSubset
    <2> DEFINE U == T \union (S \ A)
    <2>3. /\ T \in SUBSET A /\ T \in SUBSET S /\ U \in SUBSET S
          /\ product(T) * product(S \ A) # product(U)
      BY <2>2
    <2>4. product(S \ A) \in Int
      BY <1>2
    <2>5. T # {}
      <3>1. SUFFICES ASSUME T = {} PROVE FALSE
        OBVIOUS
      <3>2. U = S \ A /\ product(T) = 1
        BY <1>2, <2>3, <3>1
      <3>3. product(U) = product(S \ A) /\ product(U) # 1 * product(S \ A)
        BY <2>3, <3>2
      <3> QED
        BY <2>4, <3>3
    <2>6. PICK x \in T : TRUE
      BY <2>5
    <2>7. T \ {x} \in SUBSET A /\ T \ {x} \notin Bad /\ U \ {x} = (T \ {x}) \union (S \ A)
      BY <2>2, <2>3
    <2>8. product(T \ {x}) * product(S \ A) = product(U \ {x})
      BY <2>7
    <2>9. /\ V[x] \in Int /\ product(T \ {x}) \in Int /\ product(T) = V[x] * product(T \ {x})
          /\ product(U) = V[x] * product(U \ {x})
      BY <1>2, <2>3, <2>6
    <2> HIDE DEF U
    <2>10. V[x] * (product(T \ {x}) * product(S \ A))
             = (V[x] * product(T \ {x})) * product(S \ A)
      BY ONLY <2>4, <2>9, FactorsSwap
    <2> QED
      BY <2>3, <2>8, <2>9, <2>10
  <1>4. A \union (S \ A) = S
    OBVIOUS
  <1> QED
    BY <1>3, <1>4 DEF product

-----------------------------------------------------------------------------
(* The store of fixings. *)

\* The dates of a sequence of fixings ascend.
Ascends(s) == \A i, j \in DOMAIN s : i < j => s[i].date <= s[j].date

\* place says where the elements of a went, those of one date in their order.
Places(place, s, a) ==
  /\ place \in Bijection(DOMAIN a, DOMAIN a)
  /\ \A i \in DOMAIN a : s[place[i]] = a[i]
  /\ \A i, j \in DOMAIN a : i < j /\ a[i].date = a[j].date => place[i] < place[j]

\* s is a sorted, stable rearrangement of a.
Keeps(s, a) ==
  /\ s \in Seq(Publications) /\ a \in Seq(Publications) /\ Len(s) = Len(a)
  /\ Ascends(s)
  /\ \E place : Places(place, s, a)

\* What holds of the fixings at all times.
FixingsInv ==
  /\ store \in [Indices -> Seq(Publications)]
  /\ added \in [Indices -> Seq(Publications)]
  /\ FixingsKept

LEMMA KeptIsKeeps ==
  ASSUME store \in [Indices -> Seq(Publications)], added \in [Indices -> Seq(Publications)]
  PROVE  FixingsKept <=> \A x \in Indices : Keeps(store[x], added[x])
  BY DEF FixingsKept, Keeps, Ascends, Places

\* The numbers up to a bound among the first ones.
LEMMA PrefixIs ==
  ASSUME NEW n \in Nat, NEW l \in 0..n, NEW E, E \subseteq 1..n,
         \A i \in 1..n : (i \in E <=> i <= l)
  PROVE  E = 1..l
  <1>1. ASSUME NEW i \in E PROVE i \in 1..l
    <2>1. i \in 1..n
      OBVIOUS
    <2>2. i <= l
      BY <2>1
    <2> QED
      BY ONLY <2>1, <2>2, n \in Nat, l \in 0..n
  <1>2. ASSUME NEW i \in 1..l PROVE i \in E
    <2>1. i \in 1..n /\ i <= l
      BY ONLY n \in Nat, l \in 0..n, i \in 1..l
    <2> QED
      BY <2>1
  <1> QED
    BY <1>1, <1>2

\* In a sorted sequence the fixings up to a date come first.
LEMMA UpToDateIsPrefix ==
  ASSUME NEW s \in Seq(Publications), Ascends(s), NEW d \in Nat
  PROVE  LET early == {i \in DOMAIN s : s[i].date <= d}
         IN Cardinality(early) \in 0..Len(s) /\ early = 1..Cardinality(early)
  <1> DEFINE n == Len(s)
             early == {i \in DOMAIN s : s[i].date <= d}
             late == {i \in DOMAIN s : ~(s[i].date <= d)}
  <1>1. n \in Nat /\ DOMAIN s = 1..n /\ \A i \in 1..n : s[i].date \in Nat
    BY LenProperties, ElementOfSeq, FixingsAssumption
  <1>2. PICK m \in 0..n : early = 1..m
    <2>1. CASE late = {}
      <3>1. early = 1..n
        BY <1>1, <2>1
      <3> QED
        BY <1>1, <3>1
    <2>2. CASE late # {}
      <3>1. PICK k \in late : \A j \in late : k <= j
        <4>1. late \in SUBSET Nat
          BY <1>1
        <4> HIDE DEF late
        <4> QED
          BY <2>2, <4>1, SmallestNumber
      <3>2. k \in 1..n /\ k - 1 \in 0..n /\ d < s[k].date
        BY <1>1, <3>1
      <3>3. ASSUME NEW i \in 1..n PROVE i \in early <=> i <= k - 1
        <4>1. CASE i <= k - 1
          <5>1. i \notin late
            BY <1>1, <3>1, <3>2, <4>1
          <5> QED
            BY <1>1, <4>1, <5>1
        <4>2. CASE i > k - 1
          <5>1. s[k].date <= s[i].date
            BY <1>1, <3>2, <4>2 DEF Ascends
          <5> QED
            BY <1>1, <3>2, <4>2, <5>1
        <4> QED
          BY <1>1, <3>2, <4>1, <4>2
      <3>4. early = 1..(k - 1)
        <4>1. early \subseteq 1..n
          BY <1>1
        <4> HIDE DEF n, early
        <4> QED
          BY <1>1, <3>2, <3>3, <4>1, PrefixIs
      <3> QED
        BY <3>2, <3>4
    <2> QED
      BY <2>1, <2>2
  <1>3. Cardinality(1..m) = m
    <2>1. m \in Int /\ 1 \in Int
      BY <1>1
    <2>2. Cardinality(1..m) = IF 1 > m THEN 0 ELSE m - 1 + 1
      BY ONLY <2>1, FS_Interval
    <2> QED
      BY ONLY <1>1, <2>2
  <1> QED
    BY <1>2, <1>3

\* t is s with an element inserted at place q.
InsertAtGives(S, s, q, f, t) ==
  /\ t \in Seq(S) /\ Len(t) = Len(s) + 1
  /\ t[q] = f
  /\ \A i \in 1..Len(s) : (i < q => t[i] = s[i]) /\ (q <= i => t[i + 1] = s[i])

LEMMA InsertAtIs ==
  ASSUME NEW S, NEW s \in Seq(S), NEW f \in S, NEW q \in 1..(Len(s) + 1)
  PROVE  InsertAtGives(S, s, q, f, InsertAt(s, q, f))
  <1>1. PICK n, p : n = Len(s) /\ p = q - 1
    OBVIOUS
  <1> DEFINE u == SubSeq(s, 1, p)
             v == SubSeq(s, q, n)
             w == u \o <<f>>
             t == w \o v
  <1>2. /\ n \in Nat /\ DOMAIN s = 1..n /\ q \in 1..(n + 1) /\ p \in 0..n /\ q = p + 1
        /\ \A i \in 1..n : s[i] \in S
    BY <1>1, LenProperties, ElementOfSeq
  <1>3. /\ u \in Seq(S) /\ Len(u) = p
        /\ \A i \in 1..p : u[i] = s[i]
    <2>1. \A i \in 1..p : s[i] \in S
      BY <1>2
    <2>2. /\ u \in Seq(S) /\ Len(u) = IF 1 <= p THEN p - 1 + 1 ELSE 0
          /\ \A i \in 1..(p - 1 + 1) : u[i] = s[1 + i - 1]
      BY <1>2, <2>1, SubSeqProperties
    <2> QED
      BY <1>2, <2>2
  <1>4. /\ v \in Seq(S) /\ Len(v) = n - p
        /\ \A i \in 1..(n - p) : v[i] = s[p + i]
    <2>1. \A i \in q..n : s[i] \in S
      BY <1>2
    <2>2. /\ v \in Seq(S) /\ Len(v) = IF q <= n THEN n - q + 1 ELSE 0
          /\ \A i \in 1..(n - q + 1) : v[i] = s[q + i - 1]
      BY <1>2, <2>1, SubSeqProperties
    <2>3. /\ n - q + 1 = n - p
          /\ (IF q <= n THEN n - p ELSE 0) = n - p
          /\ \A i \in 1..(n - p) : q + i - 1 = p + i
      BY <1>2
    <2> HIDE DEF v
    <2> QED
      BY <2>2, <2>3
  <1> HIDE DEF u, v
  <1>5. <<f>> \in Seq(S) /\ Len(<<f>>) = 1 /\ <<f>>[1] = f
    OBVIOUS
  <1>6. /\ w \in Seq(S) /\ Len(w) = q
        /\ \A i \in 1..q : w[i] = IF i <= p THEN u[i] ELSE <<f>>[i - p]
    BY <1>2, <1>3, <1>5, ConcatProperties
  <1> HIDE DEF w
  <1>7. /\ t \in Seq(S) /\ Len(t) = n + 1
        /\ \A i \in 1..(n + 1) : t[i] = IF i <= q THEN w[i] ELSE v[i - q]
    <2>1. Len(w) + Len(v) = n + 1 /\ Len(w) = q
      BY <1>2, <1>4, <1>6
    <2>2. /\ w \o v \in Seq(S) /\ Len(w \o v) = Len(w) + Len(v)
          /\ \A i \in 1..(Len(w) + Len(v)) :
               (w \o v)[i] = IF i <= Len(w) THEN w[i] ELSE v[i - Len(w)]
      BY <1>4, <1>6, ConcatProperties
    <2> QED
      BY <2>1, <2>2
  <1>8. InsertAt(s, q, f) = t
    BY <1>1, Zenon DEF InsertAt, u, v, w
  <1> HIDE DEF t
  <1>9. t[q] = f
    BY <1>2, <1>5, <1>6, <1>7
  <1>10. ASSUME NEW i \in 1..n
         PROVE  (i < q => t[i] = s[i]) /\ (q <= i => t[i + 1] = s[i])
    <2>1. ASSUME i < q PROVE t[i] = s[i]
      BY <1>2, <1>3, <1>6, <1>7, <2>1
    <2>2. ASSUME q <= i PROVE t[i + 1] = s[i]
      <3>1. /\ i + 1 \in 1..(n + 1) /\ ~(i + 1 <= q) /\ i + 1 - q = i - p
            /\ i - p \in 1..(n - p) /\ p + (i - p) = i
        BY <1>2, <2>2
      <3> QED
        BY <1>4, <1>7, <3>1
    <2> QED
      BY <2>1, <2>2
  <1> QED
    BY <1>1, <1>7, <1>8, <1>9, <1>10 DEF InsertAtGives

\* t is s with a fixing put behind those up to its date, at place q.
InsertedAt(q, n, s, t, f) ==
  /\ n \in Nat /\ q \in 1..(n + 1)
  /\ DOMAIN s = 1..n /\ DOMAIN t = 1..(n + 1)
  /\ f.date \in Nat /\ t[q] = f
  /\ \A i \in 1..n : /\ s[i].date \in Nat
                     /\ i < q => s[i].date <= f.date /\ t[i] = s[i]
                     /\ q <= i => f.date < s[i].date /\ t[i + 1] = s[i]

\* b is a with a fixing behind it.
PushedTo(n, a, b, f) ==
  /\ DOMAIN a = 1..n /\ DOMAIN b = 1..(n + 1)
  /\ b[n + 1] = f
  /\ \A i \in 1..n : b[i] = a[i]

\* A fixing inserted into a sorted store leaves it sorted.
LEMMA InsertedAscends ==
  ASSUME NEW q, NEW n, NEW s, NEW t, NEW f, InsertedAt(q, n, s, t, f), Ascends(s)
  PROVE  Ascends(t)
  <1>1. SUFFICES ASSUME NEW i \in 1..(n + 1), NEW j \in 1..(n + 1), i < j
                 PROVE  t[i].date <= t[j].date
    BY DEF Ascends, InsertedAt
  <1>2. n \in Nat /\ q \in 1..(n + 1) /\ f.date \in Nat /\ t[q] = f
    BY DEF InsertedAt
  <1>3. ASSUME NEW k \in 1..(n + 1), k < q
        PROVE  k \in 1..n /\ t[k] = s[k] /\ t[k].date \in Nat /\ t[k].date <= f.date
    <2>1. k \in 1..n
      BY <1>2, <1>3
    <2> QED
      BY <1>3, <2>1 DEF InsertedAt
  <1>4. ASSUME NEW k \in 1..(n + 1), q < k
        PROVE  k - 1 \in 1..n /\ t[k] = s[k - 1] /\ t[k].date \in Nat /\ f.date < t[k].date
    <2>1. PICK l : l = k - 1
      OBVIOUS
    <2>2. l \in 1..n /\ q <= l /\ l + 1 = k
      BY <1>2, <1>4, <2>1
    <2>3. s[l].date \in Nat /\ f.date < s[l].date /\ t[l + 1] = s[l]
      BY <2>2 DEF InsertedAt
    <2> QED
      BY <2>1, <2>2, <2>3
  <1>5. CASE j < q
    <2>1. i < q
      BY <1>1, <1>2, <1>5
    <2>2. i \in 1..n /\ j \in 1..n /\ t[i] = s[i] /\ t[j] = s[j]
      BY <1>3, <1>5, <2>1
    <2> QED
      BY <1>1, <2>2 DEF Ascends, InsertedAt
  <1>6. CASE j = q
    BY <1>1, <1>2, <1>3, <1>6
  <1>7. CASE q < j
    <2>1. t[j].date \in Nat /\ f.date < t[j].date /\ j - 1 \in 1..n /\ t[j] = s[j - 1]
      BY <1>4, <1>7
    <2>2. CASE i < q
      <3>1. t[i].date \in Nat /\ t[i].date <= f.date
        BY <1>3, <2>2
      <3> QED
        BY <1>2, <2>1, <3>1
    <2>3. CASE i = q
      BY <1>2, <2>1, <2>3
    <2>4. CASE q < i
      <3>1. PICK k, l : k = i - 1 /\ l = j - 1
        OBVIOUS
      <3>2. k \in 1..n /\ t[i] = s[k]
        BY <1>4, <2>4, <3>1
      <3>3. l \in 1..n /\ t[j] = s[l] /\ k < l
        BY <1>1, <1>2, <2>1, <3>1
      <3> QED
        BY <3>2, <3>3 DEF Ascends, InsertedAt
    <2> QED
      BY <1>2, <2>2, <2>3, <2>4
  <1> QED
    BY <1>2, <1>5, <1>6, <1>7

\* Where place k goes when something is inserted at place q.
Shift(q, k) == IF k < q THEN k ELSE k + 1

LEMMA ShiftRules ==
  ASSUME NEW n \in Nat, NEW q \in 1..(n + 1), NEW k \in 1..n
  PROVE  /\ Shift(q, k) \in 1..(n + 1) /\ Shift(q, k) # q
         /\ k < q => Shift(q, k) = k /\ Shift(q, k) < q
         /\ q <= k => Shift(q, k) = k + 1
  BY DEF Shift

LEMMA ShiftOrders ==
  ASSUME NEW n \in Nat, NEW q \in 1..(n + 1), NEW k \in 1..n, NEW l \in 1..n
  PROVE  /\ Shift(q, k) = Shift(q, l) => k = l
         /\ k < l => Shift(q, k) < Shift(q, l)
  BY DEF Shift

\* The places of the fixings after one more is inserted.
LEMMA InsertedPlaces ==
  ASSUME NEW q, NEW n, NEW s, NEW t, NEW f, NEW a, NEW b, NEW place,
         InsertedAt(q, n, s, t, f), PushedTo(n, a, b, f), Places(place, s, a)
  PROVE  \E moved : Places(moved, t, b)
  <1> DEFINE moved == [i \in 1..(n + 1) |->
                         IF i = n + 1 THEN q ELSE Shift(q, place[i])]
  <1>0. n \in Nat /\ q \in 1..(n + 1) /\ n + 1 \in 1..(n + 1)
    BY DEF InsertedAt
  <1>1. /\ \A i \in 1..n : place[i] \in 1..n
        /\ \A i, j \in 1..n : place[i] = place[j] => i = j
        /\ \A k \in 1..n : \E i \in 1..n : place[i] = k
        /\ \A i \in 1..n : s[place[i]] = a[i]
        /\ \A i, j \in 1..n : i < j /\ a[i].date = a[j].date => place[i] < place[j]
    BY DEF Places, PushedTo, Bijection, Injection, Surjection, IsInjective
  <1>2. \A i \in 1..(n + 1) : i = n + 1 \/ i \in 1..n
    BY <1>0
  <1>3. ASSUME NEW i \in 1..n
        PROVE  moved[i] = Shift(q, place[i]) /\ i \in 1..(n + 1) /\ i # n + 1
    BY <1>0, <1>3
  <1>4. moved[n + 1] = q
    BY <1>0
  <1>5. ASSUME NEW i \in 1..n
        PROVE  moved[i] \in 1..(n + 1) /\ moved[i] # q
    <2>1. place[i] \in 1..n
      BY <1>1
    <2>2. Shift(q, place[i]) \in 1..(n + 1) /\ Shift(q, place[i]) # q
      BY <1>0, <2>1, ShiftRules
    <2> QED
      BY <1>3, <2>2
  <1>6. moved \in [1..(n + 1) -> 1..(n + 1)]
    <2>1. \A i \in 1..(n + 1) : moved[i] \in 1..(n + 1)
      BY <1>0, <1>2, <1>4, <1>5
    <2> QED
      BY <2>1
  <1> HIDE DEF moved
  <1>7. ASSUME NEW i \in 1..(n + 1), NEW j \in 1..(n + 1), moved[i] = moved[j]
        PROVE  i = j
    <2>1. CASE i \in 1..n /\ j \in 1..n
      <3>1. place[i] \in 1..n /\ place[j] \in 1..n
        BY <1>1, <2>1
      <3>2. Shift(q, place[i]) = Shift(q, place[j])
        BY <1>3, <1>7, <2>1
      <3>3. place[i] = place[j]
        BY <1>0, <3>1, <3>2, ShiftOrders
      <3> QED
        BY <1>1, <2>1, <3>3
    <2> QED
      BY <1>2, <1>4, <1>5, <1>7, <2>1
  <1>8. ASSUME NEW k \in 1..(n + 1)
        PROVE  \E i \in 1..(n + 1) : moved[i] = k
    <2>1. CASE k = q
      BY <1>0, <1>4, <2>1
    <2>2. CASE k < q
      <3>1. k \in 1..n
        BY <1>0, <2>2
      <3>2. PICK i \in 1..n : place[i] = k
        BY <1>1, <3>1
      <3>3. Shift(q, k) = k
        BY <1>0, <2>2, <3>1, ShiftRules
      <3> QED
        BY <1>3, <3>2, <3>3
    <2>3. CASE q < k
      <3>1. PICK l : l = k - 1
        OBVIOUS
      <3>2. l \in 1..n /\ l + 1 = k /\ q <= l
        BY <1>0, <2>3, <3>1
      <3>3. PICK i \in 1..n : place[i] = l
        BY <1>1, <3>2
      <3>4. Shift(q, l) = k
        BY <1>0, <3>2, ShiftRules
      <3> QED
        BY <1>3, <3>3, <3>4
    <2> QED
      BY <1>0, <2>1, <2>2, <2>3
  <1>9. ASSUME NEW i \in 1..n PROVE t[moved[i]] = b[i]
    <2>1. PICK l : l = place[i]
      OBVIOUS
    <2>2. l \in 1..n /\ s[l] = b[i] /\ moved[i] = Shift(q, l)
      BY <1>1, <1>3, <2>1 DEF PushedTo
    <2>3. CASE l < q
      <3>1. t[l] = s[l]
        BY <2>2, <2>3 DEF InsertedAt
      <3>2. Shift(q, l) = l
        BY <1>0, <2>2, <2>3, ShiftRules
      <3> QED
        BY <2>2, <3>1, <3>2
    <2>4. CASE q <= l
      <3>1. t[l + 1] = s[l]
        BY <2>2, <2>4 DEF InsertedAt
      <3>2. Shift(q, l) = l + 1
        BY <1>0, <2>2, <2>4, ShiftRules
      <3> QED
        BY <2>2, <3>1, <3>2
    <2> QED
      BY <1>0, <2>2, <2>3, <2>4
  <1>10. \A i \in 1..(n + 1) : t[moved[i]] = b[i]
    <2>1. t[moved[n + 1]] = b[n + 1]
      BY <1>4 DEF InsertedAt, PushedTo
    <2> QED
      BY <1>2, <1>9, <2>1
  <1>11. ASSUME NEW i \in 1..(n + 1), NEW j \in 1..(n + 1), i < j, b[i].date = b[j].date
         PROVE  moved[i] < moved[j]
    <2>1. i \in 1..n /\ i \in Nat
      BY <1>0, <1>11
    <2>2. b[i] = a[i] /\ place[i] \in 1..n /\ s[place[i]] = a[i]
      BY <1>1, <2>1 DEF PushedTo
    <2>3. moved[i] = Shift(q, place[i])
      BY <1>3, <2>1
    <2>4. CASE j = n + 1
      <3>1. s[place[i]].date = f.date
        BY <1>11, <2>2, <2>4 DEF PushedTo
      <3>2. place[i] < q
        BY <1>0, <2>2, <3>1 DEF InsertedAt
      <3>3. Shift(q, place[i]) < q
        BY <1>0, <2>2, <3>2, ShiftRules
      <3> QED
        BY <1>4, <2>3, <2>4, <3>3
    <2>5. CASE j \in 1..n
      <3>1. b[j] = a[j] /\ place[j] \in 1..n /\ moved[j] = Shift(q, place[j])
        BY <1>1, <1>3, <2>5 DEF PushedTo
      <3>2. a[i].date = a[j].date
        BY <1>11, <2>2, <3>1
      <3>3. place[i] < place[j]
        BY <1>1, <1>11, <2>1, <2>5, <3>2
      <3>4. Shift(q, place[i]) < Shift(q, place[j])
        BY <1>0, <2>2, <3>1, <3>3, ShiftOrders
      <3> QED
        BY <2>3, <3>1, <3>4
    <2> QED
      BY <1>2, <2>4, <2>5
  <1>12. moved \in Bijection(1..(n + 1), 1..(n + 1))
    BY <1>6, <1>7, <1>8 DEF Bijection, Injection, Surjection, IsInjective
  <1>13. DOMAIN b = 1..(n + 1)
    BY DEF PushedTo
  <1> QED
    BY <1>10, <1>11, <1>12, <1>13 DEF Places

\* A fixing inserted into a store that keeps what was added is added to it.
LEMMA InsertedKeeps ==
  ASSUME NEW s, NEW a, Keeps(s, a), NEW f \in Publications
  PROVE  Keeps(Inserted(s, f), Append(a, f))
  <1> DEFINE early == {i \in DOMAIN s : s[i].date <= f.date}
             b == Append(a, f)
  <1>1. /\ s \in Seq(Publications) /\ a \in Seq(Publications) /\ Ascends(s)
        /\ Len(s) = Len(a) /\ f.date \in Nat
    BY FixingsAssumption DEF Keeps
  <1>2. PICK n \in Nat : /\ n = Len(s) /\ DOMAIN s = 1..n /\ DOMAIN a = 1..n
                         /\ \A i \in 1..n : s[i].date \in Nat
    BY <1>1, LenProperties, ElementOfSeq, FixingsAssumption
  <1>3. PICK p : p = Cardinality(early) /\ p \in 0..n /\ early = 1..p
    BY <1>1, <1>2, UpToDateIsPrefix
  <1>4. ASSUME NEW i \in 1..n
        PROVE  /\ i < p + 1 => s[i].date <= f.date
               /\ p + 1 <= i => f.date < s[i].date
    <2>1. i \in early <=> s[i].date <= f.date
      BY <1>2
    <2> HIDE DEF early
    <2>2. i \in 1..p <=> s[i].date <= f.date
      BY <1>3, <2>1
    <2>3. s[i].date \in Nat
      BY <1>2
    <2> QED
      BY <1>1, <1>3, <2>2, <2>3
  <1>5. PICK q, t : q = p + 1 /\ t = InsertAt(s, q, f)
    OBVIOUS
  <1>6. Inserted(s, f) = t
    BY <1>3, <1>5 DEF Inserted
  <1>7. q \in 1..(n + 1)
    BY <1>3, <1>5
  <1>8. /\ t \in Seq(Publications) /\ Len(t) = n + 1 /\ t[q] = f
        /\ \A i \in 1..n : (i < q => t[i] = s[i]) /\ (q <= i => t[i + 1] = s[i])
    <2>1. q \in 1..(Len(s) + 1)
      BY <1>2, <1>7
    <2>2. InsertAtGives(Publications, s, q, f, t)
      BY <1>1, <1>5, <2>1, InsertAtIs
    <2> QED
      BY <1>2, <2>2 DEF InsertAtGives
  <1>9. /\ b \in Seq(Publications) /\ Len(b) = n + 1 /\ b[n + 1] = f
        /\ \A i \in 1..n : b[i] = a[i]
    BY <1>1, <1>2, AppendProperties
  <1> HIDE DEF b, early
  <1>10. DOMAIN t = 1..(n + 1) /\ DOMAIN b = 1..(n + 1)
    BY <1>8, <1>9, LenProperties
  <1>11. InsertedAt(q, n, s, t, f)
    BY <1>1, <1>2, <1>4, <1>5, <1>7, <1>8, <1>10 DEF InsertedAt
  <1>12. PushedTo(n, a, b, f)
    BY <1>2, <1>9, <1>10 DEF PushedTo
  <1>13. Ascends(t)
    BY <1>1, <1>11, InsertedAscends
  <1>14. PICK place : Places(place, s, a)
    BY DEF Keeps
  <1>15. \E moved : Places(moved, t, b)
    BY <1>11, <1>12, <1>14, InsertedPlaces
  <1> QED
    BY <1>6, <1>8, <1>9, <1>13, <1>15 DEF Keeps, b

-----------------------------------------------------------------------------
(* Adjoining periods. *)

\* The growth over some fixings is that over a part times that over the rest.
LEMMA GrowthSplits ==
  ASSUME NEW fixings \in Seq(Publications), NEW C \in SUBSET DOMAIN fixings, NEW A \in SUBSET C
  PROVE  /\ Growth(fixings, C).num \in Int /\ Growth(fixings, C).den \in Int
         /\ Growth(fixings, C).num = Growth(fixings, A).num * Growth(fixings, C \ A).num
         /\ Growth(fixings, C).den = Growth(fixings, A).den * Growth(fixings, C \ A).den
  <1> DEFINE one == RAY * DAY_BASIS
             V == [i \in DOMAIN fixings |-> one + fixings[i].rate * fixings[i].days]
             W == [i \in DOMAIN fixings |-> one]
  <1>1. IsFiniteSet(C)
    BY LenProperties, FS_Interval, FS_Subset
  <1>2. one \in Int
    BY RayAssumption, FixingsAssumption
  <1> HIDE DEF one
  <1>3. ASSUME NEW i \in C PROVE V[i] \in Int /\ W[i] \in Int
    <2>1. fixings[i] \in Publications
      BY LenProperties, ElementOfSeq
    <2>2. PICK r, d : r = fixings[i].rate /\ d = fixings[i].days
      OBVIOUS
    <2>3. r \in Int /\ d \in Int
      BY <2>1, <2>2, FixingsAssumption
    <2>4. r * d \in Int
      BY ONLY <2>3
    <2>5. V[i] = one + r * d /\ W[i] = one
      BY <2>2
    <2> QED
      BY <1>2, <2>4, <2>5
  <1> HIDE DEF V, W
  <1>4. Summable(V, C) /\ Summable(W, C)
    BY <1>1, <1>3 DEF Summable
  <1>5. \A T : Growth(fixings, T).num = ProductOnSet(V, T) /\ Growth(fixings, T).den = ProductOnSet(W, T)
    BY DEF Growth, V, W, one
  <1>6. /\ ProductOnSet(V, C) \in Int /\ ProductOnSet(W, C) \in Int
        /\ ProductOnSet(V, C) = ProductOnSet(V, A) * ProductOnSet(V, C \ A)
        /\ ProductOnSet(W, C) = ProductOnSet(W, A) * ProductOnSet(W, C \ A)
    BY <1>4, ProductRules, ProductSplits
  <1> QED
    BY <1>5, <1>6

\* What reinvesting comes to is the growth of the period.
LEMMA ReinvestedIsGrowth ==
  ASSUME FixingsInv, NEW currency, NEW start, NEW end
  PROVE  LET growth == Growth(StoreOf(currency), get_fixings(currency, start, end))
         IN /\ Reinvested(currency, start, end).num = growth.num
            /\ Reinvested(currency, start, end).den = growth.den
  <1> DEFINE fixings == StoreOf(currency)
             C == get_fixings(currency, start, end)
  <1>1. fixings \in Seq(Publications) /\ C \in SUBSET DOMAIN fixings
    BY EmptySeq DEF StoreOf, get_fixings, FixingsInv, Indices
  <1> HIDE DEF fixings, C
  <1>2. PICK n, d : n = Growth(fixings, C).num /\ d = Growth(fixings, C).den
    OBVIOUS
  <1>3. n \in Int /\ d \in Int
    BY <1>1, <1>2, GrowthSplits
  <1>4. 1 * (n - d) + d = n
    BY ONLY <1>3
  <1>5. /\ Reinvested(currency, start, end).num = 1 * (n - d) + d
        /\ Reinvested(currency, start, end).den = d
    BY <1>2 DEF Reinvested, period_coupon, fixings, C
  <1> QED
    BY <1>2, <1>4, <1>5 DEF fixings, C

\* The fixings of two adjoining periods are those of both together.
LEMMA PeriodsAdjoin ==
  ASSUME FixingsInv, NEW currency, NEW start \in Nat, NEW middle \in Nat, NEW end \in Nat,
         start <= middle, middle <= end
  PROVE  /\ get_fixings(currency, start, middle) \in SUBSET get_fixings(currency, start, end)
         /\ get_fixings(currency, middle, end)
              = get_fixings(currency, start, end) \ get_fixings(currency, start, middle)
  <1>1. StoreOf(currency) \in Seq(Publications)
    BY EmptySeq DEF StoreOf, FixingsInv, Indices
  <1>2. \A i \in DOMAIN StoreOf(currency) : StoreOf(currency)[i].date \in Nat
    BY <1>1, LenProperties, ElementOfSeq, FixingsAssumption
  <1> QED
    BY <1>2 DEF get_fixings, InPeriod

LEMMA PeriodsComposeWhenKept ==
  ASSUME FixingsInv
  PROVE  PeriodsCompose
  <1> DEFINE growth(currency, start, end) ==
               Growth(StoreOf(currency), get_fixings(currency, start, end))
  <1>1. ASSUME NEW currency, NEW start \in Nat, NEW middle \in Nat, NEW end \in Nat,
               start <= middle, middle <= end
        PROVE  /\ growth(currency, start, middle).num * growth(currency, middle, end).num
                    = growth(currency, start, end).num
               /\ growth(currency, start, middle).den * growth(currency, middle, end).den
                    = growth(currency, start, end).den
    <2>1. StoreOf(currency) \in Seq(Publications)
      BY EmptySeq DEF StoreOf, FixingsInv, Indices
    <2>2. PICK C, A : C = get_fixings(currency, start, end) /\ A = get_fixings(currency, start, middle)
      OBVIOUS
    <2>3. C \in SUBSET DOMAIN StoreOf(currency)
      BY <2>2 DEF get_fixings
    <2>4. A \in SUBSET C /\ get_fixings(currency, middle, end) = C \ A
      BY <1>1, <2>2, PeriodsAdjoin
    <2>5. PICK fixings : fixings = StoreOf(currency)
      OBVIOUS
    <2>6. fixings \in Seq(Publications) /\ C \in SUBSET DOMAIN fixings
      BY <2>1, <2>3, <2>5
    <2>7. /\ Growth(fixings, C).num = Growth(fixings, A).num * Growth(fixings, C \ A).num
          /\ Growth(fixings, C).den = Growth(fixings, A).den * Growth(fixings, C \ A).den
      BY ONLY <2>4, <2>6, GrowthSplits
    <2> QED
      BY <2>2, <2>4, <2>5, <2>7
  <1> HIDE DEF growth
  <1>2. ASSUME NEW currency, NEW start, NEW end
        PROVE  /\ Reinvested(currency, start, end).num = growth(currency, start, end).num
               /\ Reinvested(currency, start, end).den = growth(currency, start, end).den
    BY ReinvestedIsGrowth DEF growth
  <1>3. ASSUME NEW currency, NEW start \in Nat, NEW middle \in Nat, NEW end \in Nat,
               start <= middle, middle <= end
        PROVE  /\ Reinvested(currency, start, middle).num * Reinvested(currency, middle, end).num
                    = Reinvested(currency, start, end).num
               /\ Reinvested(currency, start, middle).den * Reinvested(currency, middle, end).den
                    = Reinvested(currency, start, end).den
    <2>1. /\ growth(currency, start, middle).num * growth(currency, middle, end).num
               = growth(currency, start, end).num
          /\ growth(currency, start, middle).den * growth(currency, middle, end).den
               = growth(currency, start, end).den
      BY ONLY <1>1, <1>3
    <2>2. /\ Reinvested(currency, start, middle).num = growth(currency, start, middle).num
          /\ Reinvested(currency, start, middle).den = growth(currency, start, middle).den
      BY ONLY <1>2
    <2>3. /\ Reinvested(currency, middle, end).num = growth(currency, middle, end).num
          /\ Reinvested(currency, middle, end).den = growth(currency, middle, end).den
      BY ONLY <1>2
    <2>4. /\ Reinvested(currency, start, end).num = growth(currency, start, end).num
          /\ Reinvested(currency, start, end).den = growth(currency, start, end).den
      BY ONLY <1>2
    <2> QED
      BY ONLY <2>1, <2>2, <2>3, <2>4
  <1>4. SUFFICES ASSUME NEW currency \in {"USD", "EUR", "GBP"},
                        NEW start \in {f.date : f \in Publications},
                        NEW middle \in {f.date : f \in Publications},
                        NEW end \in {f.date : f \in Publications},
                        start <= middle, middle <= end
                 PROVE  /\ Adjoin(get_fixings(currency, start, middle),
                                  get_fixings(currency, middle, end),
                                  get_fixings(currency, start, end))
                        /\ Compound(Reinvested(currency, start, middle),
                                    Reinvested(currency, middle, end),
                                    Reinvested(currency, start, end))
    BY ZenonT(30) DEF PeriodsCompose
  <1>5. start \in Nat /\ middle \in Nat /\ end \in Nat
    BY FixingsAssumption
  <1>6. Compound(Reinvested(currency, start, middle), Reinvested(currency, middle, end),
                 Reinvested(currency, start, end))
    BY ONLY <1>3, <1>4, <1>5 DEF Compound
  <1>7. Adjoin(get_fixings(currency, start, middle), get_fixings(currency, middle, end),
               get_fixings(currency, start, end))
    <2>1. /\ get_fixings(currency, start, middle) \in SUBSET get_fixings(currency, start, end)
          /\ get_fixings(currency, middle, end)
               = get_fixings(currency, start, end) \ get_fixings(currency, start, middle)
      BY <1>4, <1>5, PeriodsAdjoin
    <2> QED
      BY <2>1 DEF Adjoin
  <1> QED
    BY <1>6, <1>7

-----------------------------------------------------------------------------
(* Coupons. *)

\* The periods of a date, one by one.
LEMMA DuePeriodIs ==
  ASSUME NEW swaps \in Seq(SwapTerms), NEW date, NEW p
  PROVE  p \in DuePeriods(swaps, date)
           <=> /\ p = <<p[1], p[2]>> /\ p[1] \in DOMAIN swaps
               /\ p[2] \in DOMAIN swaps[p[1]].payment_dates
               /\ swaps[p[1]].payment_dates[p[2]] = date
  BY DEF DuePeriods

\* Only finitely many periods pay on a date.
LEMMA DuePeriodsFinite ==
  ASSUME NEW swaps \in Seq(SwapTerms), NEW date
  PROVE  IsFiniteSet(DuePeriods(swaps, date))
  <1> DEFINE all == [k \in DOMAIN swaps |-> {k} \X DOMAIN swaps[k].payment_dates]
             sets == {{k} \X DOMAIN swaps[k].payment_dates : k \in DOMAIN swaps}
  <1>1. IsFiniteSet(DOMAIN swaps)
    BY LenProperties, FS_Interval
  <1>2. all \in Surjection(DOMAIN swaps, sets)
    BY DEF Surjection
  <1>3. IsFiniteSet(sets)
    BY <1>1, <1>2, FS_Surjection
  <1>4. ASSUME NEW k \in DOMAIN swaps
        PROVE  IsFiniteSet({k} \X DOMAIN swaps[k].payment_dates)
    <2>1. swaps[k] \in SwapTerms
      BY LenProperties, ElementOfSeq
    <2>2. PICK d : d = swaps[k].payment_dates /\ d \in Seq(Nat)
      BY <2>1 DEF SwapTerms
    <2>3. IsFiniteSet(DOMAIN d)
      <3>1. DOMAIN d = 1..Len(d) /\ Len(d) \in Int
        BY <2>2, LenProperties
      <3> QED
        BY <3>1, FS_Interval
    <2>4. IsFiniteSet({k} \X DOMAIN d)
      BY <2>3, FS_Singleton, FS_Product
    <2> QED
      BY <2>2, <2>4
  <1>5. \A T \in sets : IsFiniteSet(T)
    BY <1>4
  <1>6. IsFiniteSet(UNION sets)
    BY <1>3, <1>5, FS_UNION
  <1>7. DuePeriods(swaps, date) \in SUBSET (UNION sets)
    BY DEF DuePeriods
  <1> QED
    BY <1>6, <1>7, FS_Subset

\* A forward rate is unsigned, the wrapped one too.
LEMMA ForwardRateUnsigned ==
  ASSUME NEW a \in Nat, NEW b \in Nat, NEW tau \in Nat
  PROVE  forward_rate(a, b, tau) \in Nat
  <1>1. CASE b = 0 \/ tau = 0
    BY <1>1 DEF forward_rate
  <1>2. CASE b # 0 /\ tau # 0
    <2>1. PICK r : r = ray_div(a, b) - RAY
      OBVIOUS
    <2>2. r \in Int
      <3>1. ray_div(a, b) \in Nat
        BY <1>2, RayDivWord
      <3> QED
        BY <2>1, <3>1, RayAssumption
    <2>3. PICK x : x = r % WORD
      OBVIOUS
    <2>4. x \in Int
      BY <2>2, <2>3, WordAssumption
    <2>5. ray_div(x, tau) \in Nat
      BY <1>2, <2>4, RayDivWord
    <2>6. forward_rate(a, b, tau) = ray_div(x, tau)
      BY <1>2, <2>1, <2>3 DEF forward_rate
    <2> QED
      BY <2>5, <2>6
  <1> QED
    BY <1>1, <1>2

\* The two factors of a period are factors of the curve or one.
LEMMA FactorsInRange ==
  ASSUME NEW dfs \in Seq(1..RAY), dfs # <<>>, NEW i \in Nat \ {0}
  PROVE  StartFactor(i, dfs) \in Nat /\ EndFactor(i, dfs) \in Nat
  <1>1. PICK n : n = Len(dfs)
    OBVIOUS
  <1>2. n \in Nat \ {0} /\ \A k \in 1..n : dfs[k] \in Nat
    BY <1>1, EmptySeq, ElementOfSeq, RayAssumption
  <1>3. RAY \in Nat /\ dfs[n] \in Nat
    BY <1>2, RayAssumption
  <1>4. i <= n => dfs[i] \in Nat
    BY <1>2
  <1>5. i <= n /\ i # 1 => dfs[i - 1] \in Nat
    BY <1>2
  <1> QED
    BY <1>1, <1>2, <1>3, <1>4, <1>5 DEF StartFactor, EndFactor

\* What a coupon is: sides and reference of its swap, amounts as unsigned
\* as the code computes them.
CouponOf(c, swap) ==
  /\ c.payer = swap.payer /\ c.receiver = swap.receiver /\ c.swap_ref = swap.id
  /\ c.fixed_amount \in Nat /\ c.floating_amount \in Nat /\ c.net \in Int

LEMMA CouponTyped ==
  ASSUME NEW swaps \in Seq(SwapTerms), NEW date \in Nat,
         NEW dfs \in Seq(1..RAY), dfs # <<>>, ~Disordered(swaps, date),
         NEW p \in DuePeriods(swaps, date)
  PROVE  CouponOf(Coupon(swaps[p[1]], p[2], dfs), swaps[p[1]])
  <1>1. PICK k, i : k = p[1] /\ i = p[2]
    OBVIOUS
  <1>2. PICK swap : swap = swaps[k]
    OBVIOUS
  <1>3. swap \in SwapTerms /\ i \in DOMAIN swap.payment_dates /\ swap.payment_dates[i] = date
    BY <1>1, <1>2, DuePeriodIs, LenProperties, ElementOfSeq
  <1>4. PICK d : d = swap.payment_dates
    OBVIOUS
  <1>5. d \in Seq(Nat) /\ i \in 1..Len(d) /\ Len(d) \in Nat /\ i \in Nat \ {0}
    <2>1. d \in Seq(Nat)
      BY <1>3, <1>4 DEF SwapTerms
    <2>2. DOMAIN d = 1..Len(d) /\ Len(d) \in Nat
      BY <2>1, LenProperties
    <2> QED
      BY <1>3, <1>4, <2>1, <2>2
  <1>6. PICK from : from = StartOf(swap, i)
    OBVIOUS
  <1>7. from \in Nat
    <2>1. swap.settlement \in Nat
      BY <1>3 DEF SwapTerms
    <2>2. i # 1 => i - 1 \in 1..Len(d)
      BY <1>5
    <2>3. i # 1 => d[i - 1] \in Nat
      BY <1>5, <2>2, ElementOfSeq
    <2> QED
      BY <1>4, <1>6, <2>1, <2>3 DEF StartOf
  <1>8. from <= date
    BY <1>1, <1>2, <1>6, <1>7 DEF Disordered
  <1>9. PICK year : year = YearOf[swap.currency] /\ year \in Nat \ {0}
    BY <1>3, SettlementAssumption DEF SwapTerms
  <1>10. PICK tau : tau = TauOf(swap, i)
    OBVIOUS
  <1>11. tau \in Nat
    <2>1. PICK x : x = (date - from) * RAY
      OBVIOUS
    <2>2. x \in Int /\ year * 0 <= x
      <3>1. PICK length : length = date - from /\ length \in Nat
        BY <1>7, <1>8
      <3>2. length * RAY \in Nat
        BY <3>1, RayAssumption
      <3> QED
        BY <1>9, <2>1, <3>1, <3>2
    <2>3. x \div year \in Int /\ 0 <= x \div year
      BY <1>9, <2>2, DivBounds, DivBetween
    <2>4. tau = x \div year
      BY <1>3, <1>6, <1>9, <1>10, <2>1 DEF TauOf, ActualFraction
    <2> QED
      BY <2>3, <2>4
  <1>12. PICK rate : rate = forward_rate(StartFactor(i, dfs), EndFactor(i, dfs), tau)
    OBVIOUS
  <1>13. rate \in Nat
    BY <1>5, <1>11, <1>12, FactorsInRange, ForwardRateUnsigned
  <1>14. PICK fixed, floating :
           /\ fixed = swap.notional * swap.fixed_rate * tau
           /\ floating = swap.notional * rate * tau
    OBVIOUS
  <1>15. fixed \in Nat /\ floating \in Nat
    <2>1. swap.notional \in Nat /\ swap.fixed_rate \in Nat
      BY <1>3 DEF SwapTerms
    <2>2. PICK n, r : n = swap.notional /\ r = swap.fixed_rate
      OBVIOUS
    <2>3. n * r * tau \in Nat /\ n * rate * tau \in Nat
      BY ONLY <1>11, <1>13, <2>1, <2>2
    <2> QED
      BY <1>14, <2>2, <2>3
  <1>16. fixed - floating \in Int
    BY <1>15
  <1>17. Coupon(swap, i, dfs) =
           [swap_ref |-> swap.id, payer |-> swap.payer, receiver |-> swap.receiver,
            fixed_amount |-> fixed, floating_amount |-> floating, net |-> fixed - floating]
    BY <1>10, <1>12, <1>14 DEF Coupon
  <1> QED
    BY <1>1, <1>2, <1>15, <1>16, <1>17 DEF CouponOf

-----------------------------------------------------------------------------
(* Netting. *)

\* What netting needs of the coupons.
Nettable(due) ==
  /\ IsFiniteSet(DOMAIN due)
  /\ \A p \in DOMAIN due : due[p].payer \in Nat /\ due[p].receiver \in Nat /\ due[p].net \in Int

\* The coupons between two banks, and what one of them owes on those.
Between(due, a, b) == {p \in DOMAIN due : {due[p].payer, due[p].receiver} = {a, b}}

Owed(due, between, a) ==
  SumFunctionOnSet([p \in between |-> IF due[p].payer = a THEN due[p].net ELSE -due[p].net],
                   between)

\* A pair names its two banks in ascending order.
LEMMA PairIsOrdered ==
  ASSUME NEW c, c.payer \in Nat, c.receiver \in Nat
  PROVE  /\ PairOf(c) = <<PairOf(c)[1], PairOf(c)[2]>>
         /\ {PairOf(c)[1], PairOf(c)[2]} = {c.payer, c.receiver}
         /\ PairOf(c)[1] \in Nat /\ PairOf(c)[2] \in Nat /\ PairOf(c)[1] <= PairOf(c)[2]
  BY DEF PairOf

\* The pair of a coupon is told by its two sides.
LEMMA PairIsSides ==
  ASSUME NEW c, c.payer \in Nat, c.receiver \in Nat, NEW lo \in Nat, NEW hi \in Nat, lo < hi
  PROVE  PairOf(c) = <<lo, hi>> <=> {c.payer, c.receiver} = {lo, hi}
  <1>1. PICK x, y : x = c.payer /\ y = c.receiver /\ x \in Nat /\ y \in Nat
    OBVIOUS
  <1>2. PairOf(c) = IF x < y THEN <<x, y>> ELSE <<y, x>>
    BY <1>1 DEF PairOf
  <1>3. ASSUME {x, y} = {lo, hi} PROVE PairOf(c) = <<lo, hi>>
    <2>1. (x = lo /\ y = hi) \/ (x = hi /\ y = lo)
      BY <1>3
    <2> QED
      BY <1>2, <2>1
  <1>4. ASSUME PairOf(c) = <<lo, hi>> PROVE {x, y} = {lo, hi}
    BY <1>2, <1>4
  <1> QED
    BY <1>1, <1>3, <1>4

\* What is owed is a whole amount, nothing when no coupon is due, and the
\* opposite seen from the other side.
LEMMA OwedRules ==
  ASSUME NEW due, Nettable(due), NEW a, NEW b, a # b
  PROVE  LET between == Between(due, a, b)
         IN /\ Owed(due, between, a) \in Int
            /\ between = {} => Owed(due, between, a) = 0
            /\ Owed(due, between, b) = -Owed(due, between, a)
  <1> DEFINE between == Between(due, a, b)
             V == [p \in between |-> IF due[p].payer = a THEN due[p].net ELSE -due[p].net]
             W == [p \in between |-> IF due[p].payer = b THEN due[p].net ELSE -due[p].net]
  <1>1. IsFiniteSet(between) /\ \A p \in between : due[p].net \in Int
    BY FS_Subset DEF Nettable, Between
  <1>2. \A p \in between : V[p] \in Int /\ W[p] = -V[p]
    <2>1. SUFFICES ASSUME NEW p \in between PROVE V[p] \in Int /\ W[p] = -V[p]
      OBVIOUS
    <2>2. PICK x : x = due[p].net /\ x \in Int
      BY <1>1
    <2>3. due[p].payer = a \/ due[p].payer = b
      BY DEF Between
    <2>4. CASE due[p].payer = a
      <3>1. V[p] = x /\ W[p] = -x
        BY <2>2, <2>4
      <3> QED
        BY <2>2, <3>1
    <2>5. CASE due[p].payer = b
      <3>1. V[p] = -x /\ W[p] = x
        BY <2>2, <2>5
      <3> QED
        BY <2>2, <3>1
    <2> QED
      BY <2>3, <2>4, <2>5
  <1>3. Owed(due, between, a) = SumFunctionOnSet(V, between)
        /\ Owed(due, between, b) = SumFunctionOnSet(W, between)
    BY DEF Owed
  <1> HIDE DEF between, V, W
  <1>4. Summable(V, between)
    BY <1>1, <1>2 DEF Summable
  <1>5. SumFunctionOnSet(V, between) \in Int /\ (between = {} => SumFunctionOnSet(V, between) = 0)
    BY <1>4, SumRules
  <1>6. SumFunctionOnSet(W, between) = -SumFunctionOnSet(V, between)
    BY <1>2, <1>4, SumNegated
  <1> QED
    BY <1>3, <1>5, <1>6 DEF between

\* What the instruction of two banks says.
InstructionSays(x, due, lo, hi) ==
  LET between == Between(due, lo, hi)
      net == Owed(due, between, lo)
  IN /\ net >= 0 => x.payer = lo /\ x.receiver = hi /\ x.net_amount = net
     /\ ~(net >= 0) => x.payer = hi /\ x.receiver = lo /\ x.net_amount = -net
     /\ x.swap_refs = [p \in between |-> due[p].swap_ref]

LEMMA InstructionIs ==
  ASSUME NEW due, Nettable(due), NEW swaps, NEW lo \in Nat, NEW hi \in Nat, lo < hi
  PROVE  InstructionSays(Instruction(<<lo, hi>>, due, swaps), due, lo, hi)
  <1>1. \A p \in DOMAIN due : PairOf(due[p]) = <<lo, hi>> <=> {due[p].payer, due[p].receiver} = {lo, hi}
    BY PairIsSides DEF Nettable
  <1>2. {p \in DOMAIN due : PairOf(due[p]) = <<lo, hi>>} = Between(due, lo, hi)
    BY <1>1 DEF Between
  <1> QED
    BY <1>2 DEF Instruction, InstructionSays, Owed

\* An instruction passes between the banks of its pair.
LEMMA InstructionSides ==
  ASSUME NEW pair, NEW due, NEW swaps
  PROVE  LET x == Instruction(pair, due, swaps)
         IN {x.payer, x.receiver} = {pair[1], pair[2]}
  BY Zenon DEF Instruction

\* The amount of an instruction is whole, of a bank with itself too.
LEMMA NetAmountIsInt ==
  ASSUME NEW pair, NEW due, Nettable(due), NEW swaps
  PROVE  Instruction(pair, due, swaps).net_amount \in Int
  <1> DEFINE own == {p \in DOMAIN due : PairOf(due[p]) = pair}
             V == [p \in own |-> IF due[p].payer = pair[1] THEN due[p].net ELSE -due[p].net]
             net == SumFunctionOnSet(V, own)
  <1>1. IsFiniteSet(own) /\ \A p \in own : due[p].net \in Int
    BY FS_Subset DEF Nettable
  <1>2. \A p \in own : V[p] \in Int
    BY <1>1
  <1>3. Instruction(pair, due, swaps).net_amount = IF net >= 0 THEN net ELSE -net
    BY DEF Instruction
  <1> HIDE DEF own, V
  <1>4. net \in Int
    BY <1>1, <1>2, SumRules DEF Summable
  <1> HIDE DEF net
  <1> QED
    BY <1>3, <1>4

\* The instructions between two banks: theirs, when coupons are due between
\* them and it is worth paying.
PaidBetween(xs, a, b) == {x \in xs : {x.payer, x.receiver} = {a, b}}

LEMMA NettedPays ==
  ASSUME NEW due, Nettable(due), NEW swaps, NEW lo \in Nat, NEW hi \in Nat, lo < hi
  PROVE  LET x == Instruction(<<lo, hi>>, due, swaps)
         IN PaidBetween(Netted(due, swaps), lo, hi)
              = {y \in {x} : Between(due, lo, hi) # {} /\ WorthPaying(x)}
  <1>1. PICK x : x = Instruction(<<lo, hi>>, due, swaps)
    OBVIOUS
  <1>2. ASSUME NEW p \in DOMAIN due
        PROVE  /\ PairOf(due[p]) = <<lo, hi>> <=> p \in Between(due, lo, hi)
               /\ LET y == Instruction(PairOf(due[p]), due, swaps)
                  IN {y.payer, y.receiver} = {due[p].payer, due[p].receiver}
    <2>1. due[p].payer \in Nat /\ due[p].receiver \in Nat
      BY DEF Nettable
    <2>2. PairOf(due[p]) = <<lo, hi>> <=> {due[p].payer, due[p].receiver} = {lo, hi}
      BY <2>1, PairIsSides
    <2>3. {PairOf(due[p])[1], PairOf(due[p])[2]} = {due[p].payer, due[p].receiver}
      BY <2>1, PairIsOrdered
    <2> QED
      BY <2>2, <2>3, InstructionSides DEF Between
  <1>3. ASSUME NEW y \in PaidBetween(Netted(due, swaps), lo, hi)
        PROVE  y = x /\ Between(due, lo, hi) # {} /\ WorthPaying(x)
    <2>1. /\ y \in {Instruction(PairOf(due[p]), due, swaps) : p \in DOMAIN due} /\ WorthPaying(y)
          /\ {y.payer, y.receiver} = {lo, hi}
      BY DEF PaidBetween, Netted
    <2>2. PICK p \in DOMAIN due : y = Instruction(PairOf(due[p]), due, swaps)
      BY <2>1
    <2>3. {due[p].payer, due[p].receiver} = {lo, hi}
      BY <1>2, <2>1, <2>2
    <2>4. p \in Between(due, lo, hi)
      BY <2>3 DEF Between
    <2>5. y = x
      BY <1>1, <1>2, <2>2, <2>4
    <2> QED
      BY <2>1, <2>4, <2>5
  <1>4. ASSUME Between(due, lo, hi) # {}, WorthPaying(x)
        PROVE  x \in PaidBetween(Netted(due, swaps), lo, hi)
    <2>1. PICK p \in DOMAIN due : p \in Between(due, lo, hi)
      BY <1>4 DEF Between
    <2>2. x = Instruction(PairOf(due[p]), due, swaps)
      BY <1>1, <1>2, <2>1
    <2>3. x \in {Instruction(PairOf(due[q]), due, swaps) : q \in DOMAIN due}
      BY <2>2
    <2>4. {x.payer, x.receiver} = {lo, hi}
      BY <1>2, <2>1, <2>2 DEF Between
    <2> QED
      BY <1>4, <2>3, <2>4 DEF PaidBetween, Netted
  <1>5. PaidBetween(Netted(due, swaps), lo, hi)
          = {y \in {x} : Between(due, lo, hi) # {} /\ WorthPaying(x)}
    BY <1>3, <1>4
  <1> QED
    BY <1>1, <1>5

\* Too little to be paid is a whole amount.
LEMMA DustIs == DUST \in Nat
  <1>1. PICK x : x = RAY * RAY /\ x \in Nat
    BY RayAssumption
  <1>2. x \div 100 \in Nat
    BY <1>1
  <1> QED
    BY <1>1, <1>2 DEF DUST

\* What NetsConserved says of two banks, seen from the first.
Conserved(due, xs, a, b) ==
  LET between == Between(due, a, b)
      owed == Owed(due, between, a)
      paid == PaidBetween(xs, a, b)
  IN /\ Cardinality(paid) <= 1
     /\ paid = {} => -DUST <= owed /\ owed <= DUST
     /\ \A x \in paid :
          /\ owed = IF x.payer = a THEN x.net_amount ELSE -x.net_amount
          /\ x.swap_refs = [p \in between |-> due[p].swap_ref]

LEMMA ConservedFromBelow ==
  ASSUME NEW due, Nettable(due), NEW swaps, NEW lo \in Nat, NEW hi \in Nat, lo < hi
  PROVE  Conserved(due, Netted(due, swaps), lo, hi) /\ Conserved(due, Netted(due, swaps), hi, lo)
  <1>1. PICK x : x = Instruction(<<lo, hi>>, due, swaps) /\ InstructionSays(x, due, lo, hi)
    BY InstructionIs
  <1>2. PICK between, net : between = Between(due, lo, hi) /\ net = Owed(due, between, lo)
    OBVIOUS
  <1>3. PICK paid : paid = PaidBetween(Netted(due, swaps), lo, hi)
    OBVIOUS
  <1>4. paid = {y \in {x} : between # {} /\ WorthPaying(x)}
    BY <1>1, <1>2, <1>3, NettedPays
  <1>5. /\ net \in Int /\ (between = {} => net = 0)
        /\ Owed(due, between, hi) = -net
    BY <1>2, OwedRules
  <1>6. Between(due, hi, lo) = between /\ PaidBetween(Netted(due, swaps), hi, lo) = paid
    <2>1. {lo, hi} = {hi, lo}
      OBVIOUS
    <2> QED
      BY <1>2, <1>3, <2>1 DEF Between, PaidBetween
  <1>7. /\ net >= 0 => x.payer = lo /\ x.net_amount = net
        /\ ~(net >= 0) => x.payer = hi /\ x.net_amount = -net
        /\ x.swap_refs = [p \in between |-> due[p].swap_ref]
    BY <1>1, <1>2 DEF InstructionSays
  <1>8. Cardinality(paid) <= 1
    <2>1. paid = {} \/ paid = {x}
      BY <1>4
    <2>2. Cardinality(paid) = 0 \/ Cardinality(paid) = 1
      BY <2>1, FS_EmptySet, FS_Singleton, Zenon
    <2> QED
      BY <2>2
  <1>9. ASSUME paid = {}
        PROVE  -DUST <= net /\ net <= DUST /\ -DUST <= -net /\ -net <= DUST
    <2>1. between = {} \/ ~(x.net_amount > DUST)
      BY <1>4, <1>9 DEF WorthPaying
    <2> QED
      BY <1>5, <1>7, <2>1, DustIs
  <1>10. ASSUME NEW y \in paid
         PROVE  /\ net = IF y.payer = lo THEN y.net_amount ELSE -y.net_amount
                /\ -net = IF y.payer = hi THEN y.net_amount ELSE -y.net_amount
                /\ y.swap_refs = [p \in between |-> due[p].swap_ref]
    <2>1. y = x
      BY <1>4
    <2> QED
      BY <1>5, <1>7, <2>1
  <1>11. Conserved(due, Netted(due, swaps), lo, hi)
    BY <1>2, <1>3, <1>8, <1>9, <1>10 DEF Conserved
  <1>12. Conserved(due, Netted(due, swaps), hi, lo)
    BY <1>5, <1>6, <1>8, <1>9, <1>10 DEF Conserved
  <1> QED
    BY <1>11, <1>12

-----------------------------------------------------------------------------
(* The inductive invariant.  NetsConserved speaks of the coupons and the   *)
(* instructions of the last call; that they are what the call computes     *)
(* from its arguments is what a step keeps, and the lemmas above say what  *)
(* follows from it.                                                        *)

\* What a call that settles leaves behind.
SettledAsComputed ==
  /\ asked.swaps \in Books /\ asked.date \in Nat
  /\ ~Disordered(asked.swaps, asked.date)
  /\ \E dfs \in Seq(1..RAY) : dfs # <<>> /\ coupons = CouponsDue(asked.swaps, asked.date, dfs)
  /\ instructions = Netted(coupons, asked.swaps)

SettlementInv ==
  /\ asked.swaps \in Books \union {<<>>}
  /\ result \in {"none", "settled", "no curve", "panicked"}
  /\ result # "settled" => coupons = <<>> /\ instructions = {}
  /\ result = "settled" => SettledAsComputed

CouponInv == FixingsInv /\ SettlementInv

LEMMA CouponInitial == CouponInit => CouponInv
  <1>1. SUFFICES ASSUME CouponInit PROVE CouponInv
    OBVIOUS
  <1>2. SettlementInv
    BY <1>1 DEF CouponInit, SettlementInit, SettlementInv
  <1>3. /\ store = [x \in Indices |-> <<>>] /\ added = [x \in Indices |-> <<>>]
    BY <1>1 DEF CouponInit, FixingsInit
  <1>4. store \in [Indices -> Seq(Publications)] /\ added \in [Indices -> Seq(Publications)]
    BY <1>3, EmptySeq
  <1>5. ASSUME NEW x \in Indices PROVE Keeps(store[x], added[x])
    <2>1. store[x] = <<>> /\ added[x] = <<>>
      BY <1>3
    <2>2. DOMAIN <<>> = {} /\ <<>> \in Seq(Publications)
      OBVIOUS
    <2>3. Places(<<>>, <<>>, <<>>)
      BY <2>2 DEF Places, Bijection, Injection, Surjection, IsInjective
    <2> QED
      BY <2>1, <2>2, <2>3 DEF Keeps, Ascends
  <1>6. FixingsInv
    BY <1>4, <1>5, KeptIsKeeps DEF FixingsInv
  <1> QED
    BY <1>2, <1>6 DEF CouponInv

\* A published fixing is kept.
LEMMA AddKeeps ==
  ASSUME FixingsInv, NEW x \in Indices, NEW f \in Publications, AddFixing(x, f)
  PROVE  FixingsInv'
  <1>1. /\ store' = [store EXCEPT ![x] = Inserted(store[x], f)]
        /\ added' = [added EXCEPT ![x] = Append(added[x], f)]
    BY DEF AddFixing
  <1>2. /\ store \in [Indices -> Seq(Publications)]
        /\ added \in [Indices -> Seq(Publications)]
        /\ \A y \in Indices : Keeps(store[y], added[y])
    BY KeptIsKeeps DEF FixingsInv
  <1>3. Keeps(Inserted(store[x], f), Append(added[x], f))
    BY <1>2, InsertedKeeps
  <1>4. Inserted(store[x], f) \in Seq(Publications) /\ Append(added[x], f) \in Seq(Publications)
    BY <1>3 DEF Keeps
  <1>5. /\ store' \in [Indices -> Seq(Publications)]
        /\ added' \in [Indices -> Seq(Publications)]
    BY <1>1, <1>2, <1>4
  <1>6. \A y \in Indices : Keeps(store'[y], added'[y])
    BY <1>1, <1>2, <1>3
  <1>7. (FixingsKept <=> \A y \in Indices : Keeps(store[y], added[y]))'
    BY <1>5 DEF FixingsKept, Keeps, Ascends, Places
  <1> QED
    BY <1>5, <1>6, <1>7 DEF FixingsInv

\* A call that settles leaves what it computed.
LEMMA SettleComputes ==
  ASSUME NEW swaps \in Books, NEW date \in PaymentDates, NEW rates \in RateCurves,
         Settle(swaps, date, rates)
  PROVE  SettlementInv'
  <1>1. /\ swaps \in Seq(SwapTerms) /\ date \in Nat /\ rates \in Seq(Nat)
    BY SettlementAssumption
  <1>2. asked' = [swaps |-> swaps, date |-> date, rates |-> rates]
    BY DEF Settle
  <1>3. CASE result' # "settled"
    <2>1. result' \in {"no curve", "panicked"} /\ coupons' = <<>> /\ instructions' = {}
      BY <1>3 DEF Settle
    <2>2. asked'.swaps \in Books
      BY <1>2
    <2> QED
      BY <1>3, <2>1, <2>2 DEF SettlementInv
  <1>4. CASE result' = "settled"
    <2>1. PICK dfs : dfs = bootstrap_annual(rates).dfs
      OBVIOUS
    <2>2. /\ bootstrap_annual(rates).outcome = "Ok" /\ ~Disordered(swaps, date)
          /\ coupons' = CouponsDue(swaps, date, dfs)
          /\ instructions' = Netted(coupons', swaps)
      BY <1>4, <2>1 DEF Settle
    <2>3. dfs \in Seq(1..RAY) /\ dfs # <<>>
      <3>1. rates # <<>> /\ dfs \in Seq(1..RAY) /\ Len(dfs) = Len(rates)
        BY <1>1, <2>1, <2>2, AnnualFactors
      <3> QED
        BY <1>1, <3>1, EmptySeq
    <2>4. asked'.swaps = swaps /\ asked'.date = date
      BY <1>2
    <2>5. SettledAsComputed'
      BY <1>1, <2>2, <2>3, <2>4 DEF SettledAsComputed
    <2> QED
      BY <1>4, <2>4, <2>5 DEF SettlementInv
  <1> QED
    BY <1>3, <1>4

LEMMA CouponStep == CouponInv /\ [CouponNext]_<<fixingVars, settlementVars>> => CouponInv'
  <1>1. SUFFICES ASSUME CouponInv, [CouponNext]_<<fixingVars, settlementVars>>
                 PROVE  CouponInv'
    OBVIOUS
  <1>2. ASSUME UNCHANGED settlementVars PROVE SettlementInv'
    BY <1>1, <1>2 DEF CouponInv, SettlementInv, SettledAsComputed, settlementVars
  <1>3. ASSUME UNCHANGED fixingVars PROVE FixingsInv'
    BY <1>1, <1>3 DEF CouponInv, FixingsInv, FixingsKept, fixingVars
  <1>4. ASSUME NEW x \in Indices, NEW f \in Publications, Publish(x, f) PROVE CouponInv'
    BY <1>1, <1>2, <1>4, AddKeeps DEF CouponInv, Publish
  <1>5. ASSUME NEW swaps \in Books, NEW date \in PaymentDates, NEW rates \in RateCurves,
               Settle(swaps, date, rates)
        PROVE  CouponInv'
    <2>1. UNCHANGED fixingVars
      BY <1>5 DEF Settle
    <2> QED
      BY <1>3, <1>5, <2>1, SettleComputes DEF CouponInv
  <1>6. CASE UNCHANGED <<fixingVars, settlementVars>>
    BY <1>2, <1>3, <1>6 DEF CouponInv
  <1> QED
    BY <1>1, <1>4, <1>5, <1>6 DEF CouponNext

THEOREM CouponInvariance == CouponSpec => []CouponInv
  BY CouponInitial, CouponStep, PTL DEF CouponSpec

-----------------------------------------------------------------------------
(* What follows. *)

\* The coupons of a call that settled.
LEMMA SettledCoupons ==
  ASSUME SettledAsComputed
  PROVE  /\ asked.swaps \in Seq(SwapTerms)
         /\ DOMAIN coupons = DuePeriods(asked.swaps, asked.date)
         /\ \A p \in DOMAIN coupons : /\ p[1] \in DOMAIN asked.swaps
                                      /\ asked.swaps[p[1]] \in SwapTerms
                                      /\ CouponOf(coupons[p], asked.swaps[p[1]])
         /\ Nettable(coupons)
  <1>1. PICK swaps, date : swaps = asked.swaps /\ date = asked.date
    OBVIOUS
  <1>2. PICK dfs \in Seq(1..RAY) : dfs # <<>> /\ coupons = CouponsDue(swaps, date, dfs)
    BY <1>1 DEF SettledAsComputed
  <1>3. swaps \in Seq(SwapTerms) /\ date \in Nat /\ ~Disordered(swaps, date)
    BY <1>1, SettlementAssumption DEF SettledAsComputed
  <1>4. /\ DOMAIN coupons = DuePeriods(swaps, date)
        /\ \A p \in DOMAIN coupons : coupons[p] = Coupon(swaps[p[1]], p[2], dfs)
    BY <1>2 DEF CouponsDue
  <1>5. ASSUME NEW p \in DOMAIN coupons
        PROVE  /\ p[1] \in DOMAIN swaps /\ swaps[p[1]] \in SwapTerms
               /\ CouponOf(coupons[p], swaps[p[1]])
    <2>1. p \in DuePeriods(swaps, date)
      BY <1>4
    <2>2. CouponOf(Coupon(swaps[p[1]], p[2], dfs), swaps[p[1]])
      BY <1>2, <1>3, <2>1, CouponTyped
    <2>3. PICK k : k = p[1] /\ k \in DOMAIN swaps
      BY <1>3, <2>1, DuePeriodIs
    <2>4. swaps[k] \in SwapTerms
      BY <1>3, <2>3, LenProperties, ElementOfSeq
    <2> QED
      BY <1>4, <2>2, <2>3, <2>4
  <1>6. IsFiniteSet(DOMAIN coupons)
    BY <1>3, <1>4, DuePeriodsFinite
  <1>7. \A p \in DOMAIN coupons : /\ coupons[p].payer \in Nat /\ coupons[p].receiver \in Nat
                                  /\ coupons[p].net \in Int
    BY <1>5, SettlementAssumption DEF CouponOf, SwapTerms
  <1> QED
    BY <1>1, <1>3, <1>4, <1>5, <1>6, <1>7 DEF Nettable

\* The store and what a call returned have their types: fixed coupons are not
\* negative whatever the dates, since the call panics at a period that ends
\* before it starts (settlement.rs:65, daycount.rs:16).
THEOREM CouponTypeCorrect == CouponSpec => []CouponTypeOK
  <1>1. CouponInv => CouponTypeOK
    <2>1. SUFFICES ASSUME CouponInv PROVE CouponTypeOK
      OBVIOUS
    <2>2. FixingsInv /\ SettlementInv
      BY <2>1 DEF CouponInv
    <2>3. ASSUME NEW x \in Indices PROVE Range(store[x]) \subseteq Publications
      <3>1. store[x] \in Seq(Publications)
        BY <2>2 DEF FixingsInv
      <3> QED
        BY <3>1, LenProperties, ElementOfSeq DEF Range
    <2>4. CASE result # "settled"
      <3>1. coupons = <<>> /\ instructions = {}
        BY <2>2, <2>4 DEF SettlementInv
      <3>2. DOMAIN coupons = {}
        BY <3>1
      <3> QED
        BY <2>2, <2>3, <3>1, <3>2 DEF CouponTypeOK, SettlementInv
    <2>5. CASE result = "settled"
      <3>1. SettledAsComputed
        BY <2>2, <2>5 DEF SettlementInv
      <3>2. \A p \in DOMAIN coupons : /\ coupons[p].fixed_amount \in Nat
                                      /\ coupons[p].floating_amount \in Nat
                                      /\ coupons[p].net \in Int
        BY <3>1, SettledCoupons DEF CouponOf
      <3>3. ASSUME NEW x \in instructions
            PROVE  /\ x.net_amount \in Nat \ {0}
                   /\ \E k \in DOMAIN asked.swaps :
                        {x.payer, x.receiver} = {asked.swaps[k].payer, asked.swaps[k].receiver}
        <4>1. PICK p \in DOMAIN coupons :
                x = Instruction(PairOf(coupons[p]), coupons, asked.swaps)
          BY <3>1 DEF SettledAsComputed, Netted
        <4>2. WorthPaying(x)
          BY <3>1 DEF SettledAsComputed, Netted
        <4>3. Nettable(coupons) /\ p[1] \in DOMAIN asked.swaps
              /\ CouponOf(coupons[p], asked.swaps[p[1]])
          BY <3>1, SettledCoupons
        <4>4. PICK pair : pair = PairOf(coupons[p])
          OBVIOUS
        <4>5. {x.payer, x.receiver} = {coupons[p].payer, coupons[p].receiver}
          <5>1. coupons[p].payer \in Nat /\ coupons[p].receiver \in Nat
            BY <4>3 DEF Nettable
          <5>2. {pair[1], pair[2]} = {coupons[p].payer, coupons[p].receiver}
            BY <4>4, <5>1, PairIsOrdered
          <5> QED
            BY <4>1, <4>4, <5>2, InstructionSides
        <4>6. x.net_amount \in Int
          BY <4>1, <4>3, <4>4, NetAmountIsInt
        <4>7. x.net_amount \in Nat \ {0}
          BY <4>2, <4>6, DustIs DEF WorthPaying
        <4>8. {x.payer, x.receiver} = {asked.swaps[p[1]].payer, asked.swaps[p[1]].receiver}
          BY <4>3, <4>5 DEF CouponOf
        <4> QED
          BY <4>3, <4>7, <4>8
      <3> QED
        BY <2>2, <2>3, <3>2, <3>3 DEF CouponTypeOK, SettlementInv
    <2> QED
      BY <2>4, <2>5
  <1> QED
    BY <1>1, CouponInvariance, PTL

\* The store is at all times the sorted, stable rearrangement of what was
\* published, however the dates arrive (add_sofr and add_estr).
THEOREM FixingsAreKept == CouponSpec => []FixingsKept
  <1>1. CouponInv => FixingsKept
    BY DEF CouponInv, FixingsInv
  <1> QED
    BY <1>1, CouponInvariance, PTL

\* Coupons of adjoining periods compound to that of both together
\* (get_fixings and floating_coupon).
THEOREM PeriodsDoCompose == CouponSpec => []PeriodsCompose
  <1>1. CouponInv => PeriodsCompose
    BY PeriodsComposeWhenKept DEF CouponInv
  <1> QED
    BY <1>1, CouponInvariance, PTL

\* Days announced are the days on which coupons arise.
LEMMA UpcomingIsDue ==
  ASSUME NEW swaps \in Seq(SwapTerms), NEW date \in Nat
  PROVE  DuePeriods(swaps, date) # {} <=> date \in upcoming_payments(swaps, date - 1, date)
  <1>1. date \in upcoming_payments(swaps, date - 1, date)
          <=> \E k \in DOMAIN swaps : \E i \in DOMAIN swaps[k].payment_dates :
                swaps[k].payment_dates[i] = date
    <2>1. date - 1 < date /\ date <= date
      OBVIOUS
    <2> QED
      BY <2>1 DEF upcoming_payments, Range
  <1>2. ASSUME NEW k \in DOMAIN swaps, NEW i \in DOMAIN swaps[k].payment_dates,
               swaps[k].payment_dates[i] = date
        PROVE  <<k, i>> \in DuePeriods(swaps, date)
    BY <1>2, DuePeriodIs
  <1>3. ASSUME NEW p \in DuePeriods(swaps, date)
        PROVE  \E k \in DOMAIN swaps : \E i \in DOMAIN swaps[k].payment_dates :
                 swaps[k].payment_dates[i] = date
    BY DuePeriodIs
  <1> QED
    BY <1>1, <1>2, <1>3

\* Between any two banks at most one instruction passes, it pays to the last
\* fraction what the coupons between them come to, and nothing but dust stays
\* unpaid (generate_settlement_instructions).
THEOREM NettingConserves == CouponSpec => []NetsConserved
  <1>1. CouponInv => NetsConserved
    <2>1. SUFFICES ASSUME CouponInv, result = "settled" PROVE NetsConserved
      BY DEF NetsConserved
    <2>2. SettledAsComputed
      BY <2>1 DEF CouponInv, SettlementInv
    <2>3. /\ Nettable(coupons) /\ instructions = Netted(coupons, asked.swaps)
          /\ asked.swaps \in Seq(SwapTerms) /\ asked.date \in Nat
          /\ DOMAIN coupons = DuePeriods(asked.swaps, asked.date)
      BY <2>2, SettledCoupons DEF SettledAsComputed
    <2>4. DOMAIN coupons # {}
            <=> asked.date \in upcoming_payments(asked.swaps, asked.date - 1, asked.date)
      BY <2>3, UpcomingIsDue
    <2>5. ASSUME NEW a \in Banks, NEW b \in Banks \ {a}
          PROVE  Conserved(coupons, instructions, a, b)
      <3>1. a \in Nat /\ b \in Nat /\ (a < b \/ b < a)
        BY SettlementAssumption
      <3> QED
        BY <2>3, <3>1, ConservedFromBelow
    <2> QED
      BY <2>4, <2>5 DEF NetsConserved, Conserved, Between, Owed, PaidBetween
  <1> QED
    BY <1>1, CouponInvariance, PTL

=============================================================================
