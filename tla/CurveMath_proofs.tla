--------------------------- MODULE CurveMath_proofs ---------------------------
(***************************************************************************)
(* What the operators of RayMath and CurveMath return for every RAY: the   *)
(* fixed-point operations of core/src/math.rs give the nearest multiple of *)
(* a unit, and the folds of the library, which stand for the loops of the  *)
(* code, have the values their unfolding promises.                         *)
(***************************************************************************)
EXTENDS CurveMath, FiniteSetTheorems, SequenceTheorems, WellFoundedInduction, TLAPS

-----------------------------------------------------------------------------
(* Division. *)

\* A quotient rounds down, also of a negative number.
LEMMA DivBounds ==
  ASSUME NEW a \in Int, NEW b \in Nat \ {0}
  PROVE  /\ a \div b \in Int
         /\ b * (a \div b) <= a
         /\ a < b * (a \div b) + b
  OBVIOUS

\* A quotient is the one multiple that fits.
LEMMA DivIs ==
  ASSUME NEW a \in Int, NEW b \in Nat \ {0}, NEW k \in Int, b * k <= a, a < b * k + b
  PROVE  a \div b = k
  OBVIOUS

\* A quotient is at least what fits, and below what does not.
LEMMA DivBetween ==
  ASSUME NEW a \in Int, NEW b \in Nat \ {0}, NEW k \in Int
  PROVE  /\ b * k <= a => k <= a \div b
         /\ a < b * k => a \div b < k
  OBVIOUS

\* Two quotients that round down come to no more than their sum does.
LEMMA FloorsAdd ==
  ASSUME NEW a \in Int, NEW c \in Int, NEW b \in Nat \ {0}
  PROVE  a \div b + c \div b <= (a + c) \div b
  <1>1. PICK p \in Int, q \in Int : p = a \div b /\ q = c \div b /\ b * p <= a /\ b * q <= c
    BY DivBounds
  <1>2. b * (p + q) <= a + c
    <2>1. b * (p + q) = b * p + b * q /\ b * p \in Int /\ b * q \in Int
      OBVIOUS
    <2> QED
      BY <1>1, <2>1
  <1>3. p + q <= (a + c) \div b
    <2>1. a + c \in Int /\ p + q \in Int
      OBVIOUS
    <2> QED
      BY <1>2, <2>1, DivBetween
  <1> QED
    BY <1>1, <1>3

\* Half of RAY is exact.
LEMMA HalfRay == HALF_RAY \in Nat \ {0} /\ HALF_RAY + HALF_RAY = RAY
  BY RayAssumption DEF HALF_RAY

-----------------------------------------------------------------------------
(* The cut to a word. *)

\* What is cut is a word, no more than it was, and what fits is kept.
LEMMA CutToWord ==
  ASSUME NEW x \in Int
  PROVE  /\ x % WORD \in 0..(WORD - 1)
         /\ x \in Nat => x % WORD <= x
         /\ x \in Nat /\ x < WORD => x % WORD = x
  <1>1. WORD \in Nat \ {0}
    BY WordAssumption, RayAssumption
  <1>2. /\ x % WORD \in 0..(WORD - 1) /\ x \div WORD \in Int
        /\ x = WORD * (x \div WORD) + (x % WORD)
    BY <1>1
  <1>3. ASSUME x \in Nat PROVE 0 <= x \div WORD /\ 0 <= WORD * (x \div WORD)
    <2>1. WORD * 0 <= x
      BY <1>1, <1>3
    <2>2. 0 <= x \div WORD
      BY <1>1, <2>1, DivBetween
    <2> QED
      BY <1>1, <1>2, <2>2
  <1>4. x \in Nat => x % WORD <= x
    <2>1. PICK r \in Int, m \in Int : r = x % WORD /\ m = WORD * (x \div WORD)
      BY <1>1, <1>2
    <2>2. x = m + r /\ (x \in Nat => 0 <= m)
      BY <1>2, <1>3, <2>1
    <2> QED
      BY <2>1, <2>2
  <1>5. ASSUME x \in Nat, x < WORD PROVE x % WORD = x
    <2>1. x \div WORD = 0
      BY <1>1, <1>5, DivIs
    <2> QED
      BY <1>1, <1>2, <2>1
  <1> QED
    BY <1>2, <1>4, <1>5

\* A result is a word.
LEMMA RayMulWord ==
  ASSUME NEW a \in Int, NEW b \in Int
  PROVE  ray_mul(a, b) \in Nat /\ ray_mul(a, b) < WORD
  <1>1. a * b + HALF_RAY \in Int /\ RAY \in Nat \ {0}
    BY HalfRay, RayAssumption
  <1>2. WideProduct(a, b) \in Int
    BY <1>1, DivBounds DEF WideProduct
  <1> QED
    BY <1>2, CutToWord, WordAssumption DEF ray_mul

LEMMA RayDivWord ==
  ASSUME NEW a \in Int, NEW b \in Nat \ {0}
  PROVE  ray_div(a, b) \in Nat /\ ray_div(a, b) < WORD
  <1>1. a * RAY + b \div 2 \in Int
    BY RayAssumption
  <1>2. WideQuotient(a, b) \in Int
    BY <1>1, DivBounds DEF WideQuotient
  <1> QED
    BY <1>2, CutToWord, WordAssumption DEF ray_div

-----------------------------------------------------------------------------
(* Products. *)

\* A product that fits is not cut.
LEMMA ProductFits ==
  ASSUME NEW a \in Nat, NEW b \in Nat, a * b + HALF_RAY < RAY * WORD
  PROVE  ray_mul(a, b) = WideProduct(a, b)
  <1> DEFINE x == a * b + HALF_RAY
  <1>1. x \in Nat /\ RAY \in Nat \ {0} /\ WORD \in Nat /\ RAY * 0 <= x
    BY HalfRay, RayAssumption, WordAssumption
  <1>2. x \div RAY \in Int /\ 0 <= x \div RAY /\ x \div RAY < WORD
    BY <1>1, DivBounds, DivBetween
  <1> QED
    BY <1>2, CutToWord DEF ray_mul, WideProduct

\* ray_mul of two unsigned numbers whose product fits a word is the exact
\* product over RAY to half a unit, and at least the upper one of two
\* candidates just as near.
THEOREM RayMulNearest ==
  ASSUME NEW a \in Nat, NEW b \in Nat, a * b + HALF_RAY < RAY * WORD
  PROVE  /\ ray_mul(a, b) \in Nat
         /\ RAY * ray_mul(a, b) <= a * b + HALF_RAY
         /\ a * b - HALF_RAY < RAY * ray_mul(a, b)
  <1> DEFINE x == a * b + HALF_RAY
  <1>1. x \in Int /\ RAY \in Nat \ {0} /\ a * b \in Int
    BY HalfRay, RayAssumption
  <1>2. ray_mul(a, b) = x \div RAY
    BY ProductFits DEF WideProduct
  <1>3. /\ RAY * (x \div RAY) <= x
        /\ x < RAY * (x \div RAY) + RAY
    BY <1>1, DivBounds
  <1>4. ray_mul(a, b) \in Nat
    <2>1. a \in Int /\ b \in Int
      OBVIOUS
    <2> QED
      BY <2>1, RayMulWord
  <1> QED
    BY <1>1, <1>2, <1>3, <1>4, HalfRay

\* The order of the factors does not matter.
LEMMA RayMulCommutes ==
  ASSUME NEW a \in Int, NEW b \in Int
  PROVE  ray_mul(a, b) = ray_mul(b, a)
  <1>1. a * b = b * a
    OBVIOUS
  <1> QED
    BY <1>1 DEF ray_mul, WideProduct

\* A product is no more than the second factor when the first is at most
\* one, cut or not.
LEMMA RayMulRange ==
  ASSUME NEW a \in Nat, NEW b \in Nat
  PROVE  /\ ray_mul(a, b) \in Nat
         /\ a <= RAY => ray_mul(a, b) <= b
  <1>1. a * b \in Nat /\ RAY \in Nat \ {0} /\ HALF_RAY \in Nat /\ HALF_RAY < RAY
    BY HalfRay, RayAssumption
  <1>2. WideProduct(a, b) \in Nat
    <2>1. a * b + HALF_RAY \in Int /\ RAY * 0 <= a * b + HALF_RAY
      BY <1>1
    <2> QED
      BY <1>1, <2>1, DivBounds, DivBetween DEF WideProduct
  <1>3. ray_mul(a, b) \in Nat /\ ray_mul(a, b) <= WideProduct(a, b)
    BY <1>2, CutToWord, RayMulWord DEF ray_mul
  <1>4. ASSUME a <= RAY PROVE ray_mul(a, b) <= b
    <2>1. a * b <= RAY * b
      BY <1>1, <1>4
    <2>2. a * b + HALF_RAY \in Int /\ a * b + HALF_RAY < RAY * (b + 1)
      BY <1>1, <2>1
    <2>3. WideProduct(a, b) < b + 1
      BY <1>1, <2>2, DivBetween DEF WideProduct
    <2> QED
      BY <1>2, <1>3, <2>3
  <1> QED
    BY <1>3, <1>4

\* One is neutral on both sides of a word, and nothing times nothing is
\* nothing.
LEMMA RayMulOne ==
  ASSUME NEW a \in Nat, a < WORD
  PROVE  ray_mul(a, RAY) = a /\ ray_mul(RAY, a) = a /\ ray_mul(0, a) = 0
  <1>1. WideProduct(a, RAY) = a /\ WideProduct(RAY, a) = a /\ WideProduct(0, a) = 0
    BY RayAssumption DEF WideProduct, HALF_RAY
  <1>2. 0 < WORD
    BY WordAssumption, RayAssumption
  <1> QED
    BY <1>1, <1>2, CutToWord DEF ray_mul

\* A larger factor does not make a smaller product, if that fits.
LEMMA RayMulMonotone ==
  ASSUME NEW a \in Nat, NEW b \in Nat, NEW c \in Nat, b <= c,
         a * c + HALF_RAY < RAY * WORD
  PROVE  ray_mul(a, b) <= ray_mul(a, c)
  <1>1. a * b <= a * c /\ a * b \in Nat /\ a * c \in Nat
    OBVIOUS
  <1>2. a * b + HALF_RAY < RAY * WORD
    BY <1>1, HalfRay, RayAssumption, WordAssumption
  <1>3. ray_mul(a, b) \in Nat /\ RAY * ray_mul(a, b) <= a * b + HALF_RAY
    BY <1>2, RayMulNearest
  <1>4. RAY * ray_mul(a, b) <= a * c + HALF_RAY
    BY <1>1, <1>3, HalfRay, RayAssumption
  <1>5. ray_mul(a, c) = (a * c + HALF_RAY) \div RAY
    BY ProductFits DEF WideProduct
  <1>6. PICK k \in Int, x \in Int : /\ k = ray_mul(a, b) /\ x = a * c + HALF_RAY
                                   /\ RAY * k <= x /\ RAY \in Nat \ {0}
    <2>1. ray_mul(a, b) \in Int /\ a * c + HALF_RAY \in Int
      BY <1>1, <1>3, HalfRay
    <2> QED
      BY <1>4, <2>1, RayAssumption
  <1>7. k <= x \div RAY
    BY <1>6, DivBetween
  <1> QED
    BY <1>5, <1>6, <1>7

\* A share of a word fits.
LEMMA ShareFits ==
  ASSUME NEW a \in 0..RAY, NEW b \in Nat, b < WORD
  PROVE  a * b + HALF_RAY < RAY * WORD
  <1>1. RAY \in Nat \ {0} /\ HALF_RAY \in Nat /\ HALF_RAY < RAY /\ WORD \in Nat
    BY HalfRay, RayAssumption, WordAssumption
  <1>2. a * b <= RAY * b /\ b + 1 <= WORD /\ RAY * (b + 1) <= RAY * WORD
    BY <1>1
  <1>3. RAY * (b + 1) = RAY * b + RAY /\ RAY * b \in Nat /\ a * b \in Nat /\ RAY * WORD \in Nat
    BY <1>1
  <1> QED
    BY <1>1, <1>2, <1>3

-----------------------------------------------------------------------------
(* Quotients. *)

\* ray_div of two unsigned numbers whose quotient fits a word is the exact
\* quotient times RAY to half a unit.
THEOREM RayDivNearest ==
  ASSUME NEW a \in Nat, NEW b \in Nat \ {0}, a * RAY + b \div 2 < b * WORD
  PROVE  /\ ray_div(a, b) \in Nat
         /\ 2 * (b * ray_div(a, b)) <= 2 * (a * RAY) + b
         /\ 2 * (a * RAY) - b < 2 * (b * ray_div(a, b))
  <1> DEFINE x == a * RAY + b \div 2
  <1>1. x \in Nat /\ a * RAY \in Int /\ b \div 2 \in Nat /\ WORD \in Nat
        /\ 2 * (b \div 2) <= b /\ b <= 2 * (b \div 2) + 1 /\ b * 0 <= x
    BY RayAssumption, WordAssumption
  <1>2. /\ x \div b \in Int /\ 0 <= x \div b /\ x \div b < WORD
        /\ b * (x \div b) <= x
        /\ x < b * (x \div b) + b
    <2>1. x \in Int /\ x < b * WORD /\ b * 0 <= x /\ WORD \in Int
      BY <1>1
    <2> HIDE DEF x
    <2> QED
      BY <2>1, DivBounds, DivBetween
  <1>3. ray_div(a, b) = x \div b
    BY <1>2, CutToWord DEF ray_div, WideQuotient
  <1> QED
    BY <1>1, <1>2, <1>3

\* What is at most one over at least one fits.
LEMMA QuotientFits ==
  ASSUME NEW a \in 0..RAY, NEW b \in Nat, RAY <= b
  PROVE  a * RAY + b \div 2 < b * WORD
  <1>1. RAY \in Nat \ {0} /\ WORD \in Nat /\ RAY + 1 <= WORD
    BY RayAssumption, WordAssumption
  <1>2. a * RAY <= b * RAY /\ b * (RAY + 1) <= b * WORD
    BY <1>1
  <1>3. b * (RAY + 1) = b * RAY + b /\ b * RAY \in Int /\ a * RAY \in Int /\ b * WORD \in Int
    BY <1>1
  <1>4. b \div 2 < b /\ b \div 2 \in Int
    BY <1>1
  <1> QED
    BY <1>2, <1>3, <1>4

-----------------------------------------------------------------------------
(* Smallest counterexamples, which stand for induction. *)

\* A set of numbers that is not empty has a smallest one.
LEMMA SmallestNumber ==
  ASSUME NEW S \in SUBSET Nat, S # {}
  PROVE  \E m \in S : \A k \in S : m <= k
  <1>1. PICK m \in S : \A k \in S : <<k, m>> \notin OpToRel(<, Nat)
    BY NatLessThanWellFounded, WFMin
  <1>2. \A k \in S : ~(k < m)
    BY <1>1 DEF OpToRel
  <1> QED
    BY <1>2

\* Of any subsets of a finite set there is one of which no proper subset is
\* among them.
LEMMA SmallestSubset ==
  ASSUME NEW S, IsFiniteSet(S), NEW Some \in SUBSET SUBSET S, Some # {}
  PROVE  \E t \in Some : \A x \in t : t \ {x} \notin Some
  <1>1. \A s \in SUBSET S : IsFiniteSet(s) /\ Cardinality(s) \in Nat
    BY FS_Subset, FS_CardinalityType
  <1> DEFINE Sizes == {Cardinality(s) : s \in Some}
  <1>2. Sizes \in SUBSET Nat /\ Sizes # {}
    BY <1>1
  <1>3. PICK n \in Sizes : \A k \in Sizes : n <= k
    BY <1>2, SmallestNumber
  <1>4. PICK t \in Some : Cardinality(t) = n
    BY <1>3
  <1>5. ASSUME NEW x \in t, t \ {x} \in Some PROVE FALSE
    <2>1. Cardinality(t \ {x}) = n - 1
      BY <1>1, <1>4, FS_RemoveElement
    <2>2. n <= n - 1 /\ n \in Nat
      BY <1>1, <1>3, <1>4, <1>5, <2>1
    <2> QED
      BY <2>2
  <1> QED
    BY <1>4, <1>5

-----------------------------------------------------------------------------
(* Folds over finite sets. *)

\* What a fold does with a subset, given what it does with smaller ones.
FoldStep(g, s, base, Choice, Step) ==
  IF s = {} THEN base ELSE Step[Choice[s]][g[s \ {Choice[s]}]]

\* What a fold needs.
Foldable(S, Values, base, Choice, Step) ==
  /\ IsFiniteSet(S)
  /\ base \in Values
  /\ \A s \in SUBSET S : s # {} => Choice[s] \in s
  /\ \A x \in S, v \in Values : Step[x][v] \in Values

\* The function that holds what a fold makes of every subset.
IsFold(g, S, Values, base, Choice, Step) ==
  /\ g \in [SUBSET S -> Values]
  /\ \A s \in SUBSET S : g[s] = FoldStep(g, s, base, Choice, Step)

\* A fold is defined: by one more element at a time.
LEMMA FoldsExist ==
  ASSUME NEW S, NEW Values, NEW base, NEW Choice, NEW Step,
         Foldable(S, Values, base, Choice, Step)
  PROVE  \E g : IsFold(g, S, Values, base, Choice, Step)
  <1> DEFINE Good(n) ==
        \E g \in [SUBSET S -> Values] :
          \A s \in SUBSET S : Cardinality(s) <= n => g[s] = FoldStep(g, s, base, Choice, Step)
        Bad == {n \in Nat : ~Good(n)}
  <1>0. /\ IsFiniteSet(S) /\ base \in Values
        /\ \A s \in SUBSET S : s # {} => Choice[s] \in s
        /\ \A x \in S, v \in Values : Step[x][v] \in Values
    BY DEF Foldable
  <1>1. \A s \in SUBSET S : IsFiniteSet(s) /\ Cardinality(s) \in Nat
                            /\ Cardinality(s) <= Cardinality(S)
    BY <1>0, FS_Subset, FS_CardinalityType
  <1>2. Bad = {}
    <2>1. SUFFICES ASSUME Bad # {} PROVE FALSE
      OBVIOUS
    <2>2. PICK n \in Bad : \A k \in Bad : n <= k
      BY <2>1, SmallestNumber
    <2>3. n \in Nat /\ ~Good(n)
      BY <2>2
    <2>4. CASE n = 0
      <3> DEFINE g == [s \in SUBSET S |-> base]
      <3>1. g \in [SUBSET S -> Values]
        BY <1>0
      <3>2. ASSUME NEW s \in SUBSET S, Cardinality(s) <= n
            PROVE  g[s] = FoldStep(g, s, base, Choice, Step)
        <4>1. s = {}
          BY <1>1, <2>4, <3>2, FS_EmptySet
        <4> QED
          BY <4>1 DEF FoldStep
      <3> QED
        BY <2>3, <3>1, <3>2
    <2>5. CASE n # 0
      <3>1. n - 1 \in Nat /\ Good(n - 1)
        <4>1. n - 1 \in Nat /\ ~(n <= n - 1)
          BY <2>3, <2>5
        <4>2. n - 1 \notin Bad
          BY <2>2, <4>1
        <4> QED
          BY <4>1, <4>2
      <3>2. PICK h \in [SUBSET S -> Values] :
              \A s \in SUBSET S :
                Cardinality(s) <= n - 1 => h[s] = FoldStep(h, s, base, Choice, Step)
        BY <3>1
      <3> DEFINE g == [s \in SUBSET S |->
                         IF Cardinality(s) <= n - 1 THEN h[s]
                         ELSE FoldStep(h, s, base, Choice, Step)]
      <3>3. ASSUME NEW s \in SUBSET S, s # {}
            PROVE  /\ s \ {Choice[s]} \in SUBSET S
                   /\ Cardinality(s \ {Choice[s]}) = Cardinality(s) - 1
        BY <1>0, <1>1, <3>3, FS_RemoveElement
      <3>4. \A s \in SUBSET S : FoldStep(h, s, base, Choice, Step) \in Values
        BY <1>0, <3>3 DEF FoldStep
      <3>5. g \in [SUBSET S -> Values]
        BY <3>4
      <3>6. ASSUME NEW s \in SUBSET S, Cardinality(s) <= n
            PROVE  g[s] = FoldStep(g, s, base, Choice, Step)
        <4>1. g[s] = FoldStep(h, s, base, Choice, Step)
          BY <3>2
        <4>2. CASE s = {}
          BY <4>1, <4>2 DEF FoldStep
        <4>3. CASE s # {}
          <5> DEFINE t == s \ {Choice[s]}
          <5>1. t \in SUBSET S /\ Cardinality(t) <= n - 1
            BY <1>1, <2>3, <3>3, <3>6, <4>3
          <5>2. g[t] = h[t]
            BY <5>1
          <5> QED
            BY <4>1, <4>3, <5>2 DEF FoldStep
        <4> QED
          BY <4>2, <4>3
      <3> QED
        BY <2>3, <3>5, <3>6
    <2> QED
      BY <2>4, <2>5
  <1>3. Good(Cardinality(S))
    BY <1>0, <1>1, <1>2, FS_CardinalityType
  <1> QED
    BY <1>1, <1>3 DEF IsFold

-----------------------------------------------------------------------------
(* Sums. *)

\* What a sum needs.
Summable(V, S) == IsFiniteSet(S) /\ \A x \in S : V[x] \in Int

\* The element a sum takes next.
First(s) == CHOOSE x \in s : TRUE

\* One more value is added.
Adds(f, V, s, x) == f[s] = V[x] + f[s \ {x}]

\* The recursion by which SumFunctionOnSet is defined.
Summing(V, S) ==
  CHOOSE f : f = [s \in SUBSET S |->
                    IF s = {} THEN 0
                    ELSE V[First(s)] + f[s \ {First(s)}]]

\* What the sums over the subsets of a set are.
IsSumming(f, V, S) ==
  /\ f \in [SUBSET S -> Int]
  /\ f[{}] = 0
  /\ \A s \in SUBSET S : s # {} => First(s) \in s /\ Adds(f, V, s, First(s))

\* The recursion does define a function.
LEMMA SummingIs ==
  ASSUME NEW S, NEW V, Summable(V, S)
  PROVE  /\ IsSumming(Summing(V, S), V, S)
         /\ SumFunctionOnSet(V, S) = Summing(V, S)[S]
  <1> DEFINE Choice == [s \in SUBSET S |-> First(s)]
             Step == [x \in S |-> [v \in Int |-> V[x] + v]]
             Is(g) == g = [s \in SUBSET S |->
                             IF s = {} THEN 0 ELSE V[First(s)] + g[s \ {First(s)}]]
             f == Summing(V, S)
  <1>0. IsFiniteSet(S) /\ \A x \in S : V[x] \in Int
    BY DEF Summable
  <1>1. \A s \in SUBSET S : s # {} => First(s) \in s
    BY DEF First
  <1>2. PICK g : IsFold(g, S, Int, 0, Choice, Step)
    <2>1. \A s \in SUBSET S : s # {} => Choice[s] \in s
      BY <1>1
    <2>2. \A x \in S, v \in Int : Step[x][v] \in Int
      BY <1>0
    <2> HIDE DEF Choice, Step
    <2>3. Foldable(S, Int, 0, Choice, Step)
      BY <1>0, <2>1, <2>2 DEF Foldable
    <2> QED
      BY <2>3, FoldsExist
  <1>3. ASSUME NEW s \in SUBSET S
        PROVE  g[s] = IF s = {} THEN 0 ELSE V[First(s)] + g[s \ {First(s)}]
    <2>1. g[s] = FoldStep(g, s, 0, Choice, Step) /\ g \in [SUBSET S -> Int]
      BY <1>2 DEF IsFold
    <2>2. CASE s = {}
      BY <2>1, <2>2 DEF FoldStep
    <2>3. CASE s # {}
      <3>1. First(s) \in S /\ g[s \ {First(s)}] \in Int
        BY <1>1, <2>1, <2>3
      <3> QED
        BY <2>1, <2>3, <3>1 DEF FoldStep
    <2> QED
      BY <2>2, <2>3
  <1>4. Is(g)
    <2>1. g = [s \in SUBSET S |-> g[s]]
      BY <1>2 DEF IsFold
    <2> QED
      BY <1>3, <2>1
  <1>5. f = CHOOSE h : Is(h)
    BY DEF Summing
  <1>6. Is(f)
    BY <1>4, <1>5
  <1>7. /\ f[{}] = 0
        /\ \A s \in SUBSET S : s # {} => Adds(f, V, s, First(s))
    BY <1>6 DEF Adds
  <1>8. f = [s \in SUBSET S |-> f[s]]
    BY <1>6
  <1> HIDE DEF f
  <1>9. \A s \in SUBSET S : f[s] \in Int
    <2> DEFINE Bad == {s \in SUBSET S : f[s] \notin Int}
    <2>1. SUFFICES ASSUME Bad # {} PROVE FALSE
      OBVIOUS
    <2>2. PICK s \in Bad : \A x \in s : s \ {x} \notin Bad
      BY <1>0, <2>1, SmallestSubset
    <2>3. s \in SUBSET S /\ f[s] \notin Int
      BY <2>2
    <2>4. s # {} /\ First(s) \in s
      BY <1>1, <1>7, <2>3
    <2>5. s \ {First(s)} \in SUBSET S /\ s \ {First(s)} \notin Bad
      BY <2>2, <2>3, <2>4
    <2>6. f[s \ {First(s)}] \in Int
      BY <2>5
    <2>7. V[First(s)] \in Int /\ Adds(f, V, s, First(s))
      BY <1>0, <1>7, <2>3, <2>4
    <2> QED
      BY <2>3, <2>6, <2>7 DEF Adds
  <1>10. SumFunctionOnSet(V, S) = f[S]
    BY DEF SumFunctionOnSet, FoldFunctionOnSet, MapThenFoldSet, f, Summing, First
  <1>11. IsSumming(f, V, S)
    BY <1>1, <1>7, <1>8, <1>9 DEF IsSumming
  <1> QED
    BY <1>10, <1>11 DEF f

\* The sum over a part does not depend on what it is a part of.
LEMMA SummingPart ==
  ASSUME NEW S, NEW V, Summable(V, S), NEW T \in SUBSET S
  PROVE  SumFunctionOnSet(V, T) = Summing(V, S)[T]
  <1>1. IsFiniteSet(T) /\ Summable(V, T)
    BY FS_Subset DEF Summable
  <1>2. PICK f : f = Summing(V, S) /\ IsSumming(f, V, S)
    BY SummingIs
  <1>3. PICK g : g = Summing(V, T) /\ IsSumming(g, V, T) /\ SumFunctionOnSet(V, T) = g[T]
    BY <1>1, SummingIs
  <1> DEFINE Bad == {s \in SUBSET T : g[s] # f[s]}
  <1>4. Bad = {}
    <2>1. SUFFICES ASSUME Bad # {} PROVE FALSE
      OBVIOUS
    <2>2. PICK s \in Bad : \A x \in s : s \ {x} \notin Bad
      BY <1>1, <2>1, SmallestSubset
    <2>3. s \in SUBSET T /\ s \in SUBSET S /\ g[s] # f[s]
      BY <2>2
    <2>4. s # {} /\ First(s) \in s /\ Adds(f, V, s, First(s)) /\ Adds(g, V, s, First(s))
      BY <1>2, <1>3, <2>3 DEF IsSumming
    <2>5. s \ {First(s)} \in SUBSET T /\ s \ {First(s)} \notin Bad
      BY <2>2, <2>3, <2>4
    <2>6. g[s \ {First(s)}] = f[s \ {First(s)}]
      BY <2>5
    <2> QED
      BY <2>3, <2>4, <2>6 DEF Adds
  <1> QED
    BY <1>2, <1>3, <1>4

\* What a sum is: nothing over nothing, and any one value more than the sum
\* over the rest.
LEMMA SumRules ==
  ASSUME NEW S, NEW V, Summable(V, S)
  PROVE  /\ SumFunctionOnSet(V, S) \in Int
         /\ S = {} => SumFunctionOnSet(V, S) = 0
         /\ \A x \in S : /\ SumFunctionOnSet(V, S \ {x}) \in Int
                         /\ SumFunctionOnSet(V, S) = V[x] + SumFunctionOnSet(V, S \ {x})
  <1>1. PICK f : f = Summing(V, S) /\ IsSumming(f, V, S)
    BY SummingIs
  <1> DEFINE Bad == {s \in SUBSET S : \E x \in s : ~Adds(f, V, s, x)}
  <1>2. Bad = {}
    <2>1. SUFFICES ASSUME Bad # {} PROVE FALSE
      OBVIOUS
    <2>2. PICK s \in Bad : \A x \in s : s \ {x} \notin Bad
      BY <2>1, SmallestSubset DEF Summable
    <2>3. /\ s \in SUBSET S
          /\ \A y \in s : \A x \in s \ {y} : Adds(f, V, s \ {y}, x)
      BY <2>2
    <2>4. PICK x \in s : ~Adds(f, V, s, x)
      BY <2>2
    <2>5. PICK c \in s : Adds(f, V, s, c)
      BY <1>1, <2>3, <2>4 DEF IsSumming
    <2>6. Adds(f, V, s \ {c}, x) /\ Adds(f, V, s \ {x}, c)
      BY <2>3, <2>4, <2>5
    <2>7. (s \ {c}) \ {x} = (s \ {x}) \ {c}
      OBVIOUS
    <2>8. V[c] \in Int /\ V[x] \in Int /\ f[(s \ {x}) \ {c}] \in Int
      BY <1>1, <2>3 DEF Summable, IsSumming
    <2>9. f[s \ {c}] = V[x] + f[(s \ {x}) \ {c}]
      BY <2>6, <2>7 DEF Adds
    <2>10. f[s \ {x}] = V[c] + f[(s \ {x}) \ {c}]
      BY <2>6 DEF Adds
    <2> QED
      BY <2>4, <2>5, <2>8, <2>9, <2>10 DEF Adds
  <1>3. \A T \in SUBSET S : SumFunctionOnSet(V, T) = f[T]
    BY <1>1, SummingPart
  <1>4. S = {} => f[S] = 0
    BY <1>1 DEF IsSumming
  <1>5. ASSUME NEW x \in S
        PROVE  /\ f[S \ {x}] \in Int
               /\ f[S] = V[x] + f[S \ {x}]
               /\ SumFunctionOnSet(V, S \ {x}) = f[S \ {x}]
    <2>1. S \in SUBSET S /\ S \ {x} \in SUBSET S
      OBVIOUS
    <2>2. Adds(f, V, S, x)
      BY <1>2, <2>1
    <2> QED
      BY <1>1, <1>3, <2>1, <2>2 DEF Adds, IsSumming
  <1>6. S \in SUBSET S /\ f[S] \in Int
    BY <1>1 DEF IsSumming
  <1> QED
    BY <1>3, <1>4, <1>5, <1>6

\* The sums over the subsets of a set, with any element taken first.
LEMMA SumOfSubset ==
  ASSUME NEW S, NEW V, Summable(V, S), NEW T \in SUBSET S
  PROVE  /\ SumFunctionOnSet(V, T) \in Int
         /\ T = {} => SumFunctionOnSet(V, T) = 0
         /\ \A x \in T : /\ V[x] \in Int
                         /\ SumFunctionOnSet(V, T \ {x}) \in Int
                         /\ SumFunctionOnSet(V, T) = V[x] + SumFunctionOnSet(V, T \ {x})
  <1>1. Summable(V, T) /\ \A x \in T : V[x] \in Int
    BY FS_Subset DEF Summable
  <1> QED
    BY <1>1, SumRules

\* Equal values have equal sums.
LEMMA SumSame ==
  ASSUME NEW S, NEW V, NEW W, Summable(V, S), \A x \in S : W[x] = V[x]
  PROVE  SumFunctionOnSet(W, S) = SumFunctionOnSet(V, S)
  <1>1. Summable(W, S) /\ IsFiniteSet(S)
    BY DEF Summable
  <1> DEFINE Bad == {T \in SUBSET S : SumFunctionOnSet(W, T) # SumFunctionOnSet(V, T)}
  <1>2. SUFFICES ASSUME Bad # {} PROVE FALSE
    OBVIOUS
  <1>3. PICK T \in Bad : \A x \in T : T \ {x} \notin Bad
    BY <1>1, <1>2, SmallestSubset
  <1>4. T \in SUBSET S /\ SumFunctionOnSet(W, T) # SumFunctionOnSet(V, T)
    BY <1>3
  <1>5. PICK x \in T : TRUE
    BY <1>1, <1>4, SumOfSubset
  <1>6. SumFunctionOnSet(W, T \ {x}) = SumFunctionOnSet(V, T \ {x})
    BY <1>3, <1>4, <1>5
  <1> QED
    BY <1>1, <1>4, <1>5, <1>6, SumOfSubset

\* Opposite values have opposite sums.
LEMMA SumNegated ==
  ASSUME NEW S, NEW V, NEW W, Summable(V, S), \A x \in S : W[x] = -V[x]
  PROVE  SumFunctionOnSet(W, S) = -SumFunctionOnSet(V, S)
  <1>1. Summable(W, S) /\ IsFiniteSet(S)
    BY DEF Summable
  <1> DEFINE Bad == {T \in SUBSET S : SumFunctionOnSet(W, T) # -SumFunctionOnSet(V, T)}
  <1>2. SUFFICES ASSUME Bad # {} PROVE FALSE
    OBVIOUS
  <1>3. PICK T \in Bad : \A x \in T : T \ {x} \notin Bad
    BY <1>1, <1>2, SmallestSubset
  <1>4. T \in SUBSET S /\ SumFunctionOnSet(W, T) # -SumFunctionOnSet(V, T)
    BY <1>3
  <1>5. PICK x \in T : TRUE
    <2>1. T # {}
      BY <1>1, <1>4, SumOfSubset
    <2> QED
      BY <2>1
  <1>6. SumFunctionOnSet(W, T \ {x}) = -SumFunctionOnSet(V, T \ {x})
    BY <1>3, <1>4, <1>5
  <1>7. /\ V[x] \in Int /\ SumFunctionOnSet(V, T \ {x}) \in Int
        /\ SumFunctionOnSet(V, T) = V[x] + SumFunctionOnSet(V, T \ {x})
        /\ SumFunctionOnSet(W, T) = W[x] + SumFunctionOnSet(W, T \ {x})
        /\ W[x] = -V[x]
    BY <1>1, <1>4, <1>5, SumOfSubset
  <1> QED
    BY <1>4, <1>6, <1>7

\* The sum over a set is that over a part and that over the rest.
LEMMA SumSplits ==
  ASSUME NEW S, NEW V, Summable(V, S), NEW A \in SUBSET S
  PROVE  SumFunctionOnSet(V, S) = SumFunctionOnSet(V, A) + SumFunctionOnSet(V, S \ A)
  <1> DEFINE sum(T) == SumFunctionOnSet(V, T)
             Bad == {T \in SUBSET A : sum(T) + sum(S \ A) # sum(T \union (S \ A))}
  <1>1. IsFiniteSet(S) /\ IsFiniteSet(A)
    BY FS_Subset DEF Summable
  <1>2. ASSUME NEW T \in SUBSET S
        PROVE  /\ sum(T) \in Int
               /\ T = {} => sum(T) = 0
               /\ \A x \in T : /\ V[x] \in Int
                               /\ sum(T \ {x}) \in Int
                               /\ sum(T) = V[x] + sum(T \ {x})
    <2>1. sum(T) \in Int /\ (T = {} => sum(T) = 0)
      BY SumOfSubset
    <2>2. ASSUME NEW x \in T
          PROVE  V[x] \in Int /\ sum(T \ {x}) \in Int /\ sum(T) = V[x] + sum(T \ {x})
      BY ONLY SumOfSubset, Summable(V, S), T \in SUBSET S, x \in T
    <2> QED
      BY <2>1, <2>2
  <1> HIDE DEF sum
  <1>3. Bad = {}
    <2>1. SUFFICES ASSUME Bad # {} PROVE FALSE
      OBVIOUS
    <2>2. PICK T \in Bad : \A x \in T : T \ {x} \notin Bad
      BY <1>1, <2>1, SmallestSubset
    <2> DEFINE U == T \union (S \ A)
    <2>3. T \in SUBSET A /\ T \in SUBSET S /\ U \in SUBSET S /\ sum(T) + sum(S \ A) # sum(U)
      BY <2>2
    <2>4. sum(S \ A) \in Int
      BY <1>2
    <2>5. T # {}
      <3>1. SUFFICES ASSUME T = {} PROVE FALSE
        OBVIOUS
      <3>2. U = S \ A /\ sum(T) = 0
        BY <1>2, <2>3, <3>1
      <3>3. sum(U) = sum(S \ A) /\ sum(U) # 0 + sum(S \ A)
        BY <2>3, <3>2
      <3> QED
        BY <2>4, <3>3
    <2>6. PICK x \in T : TRUE
      BY <2>5
    <2>7. T \ {x} \in SUBSET A /\ T \ {x} \notin Bad /\ U \ {x} = (T \ {x}) \union (S \ A)
      BY <2>2, <2>3
    <2>8. sum(T \ {x}) + sum(S \ A) = sum(U \ {x})
      BY <2>7
    <2>9. /\ V[x] \in Int /\ sum(T \ {x}) \in Int /\ sum(T) = V[x] + sum(T \ {x})
          /\ sum(U) = V[x] + sum(U \ {x})
      BY <1>2, <2>3, <2>6
    <2> HIDE DEF U
    <2> QED
      BY <2>3, <2>4, <2>8, <2>9
  <1>4. A \union (S \ A) = S
    OBVIOUS
  <1> QED
    BY <1>3, <1>4 DEF sum

\* Halves of differences, each off by half a unit at the most, are together
\* off by half a unit each.
LEMMA SumHalves ==
  ASSUME NEW S, NEW V, NEW U, NEW D, Summable(V, S), Summable(U, S), Summable(D, S),
         \A x \in S : 2 * V[x] - (U[x] - D[x]) \in -1..1
  PROVE  LET n == Cardinality(S)
         IN 2 * SumFunctionOnSet(V, S) - (SumFunctionOnSet(U, S) - SumFunctionOnSet(D, S))
              \in (-n)..n
  <1> DEFINE error(T) == 2 * SumFunctionOnSet(V, T)
                           - (SumFunctionOnSet(U, T) - SumFunctionOnSet(D, T))
             size(T) == Cardinality(T)
             Bad == {T \in SUBSET S : ~(-size(T) <= error(T) /\ error(T) <= size(T))}
  <1>1. IsFiniteSet(S)
    BY DEF Summable
  <1>2. ASSUME NEW T \in SUBSET S
        PROVE  /\ size(T) \in Nat /\ error(T) \in Int
               /\ T = {} => size(T) = 0 /\ error(T) = 0
    <2>1. size(T) \in Nat /\ (T = {} => size(T) = 0)
      BY <1>1, FS_Subset, FS_CardinalityType, FS_EmptySet
    <2>2. \A f \in {U, V, D} : /\ SumFunctionOnSet(f, T) \in Int
                               /\ T = {} => SumFunctionOnSet(f, T) = 0
      BY SumOfSubset
    <2> QED
      BY <2>1, <2>2
  <1>3. ASSUME NEW T \in SUBSET S, NEW x \in T
        PROVE  /\ size(T \ {x}) = size(T) - 1
               /\ error(T) - error(T \ {x}) \in -1..1
    <2>1. size(T \ {x}) = size(T) - 1
      BY <1>1, FS_Subset, FS_RemoveElement
    <2>2. ASSUME NEW f, Summable(f, S)
          PROVE  /\ f[x] \in Int /\ SumFunctionOnSet(f, T \ {x}) \in Int
                 /\ SumFunctionOnSet(f, T) = f[x] + SumFunctionOnSet(f, T \ {x})
      BY ONLY SumOfSubset, Summable(f, S), T \in SUBSET S, x \in T
    <2>3. 2 * V[x] - (U[x] - D[x]) \in -1..1
      OBVIOUS
    <2> DEFINE sum(f) == SumFunctionOnSet(f, T)
               rest(f) == SumFunctionOnSet(f, T \ {x})
    <2>4. /\ V[x] \in Int /\ rest(V) \in Int /\ sum(V) = V[x] + rest(V)
          /\ U[x] \in Int /\ rest(U) \in Int /\ sum(U) = U[x] + rest(U)
          /\ D[x] \in Int /\ rest(D) \in Int /\ sum(D) = D[x] + rest(D)
      BY <2>2
    <2> HIDE DEF sum, rest
    <2>5. 2 * sum(V) - (sum(U) - sum(D)) - (2 * rest(V) - (rest(U) - rest(D))) \in -1..1
      BY ONLY <2>3, <2>4
    <2> QED
      BY <2>1, <2>5 DEF sum, rest
  <1> HIDE DEF error, size
  <1>4. Bad = {}
    <2>1. SUFFICES ASSUME Bad # {} PROVE FALSE
      OBVIOUS
    <2>2. PICK T \in Bad : \A x \in T : T \ {x} \notin Bad
      BY <1>1, <2>1, SmallestSubset
    <2>3. T \in SUBSET S /\ ~(-size(T) <= error(T) /\ error(T) <= size(T))
      BY <2>2
    <2>4. T # {}
      BY <1>2, <2>3
    <2>5. PICK x \in T : TRUE
      BY <2>4
    <2>6. T \ {x} \in SUBSET S /\ T \ {x} \notin Bad
      BY <2>2, <2>3
    <2>7. -size(T \ {x}) <= error(T \ {x}) /\ error(T \ {x}) <= size(T \ {x})
      BY <2>6
    <2>8. /\ size(T) \in Nat /\ error(T) \in Int /\ error(T \ {x}) \in Int
          /\ size(T \ {x}) = size(T) - 1 /\ error(T) - error(T \ {x}) \in -1..1
      BY <1>2, <1>3, <2>3, <2>5, <2>6
    <2> QED
      BY <2>3, <2>7, <2>8
  <1>5. S \in SUBSET S
    OBVIOUS
  <1>6. -size(S) <= error(S) /\ error(S) <= size(S) /\ size(S) \in Nat /\ error(S) \in Int
    BY <1>2, <1>4, <1>5
  <1>7. error(S) \in (-size(S))..size(S)
    BY <1>6
  <1> QED
    BY <1>7 DEF error, size

-----------------------------------------------------------------------------
(* bootstrap_annual, one rate at a time. *)

\* The curve before its first rate.
AnnualStart(rates) ==
  [dfs |-> <<>>, annuity |-> 0, outcome |-> IF rates = <<>> THEN "EmptyInput" ELSE "Ok"]

AnnualCurves ==
  [dfs : Seq(Int), annuity : Int,
   outcome : {"Ok", "EmptyInput", "InvalidDF", "NegativeRateDetected"}]

\* The recursion by which bootstrap_annual is defined.
AnnualFolding(rates) ==
  CHOOSE f : f = [s \in SUBSET (DOMAIN rates) |->
                    IF s = {} THEN AnnualStart(rates)
                    ELSE AnnualStep(f[s \ {Max(s)}], rates[Max(s)])]

\* The curve after each of its rates.
IsAnnual(c, rates) ==
  /\ c[0] = AnnualStart(rates)
  /\ \A k \in 1..Len(rates) : c[k] = AnnualStep(c[k - 1], rates[k])
  /\ \A k \in 0..Len(rates) : c[k] \in AnnualCurves
  /\ bootstrap_annual(rates) = c[Len(rates)]

LEMMA AnnualStepTyped ==
  ASSUME NEW c \in AnnualCurves, NEW rate \in Nat
  PROVE  AnnualStep(c, rate) \in AnnualCurves
  <1> DEFINE interest == ray_mul(rate, c.annuity)
             df == ray_div(RAY - interest, RAY + rate)
  <1>1. c.dfs \in Seq(Int) /\ c.annuity \in Int
    BY DEF AnnualCurves
  <1>2. interest \in Int /\ RAY \in Nat \ {0}
    <2>1. rate \in Int /\ RAY \in Nat \ {0}
      BY RayAssumption
    <2>2. ray_mul(rate, c.annuity) \in Nat
      BY <1>1, <2>1, RayMulWord
    <2> QED
      BY <2>1, <2>2
  <1> HIDE DEF interest
  <1>3. RAY - interest \in Int /\ RAY + rate \in Nat \ {0}
    BY <1>2
  <1>4. df \in Int
    BY <1>3, RayDivWord
  <1> HIDE DEF df
  <1>5. Append(c.dfs, df) \in Seq(Int) /\ c.annuity + df \in Int
    BY <1>1, <1>4, AppendProperties
  <1>6. \/ AnnualStep(c, rate) = c
        \/ AnnualStep(c, rate) = [c EXCEPT !.outcome = "InvalidDF"]
        \/ AnnualStep(c, rate) = [c EXCEPT !.outcome = "NegativeRateDetected"]
        \/ AnnualStep(c, rate) = [c EXCEPT !.dfs = Append(c.dfs, df),
                                           !.annuity = c.annuity + df]
    BY DEF AnnualStep, interest, df
  <1> QED
    BY <1>5, <1>6 DEF AnnualCurves

\* Some numbers up to a bound have a largest one.
LEMMA LargestNumber ==
  ASSUME NEW n \in Nat, NEW s \in SUBSET (1..n), s # {}
  PROVE  Max(s) \in s /\ \A y \in s : Max(s) >= y
  <1> DEFINE Gaps == {n - k : k \in s}
  <1>1. Gaps \in SUBSET Nat /\ Gaps # {}
    <2>1. \A k \in s : n - k \in Nat
      OBVIOUS
    <2>2. PICK k \in s : TRUE
      OBVIOUS
    <2>3. n - k \in Gaps
      BY <2>2
    <2> QED
      BY <2>1, <2>3
  <1>2. PICK gap \in Gaps : \A k \in Gaps : gap <= k
    BY <1>1, SmallestNumber
  <1>3. PICK x \in s : gap = n - x
    BY <1>2
  <1>4. ASSUME NEW y \in s PROVE x >= y
    <2>1. n - y \in Gaps /\ x \in Int /\ y \in Int
      OBVIOUS
    <2>2. n - x <= n - y
      BY <1>2, <1>3, <2>1
    <2> QED
      BY <2>1, <2>2
  <1>5. \E z \in s : \A y \in s : z >= y
    BY <1>4
  <1> QED
    BY <1>5, Zenon DEF Max

\* The largest of the first k numbers is k.
LEMMA LargestOfFirst ==
  ASSUME NEW n \in Nat, NEW k \in 1..n
  PROVE  Max(1..k) = k /\ (1..k) \ {k} = 1..(k - 1) /\ 1..k # {} /\ 1..k \in SUBSET (1..n)
  <1>1. 1..k # {} /\ 1..k \in SUBSET (1..n) /\ k \in 1..k
    OBVIOUS
  <1>2. Max(1..k) \in 1..k /\ Max(1..k) >= k
    BY <1>1, LargestNumber
  <1> QED
    BY <1>1, <1>2

\* The fold of the library takes the rates in their order.
LEMMA AnnualIs ==
  ASSUME NEW rates \in Seq(Nat)
  PROVE  \E c : IsAnnual(c, rates)
  <1> DEFINE n == Len(rates)
             S == 1..n
             base == AnnualStart(rates)
             Choice == [s \in SUBSET S |-> Max(s)]
             Step == [x \in S |-> [v \in AnnualCurves |-> AnnualStep(v, rates[x])]]
             Is(g) == g = [s \in SUBSET S |->
                             IF s = {} THEN base
                             ELSE AnnualStep(g[s \ {Max(s)}], rates[Max(s)])]
             f == AnnualFolding(rates)
  <1>1. n \in Nat /\ DOMAIN rates = S /\ IsFiniteSet(S) /\ \A k \in S : rates[k] \in Nat
    <2>1. n \in Nat /\ DOMAIN rates = S /\ \A k \in S : rates[k] \in Nat
      BY LenProperties, ElementOfSeq
    <2>2. 1 \in Int /\ n \in Int
      BY <2>1
    <2> QED
      BY <2>1, <2>2, FS_Interval
  <1>2. \A s \in SUBSET S : s # {} => Max(s) \in s
    BY <1>1, LargestNumber
  <1>3. base \in AnnualCurves
    BY EmptySeq DEF AnnualStart, AnnualCurves
  <1>4. PICK g : IsFold(g, S, AnnualCurves, base, Choice, Step)
    <2>1. \A s \in SUBSET S : s # {} => Choice[s] \in s
      BY <1>2
    <2>2. \A x \in S, v \in AnnualCurves : Step[x][v] \in AnnualCurves
      BY <1>1, AnnualStepTyped
    <2> HIDE DEF Choice, Step, base, S
    <2>3. Foldable(S, AnnualCurves, base, Choice, Step)
      BY <1>1, <1>3, <2>1, <2>2 DEF Foldable
    <2> QED
      BY <2>3, FoldsExist
  <1>5. ASSUME NEW s \in SUBSET S
        PROVE  g[s] = IF s = {} THEN base ELSE AnnualStep(g[s \ {Max(s)}], rates[Max(s)])
    <2>1. g[s] = FoldStep(g, s, base, Choice, Step) /\ g \in [SUBSET S -> AnnualCurves]
      BY <1>4 DEF IsFold
    <2>2. CASE s = {}
      BY <2>1, <2>2 DEF FoldStep
    <2>3. CASE s # {}
      <3>1. Max(s) \in S /\ g[s \ {Max(s)}] \in AnnualCurves /\ Choice[s] = Max(s)
        BY <1>2, <2>1, <2>3
      <3>2. Step[Max(s)][g[s \ {Max(s)}]] = AnnualStep(g[s \ {Max(s)}], rates[Max(s)])
        BY <3>1
      <3> HIDE DEF Choice, Step
      <3> QED
        BY <2>1, <2>3, <3>1, <3>2 DEF FoldStep
    <2> QED
      BY <2>2, <2>3
  <1>6. Is(g)
    <2>1. g = [s \in SUBSET S |-> g[s]]
      BY <1>4 DEF IsFold
    <2> QED
      BY <1>5, <2>1
  <1>7. f = CHOOSE h : Is(h)
    BY <1>1 DEF AnnualFolding
  <1>8. Is(f)
    BY <1>6, <1>7
  <1>9. bootstrap_annual(rates) = f[S]
    BY <1>1 DEF bootstrap_annual, FoldLeft, MapThenFoldSet, AnnualFolding, AnnualStart
  <1>10. /\ f[{}] = base
         /\ \A k \in 1..n : f[1..k] = AnnualStep(f[1..(k - 1)], rates[k])
    <2>1. \A s \in SUBSET S :
            f[s] = IF s = {} THEN base ELSE AnnualStep(f[s \ {Max(s)}], rates[Max(s)])
      BY <1>8
    <2> HIDE DEF f, base
    <2>2. f[{}] = base
      BY <2>1
    <2>3. ASSUME NEW k \in 1..n PROVE f[1..k] = AnnualStep(f[1..(k - 1)], rates[k])
      BY <1>1, <2>1, LargestOfFirst
    <2> QED
      BY <2>2, <2>3
  <1> DEFINE c == [k \in 0..n |-> f[1..k]]
  <1>11. /\ c[0] = base
         /\ \A k \in 1..n : c[k] = AnnualStep(c[k - 1], rates[k])
         /\ bootstrap_annual(rates) = c[n]
    <2>1. 1..0 = {} /\ 0 \in 0..n /\ n \in 0..n /\ \A k \in 1..n : k \in 0..n /\ k - 1 \in 0..n
      BY <1>1
    <2> HIDE DEF f, base
    <2> QED
      BY <1>9, <1>10, <2>1
  <1> HIDE DEF c
  <1>12. \A k \in 0..n : c[k] \in AnnualCurves
    <2> DEFINE Bad == {k \in 0..n : c[k] \notin AnnualCurves}
    <2>1. SUFFICES ASSUME Bad # {} PROVE FALSE
      OBVIOUS
    <2>2. PICK k \in Bad : \A j \in Bad : k <= j
      <3>1. Bad \in SUBSET Nat
        BY <1>1
      <3> HIDE DEF Bad
      <3> QED
        BY <2>1, <3>1, SmallestNumber
    <2>3. k \in 0..n /\ c[k] \notin AnnualCurves
      BY <2>2
    <2>4. k # 0
      BY <1>3, <1>11, <2>3
    <2>5. k \in 1..n /\ k - 1 \in 0..n /\ ~(k <= k - 1)
      BY <1>1, <2>3, <2>4
    <2>6. c[k - 1] \in AnnualCurves
      BY <2>2, <2>5
    <2> QED
      BY <1>1, <1>11, <2>3, <2>5, <2>6, AnnualStepTyped
  <1> QED
    BY <1>11, <1>12 DEF IsAnnual

\* A curve that bootstraps has a factor for each rate, positive and at most
\* one.
THEOREM AnnualFactors ==
  ASSUME NEW rates \in Seq(Nat), bootstrap_annual(rates).outcome = "Ok"
  PROVE  /\ rates # <<>>
         /\ bootstrap_annual(rates).dfs \in Seq(1..RAY)
         /\ Len(bootstrap_annual(rates).dfs) = Len(rates)
  <1> DEFINE n == Len(rates)
             Good(d, k) == d.outcome = "Ok" => d.dfs \in Seq(1..RAY) /\ Len(d.dfs) = k
  <1>1. n \in Nat /\ RAY \in Nat \ {0} /\ \A k \in 1..n : rates[k] \in Nat
    BY LenProperties, ElementOfSeq, RayAssumption
  <1>2. PICK c : IsAnnual(c, rates)
    BY AnnualIs
  <1> DEFINE Bad == {k \in 0..n : ~Good(c[k], k)}
  <1>3. Good(c[0], 0)
    BY <1>2, EmptySeq DEF IsAnnual, AnnualStart
  <1>4. ASSUME NEW k \in 1..n, Good(c[k - 1], k - 1) PROVE Good(c[k], k)
    <2>1. PICK d : d = c[k - 1]
      OBVIOUS
    <2>2. PICK e : e = c[k]
      OBVIOUS
    <2>3. e = AnnualStep(d, rates[k]) /\ d \in AnnualCurves /\ rates[k] \in Nat
      BY <1>1, <1>2, <2>1, <2>2 DEF IsAnnual
    <2> DEFINE interest == ray_mul(rates[k], d.annuity)
               df == ray_div(RAY - interest, RAY + rates[k])
    <2>4. SUFFICES ASSUME e.outcome = "Ok" PROVE e.dfs \in Seq(1..RAY) /\ Len(e.dfs) = k
      BY <2>2
    <2>5. /\ d.outcome = "Ok" /\ ~(interest > RAY) /\ df # 0 /\ ~(df > RAY)
          /\ e.dfs = Append(d.dfs, df)
      BY <2>3, <2>4 DEF AnnualStep, AnnualCurves
    <2>6. d.dfs \in Seq(1..RAY) /\ Len(d.dfs) = k - 1
      BY <1>4, <2>1, <2>5
    <2>7. interest \in Int
      <3>1. rates[k] \in Int /\ d.annuity \in Int
        BY <2>3 DEF AnnualCurves
      <3>2. ray_mul(rates[k], d.annuity) \in Nat
        BY <3>1, RayMulWord
      <3> QED
        BY <3>2
    <2> HIDE DEF interest
    <2>8. RAY - interest \in Nat /\ RAY + rates[k] \in Nat \ {0}
      BY <1>1, <2>3, <2>5, <2>7
    <2>9. df \in Nat
      <3>1. RAY - interest \in Int
        BY <2>8
      <3> QED
        BY <2>8, <3>1, RayDivWord
    <2>10. df \in 1..RAY
      BY <1>1, <2>5, <2>9
    <2> HIDE DEF df
    <2>11. Append(d.dfs, df) \in Seq(1..RAY) /\ Len(Append(d.dfs, df)) = Len(d.dfs) + 1
      BY <2>6, <2>10, AppendProperties
    <2> QED
      BY <1>1, <2>5, <2>6, <2>11
  <1> HIDE DEF Good
  <1>5. Bad = {}
    <2>1. SUFFICES ASSUME Bad # {} PROVE FALSE
      OBVIOUS
    <2>2. PICK k \in Bad : \A j \in Bad : k <= j
      <3>1. Bad \in SUBSET Nat
        BY <1>1
      <3> HIDE DEF Bad
      <3> QED
        BY <2>1, <3>1, SmallestNumber
    <2>3. k \in 0..n /\ ~Good(c[k], k) /\ k # 0
      BY <1>3, <2>2
    <2>4. k \in 1..n /\ k - 1 \in 0..n /\ ~(k <= k - 1)
      BY <1>1, <2>3
    <2>5. Good(c[k - 1], k - 1)
      BY <2>2, <2>4
    <2> QED
      BY <1>4, <2>3, <2>4, <2>5
  <1>6. n \in 0..n
    BY <1>1
  <1>7. Good(c[n], n)
    BY <1>5, <1>6
  <1>8. bootstrap_annual(rates) = c[n]
    BY <1>2 DEF IsAnnual
  <1>9. rates # <<>>
    <2>1. SUFFICES ASSUME rates = <<>> PROVE FALSE
      OBVIOUS
    <2>2. n = 0
      BY <2>1, EmptySeq
    <2> QED
      BY <1>2, <1>8, <2>1, <2>2 DEF IsAnnual, AnnualStart
  <1> QED
    BY <1>7, <1>8, <1>9 DEF Good

-----------------------------------------------------------------------------
(* interpolate_df. *)

\* How far a time lies between two nodes is a share of the interval, and at
\* the end of the interval all of it.
LEMMA WeightIsShare ==
  ASSUME NEW t \in Int, NEW from \in Int, NEW to \in Int, from < t, t <= to
  PROVE  /\ Weight(t, from, to) \in 0..RAY
         /\ t = to => Weight(t, from, to) = RAY
  <1> DEFINE x == (t - from) * RAY
             b == to - from
  <1>1. x \in Nat /\ b \in Nat \ {0} /\ RAY \in Nat \ {0} /\ t - from <= b
        /\ t - from \in Nat
    BY RayAssumption
  <1>2. x <= b * RAY
    BY <1>1
  <1>3. x < b * (RAY + 1) /\ b * 0 <= x
    BY <1>1, <1>2
  <1>4. x \div b \in Int /\ 0 <= x \div b /\ x \div b < RAY + 1
    BY <1>1, <1>3, DivBetween, DivBounds
  <1>5. ASSUME t = to PROVE x \div b = RAY
    <2>1. b * RAY <= x /\ x < b * RAY + b
      BY <1>1, <1>5
    <2> QED
      BY <1>1, <2>1, DivIs
  <1> QED
    BY <1>1, <1>4, <1>5 DEF Weight

\* Some date is the first that is not passed.
LEMMA FirstNotPassed ==
  ASSUME NEW dates \in Seq(Int), NEW t \in Int, \E l \in DOMAIN dates : ~(t > dates[l])
  PROVE  LET j == NodeBefore(t, dates) IN
         /\ j \in 0..(Len(dates) - 1)
         /\ t <= dates[j + 1]
         /\ j # 0 => t > dates[j]
         /\ \A k \in 1..j : t > dates[k]
  <1> DEFINE n == Len(dates)
             NotPassed == {i \in 1..n : ~(t > dates[i])}
             Opens(j) == t <= dates[j + 1] /\ \A k \in 1..j : t > dates[k]
  <1>1. n \in Nat /\ DOMAIN dates = 1..n /\ \A i \in 1..n : dates[i] \in Int
    BY LenProperties, ElementOfSeq
  <1>2. NotPassed \in SUBSET Nat /\ NotPassed # {}
    BY <1>1
  <1>3. PICK m \in NotPassed : \A k \in NotPassed : m <= k
    <2> HIDE DEF NotPassed
    <2> QED
      BY <1>2, SmallestNumber
  <1>4. m \in 1..n /\ t <= dates[m] /\ \A k \in 1..(m - 1) : t > dates[k]
    BY <1>1, <1>3
  <1>5. m - 1 \in 0..(n - 1) /\ (m - 1) + 1 = m
    BY <1>1, <1>4
  <1>6. Opens(m - 1)
    BY <1>4, <1>5
  <1>7. NodeBefore(t, dates) = CHOOSE j \in 0..(n - 1) : Opens(j)
    BY DEF NodeBefore
  <1> HIDE DEF Opens
  <1>8. NodeBefore(t, dates) \in 0..(n - 1) /\ Opens(NodeBefore(t, dates))
    BY <1>5, <1>6, <1>7
  <1> QED
    BY <1>1, <1>8 DEF Opens

\* Every time has a factor, whatever the order of the dates.
LEMMA InterpolatedIsInt ==
  ASSUME NEW dates \in Seq(Int), dates # <<>>,
         NEW dfs \in Seq(Int), Len(dfs) = Len(dates),
         NEW settlement \in Int, NEW t \in Int
  PROVE  interpolate_df(t, settlement, dates, dfs) \in Int
  <1> DEFINE n == Len(dates)
             j == NodeBefore(t, dates)
             from == IF j = 0 THEN settlement ELSE dates[j]
             w == Weight(t, from, dates[j + 1])
             q == interpolate_df(t, settlement, dates, dfs)
  <1>1. /\ n \in Nat /\ n >= 1 /\ DOMAIN dates = 1..n /\ RAY \in Int
        /\ \A i \in 1..n : dates[i] \in Int /\ dfs[i] \in Int
    BY LenProperties, ElementOfSeq, EmptySeq, RayAssumption
  <1>2. CASE t <= settlement
    BY <1>1, <1>2 DEF interpolate_df
  <1>3. CASE t > settlement /\ \A i \in DOMAIN dates : t > dates[i]
    <2>1. q = dfs[n]
      BY <1>3 DEF interpolate_df
    <2> QED
      BY <1>1, <2>1
  <1>4. CASE t > settlement /\ ~\A i \in DOMAIN dates : t > dates[i]
    <2>1. /\ j \in 0..(n - 1) /\ t <= dates[j + 1]
          /\ j # 0 => t > dates[j]
      BY <1>4, FirstNotPassed
    <2>2. q = IF j = 0 THEN RAY - ray_mul(w, RAY - dfs[1])
              ELSE ray_mul(RAY - w, dfs[j]) + ray_mul(w, dfs[j + 1])
      BY <1>4 DEF interpolate_df
    <2> HIDE DEF j, q
    <2>3. j + 1 \in 1..n /\ (j # 0 => j \in 1..n) /\ dates[j + 1] \in Int
      BY <1>1, <2>1
    <2>4. from \in Int /\ from < t
      BY <1>1, <1>4, <2>1, <2>3
    <2> HIDE DEF from
    <2>5. w \in Int
      BY <1>1, <2>1, <2>3, <2>4, WeightIsShare
    <2> HIDE DEF w
    <2>6. CASE j = 0
      <3>1. RAY - dfs[1] \in Int
        BY <1>1
      <3>2. ray_mul(w, RAY - dfs[1]) \in Nat
        BY <2>5, <3>1, RayMulWord
      <3> QED
        BY <1>1, <2>2, <2>6, <3>2 DEF q
    <2>7. CASE j # 0
      <3>1. dfs[j] \in Int /\ dfs[j + 1] \in Int /\ RAY - w \in Int
        BY <1>1, <2>3, <2>5, <2>7
      <3>2. ray_mul(RAY - w, dfs[j]) \in Nat /\ ray_mul(w, dfs[j + 1]) \in Nat
        BY <2>5, <3>1, RayMulWord
      <3> QED
        BY <2>2, <2>7, <3>2 DEF q
    <2> QED
      BY <2>6, <2>7
  <1> QED
    BY <1>2, <1>3, <1>4

\* The factor at a time up to a node depends on no factor after that node.
LEMMA InterpolatedBefore ==
  ASSUME NEW dates \in Seq(Int), NEW settlement \in Int, NEW t \in Int,
         NEW m \in 1..Len(dates), t <= dates[m],
         NEW dfs, NEW others, \A j \in 1..m : others[j] = dfs[j]
  PROVE  interpolate_df(t, settlement, dates, others) = interpolate_df(t, settlement, dates, dfs)
  <1> DEFINE n == Len(dates)
             j == NodeBefore(t, dates)
             w == Weight(t, IF j = 0 THEN settlement ELSE dates[j], dates[j + 1])
             q(fs) == interpolate_df(t, settlement, dates, fs)
  <1>1. n \in Nat /\ DOMAIN dates = 1..n /\ \A i \in 1..n : dates[i] \in Int
    BY LenProperties, ElementOfSeq
  <1>2. m \in DOMAIN dates /\ ~(t > dates[m])
    BY <1>1
  <1>3. CASE t <= settlement
    BY <1>3 DEF interpolate_df
  <1>4. CASE t > settlement
    <2>1. j \in 0..(n - 1) /\ \A k \in 1..j : t > dates[k]
      BY <1>2, FirstNotPassed
    <2>2. ~(t <= settlement)
      BY <1>4
    <2>3. \A fs : q(fs) = IF j = 0 THEN RAY - ray_mul(w, RAY - fs[1])
                          ELSE ray_mul(RAY - w, fs[j]) + ray_mul(w, fs[j + 1])
      BY <1>2, <2>2 DEF interpolate_df
    <2> HIDE DEF j, w, q
    <2>4. ~(m <= j)
      BY <1>2, <2>1
    <2>5. 1 \in 1..m /\ j + 1 \in 1..m /\ (j # 0 => j \in 1..m)
      BY <1>1, <2>1, <2>4
    <2>6. q(others) = q(dfs)
      BY <2>3, <2>5
    <2> QED
      BY <2>6 DEF q
  <1>5. t <= settlement \/ t > settlement
    OBVIOUS
  <1> QED
    BY <1>3, <1>4, <1>5

\* Neighbours that ascend make the whole list ascend.
LEMMA NeighboursAscend ==
  ASSUME NEW s \in Seq(Int), \A i \in 2..Len(s) : s[i - 1] < s[i], NEW i \in 1..Len(s)
  PROVE  \A j \in (i + 1)..Len(s) : s[i] < s[j]
  <1> DEFINE Late == {j \in (i + 1)..Len(s) : ~(s[i] < s[j])}
  <1>0. Len(s) \in Nat /\ \A j \in 1..Len(s) : s[j] \in Int
    BY ElementOfSeq, LenProperties
  <1>1. SUFFICES ASSUME Late # {} PROVE FALSE
    OBVIOUS
  <1>2. Late \in SUBSET Nat
    BY <1>0
  <1>3. PICK m \in Late : \A k \in Late : m <= k
    BY <1>1, <1>2, SmallestNumber
  <1>4. m \in (i + 1)..Len(s) /\ ~(s[i] < s[m]) /\ m - 1 \notin Late
    BY <1>0, <1>3
  <1>5. s[i] <= s[m - 1]
    <2>1. CASE m = i + 1
      BY <1>0, <2>1
    <2>2. CASE m # i + 1
      BY <1>0, <1>4, <2>2
    <2> QED
      BY <2>1, <2>2
  <1>6. m \in 2..Len(s) /\ m - 1 \in 1..Len(s) /\ m \in 1..Len(s)
    BY <1>0, <1>4
  <1>7. s[m - 1] < s[m]
    BY <1>6
  <1>8. s[i] \in Int /\ s[m - 1] \in Int /\ s[m] \in Int
    BY <1>0, <1>6
  <1> QED
    BY <1>4, <1>5, <1>7, <1>8

\* At a node the factor is the node's.
LEMMA NodeIsQuoted ==
  ASSUME NEW dates \in Seq(Int), NEW dfs \in Seq(0..RAY), Len(dfs) = Len(dates),
         \A i \in 2..Len(dates) : dates[i - 1] < dates[i],
         NEW settlement \in Int, NEW k \in 1..Len(dates), settlement < dates[1]
  PROVE  interpolate_df(dates[k], settlement, dates, dfs) = dfs[k]
  <1> DEFINE n == Len(dates)
             t == dates[k]
             j == NodeBefore(t, dates)
             from == IF j = 0 THEN settlement ELSE dates[j]
             w == Weight(t, from, dates[j + 1])
             q == interpolate_df(t, settlement, dates, dfs)
  <1>1. /\ n \in Nat /\ n >= 1 /\ DOMAIN dates = 1..n /\ RAY \in Nat /\ k \in 1..n
        /\ RAY < WORD /\ WORD \in Nat
        /\ \A i \in 1..n : dates[i] \in Int /\ dfs[i] \in 0..RAY
    BY LenProperties, ElementOfSeq, RayAssumption, WordAssumption
  <1>2. \A i \in 1..n : \A l \in (i + 1)..n : dates[i] < dates[l]
    BY NeighboursAscend
  <1>3. t \in Int /\ settlement < t
    <2>1. k = 1 \/ k \in 2..n
      BY <1>1
    <2>2. 1 \in 1..n /\ dates[1] \in Int
      BY <1>1
    <2> QED
      BY <1>1, <1>2, <2>1, <2>2
  <1>4. \E l \in DOMAIN dates : ~(t > dates[l])
    <2>1. k \in DOMAIN dates /\ dates[k] \in Int /\ t = dates[k]
      BY <1>1
    <2> HIDE DEF t
    <2>2. ~(t > dates[k])
      BY <2>1
    <2> QED
      BY <2>1, <2>2
  <1>5. /\ j \in 0..(n - 1)
        /\ t <= dates[j + 1]
        /\ j # 0 => t > dates[j]
    BY <1>3, <1>4, FirstNotPassed
  <1>6. q = IF j = 0 THEN RAY - ray_mul(w, RAY - dfs[1])
            ELSE ray_mul(RAY - w, dfs[j]) + ray_mul(w, dfs[j + 1])
    <2>1. ~(t <= settlement)
      BY <1>3
    <2> QED
      BY <1>4, <2>1 DEF interpolate_df
  <1> HIDE DEF t, j, q
  <1>7. k = j + 1
    <2>1. ~(j + 1 < k)
      <3>1. SUFFICES ASSUME j + 1 < k PROVE FALSE
        OBVIOUS
      <3>2. j + 1 \in 1..n /\ k \in ((j + 1) + 1)..n
        BY <1>1, <1>5, <3>1
      <3>3. dates[j + 1] < dates[k] /\ dates[j + 1] \in Int
        BY <1>1, <1>2, <3>2
      <3> QED
        BY <1>3, <1>5, <3>3 DEF t
    <2>2. ~(k <= j)
      <3>1. SUFFICES ASSUME k <= j PROVE FALSE
        OBVIOUS
      <3>2. j \in 1..n /\ j # 0 /\ dates[j] \in Int
        BY <1>1, <1>5, <3>1
      <3>3. k = j \/ dates[k] < dates[j]
        <4>1. k = j \/ j \in (k + 1)..n
          BY <1>1, <3>1, <3>2
        <4> QED
          BY <1>1, <1>2, <4>1
      <3> QED
        BY <1>3, <1>5, <3>2, <3>3 DEF t
    <2> QED
      BY <1>1, <1>5, <2>1, <2>2
  <1>8. w = RAY
    <2>1. from \in Int /\ from < t /\ t = dates[j + 1]
      <3>1. j = 0 \/ j \in 1..n
        BY <1>1, <1>5
      <3> QED
        BY <1>1, <1>3, <1>5, <1>7, <3>1 DEF t
    <2> HIDE DEF from
    <2> QED
      BY <1>3, <2>1, WeightIsShare
  <1> HIDE DEF w
  <1>9. CASE j = 0
    <2>1. RAY - dfs[1] \in Nat /\ RAY - dfs[1] < WORD /\ dfs[1] \in Int /\ k = 1
      BY <1>1, <1>7, <1>9
    <2>2. ray_mul(w, RAY - dfs[1]) = RAY - dfs[1]
      BY <1>8, <2>1, RayMulOne
    <2>3. q = dfs[1]
      BY <1>1, <1>6, <1>9, <2>1, <2>2
    <2> QED
      BY <2>1, <2>3 DEF q, t
  <1>10. CASE j # 0
    <2>1. /\ j \in 1..n /\ dfs[j] \in Nat /\ dfs[k] \in Nat
          /\ dfs[j] < WORD /\ dfs[k] < WORD
      <3>1. j \in 1..n /\ k \in 1..n
        BY <1>1, <1>5, <1>10
      <3>2. dfs[j] \in 0..RAY /\ dfs[k] \in 0..RAY
        BY <1>1, <3>1
      <3> QED
        BY <1>1, <3>1, <3>2
    <2>2. RAY - w = 0
      BY <1>1, <1>8
    <2>3. ray_mul(RAY - w, dfs[j]) = 0 /\ ray_mul(w, dfs[j + 1]) = dfs[k]
      BY <1>7, <1>8, <2>1, <2>2, RayMulOne
    <2>4. q = dfs[k]
      BY <1>6, <1>10, <2>1, <2>3
    <2> QED
      BY <2>4 DEF q, t
  <1> QED
    BY <1>9, <1>10

-----------------------------------------------------------------------------
(* What makes a rate par. *)

\* What the loop of bootstrap_annual leaves: the annuity before each factor
\* and the factor it gives.
Discounts(d, a, rates) ==
  /\ a[0] = 0
  /\ \A k \in 1..Len(rates) :
       /\ a[k - 1] \in 0..((k - 1) * RAY) /\ a[k] \in Nat
       /\ ray_mul(rates[k], a[k - 1]) <= RAY
       /\ d[k] = ray_div(RAY - ray_mul(rates[k], a[k - 1]), RAY + rates[k])
       /\ a[k] = a[k - 1] + d[k]

\* The curve after its first rates.
Discounted(c, rates, k) ==
  /\ Len(c[k].dfs) = k
  /\ c[0].annuity = 0
  /\ c[k].annuity \in 0..(k * RAY)
  /\ \A j \in 1..k :
       /\ c[j - 1].annuity \in 0..((j - 1) * RAY)
       /\ ray_mul(rates[j], c[j - 1].annuity) <= RAY
       /\ c[k].dfs[j] = ray_div(RAY - ray_mul(rates[j], c[j - 1].annuity), RAY + rates[j])
       /\ c[j].annuity = c[j - 1].annuity + c[k].dfs[j]

LEMMA AnnualPeriods ==
  ASSUME NEW rates \in Seq(Nat), bootstrap_annual(rates).outcome = "Ok"
  PROVE  \E a : Discounts(bootstrap_annual(rates).dfs, a, rates)
  <1> DEFINE n == Len(rates)
  <1>1. n \in Nat /\ \A k \in 1..n : rates[k] \in Nat
    BY LenProperties, ElementOfSeq
  <1>2. PICK c : IsAnnual(c, rates)
    BY AnnualIs
  <1> DEFINE Good(k) == c[k].outcome = "Ok" => Discounted(c, rates, k)
             Bad == {k \in 0..n : ~Good(k)}
  <1>3. c[0].annuity = 0 /\ c[0].dfs = <<>>
    BY <1>2 DEF IsAnnual, AnnualStart
  <1>4. Good(0)
    BY <1>3, EmptySeq, RayAssumption DEF Discounted
  <1>5. ASSUME NEW k \in 1..n, Good(k - 1) PROVE Good(k)
    <2>1. PICK d : d = c[k - 1]
      OBVIOUS
    <2>2. PICK e : e = c[k]
      OBVIOUS
    <2>3. e = AnnualStep(d, rates[k]) /\ d \in AnnualCurves /\ e \in AnnualCurves
      <3>1. k - 1 \in 0..n /\ k \in 0..n
        BY <1>1
      <3> QED
        BY <1>2, <2>1, <2>2, <3>1 DEF IsAnnual
    <2> DEFINE interest == ray_mul(rates[k], d.annuity)
               df == ray_div(RAY - interest, RAY + rates[k])
    <2>4. SUFFICES ASSUME e.outcome = "Ok" PROVE Discounted(c, rates, k)
      BY <2>2
    <2>5. /\ d.outcome = "Ok" /\ ~(interest > RAY) /\ ~(df > RAY)
          /\ e.dfs = Append(d.dfs, df) /\ e.annuity = d.annuity + df
      BY <2>3, <2>4 DEF AnnualStep, AnnualCurves
    <2>6. Discounted(c, rates, k - 1)
      BY <1>5, <2>1, <2>5
    <2>7. d.dfs \in Seq(Int) /\ Len(d.dfs) = k - 1
      BY <2>1, <2>3, <2>6 DEF Discounted, AnnualCurves
    <2>8. interest \in Nat /\ df \in Nat
      <3>1. rates[k] \in Nat /\ rates[k] \in Int /\ d.annuity \in Int /\ e.annuity \in Int
        BY <1>1, <2>3 DEF AnnualCurves
      <3>2. interest \in Nat
        BY <3>1, RayMulWord
      <3> HIDE DEF interest
      <3>3. RAY - interest \in Int /\ RAY + rates[k] \in Nat \ {0}
        BY <3>1, <3>2, RayAssumption
      <3> QED
        BY <3>2, <3>3, RayDivWord
    <2> HIDE DEF df
    <2>11. d.annuity \in 0..((k - 1) * RAY)
      BY <2>1, <2>6 DEF Discounted
    <2>12. e.annuity \in 0..(k * RAY)
      <3>1. (k - 1) * RAY \in Nat /\ (k - 1) * RAY + RAY = k * RAY /\ RAY \in Nat
        BY <1>1, RayAssumption
      <3>2. df <= RAY
        BY <2>5, <2>8, <3>1
      <3> QED
        BY <2>5, <2>8, <2>11, <3>1, <3>2
    <2>13. interest <= RAY
      BY <2>5, <2>8, RayAssumption
    <2>9. /\ Len(e.dfs) = k /\ e.dfs[k] = df
          /\ \A j \in 1..(k - 1) : e.dfs[j] = d.dfs[j]
      BY <1>1, <2>5, <2>7, <2>8, AppendProperties
    <2>10. ASSUME NEW j \in 1..k
           PROVE  /\ c[j - 1].annuity \in 0..((j - 1) * RAY)
                  /\ ray_mul(rates[j], c[j - 1].annuity) <= RAY
                  /\ e.dfs[j] = ray_div(RAY - ray_mul(rates[j], c[j - 1].annuity), RAY + rates[j])
                  /\ c[j].annuity = c[j - 1].annuity + e.dfs[j]
      <3>1. CASE j = k
        BY <2>1, <2>2, <2>5, <2>9, <2>11, <2>13, <3>1 DEF df, interest
      <3>2. CASE j # k
        <4>1. j \in 1..(k - 1)
          BY <3>2
        <4> QED
          BY <2>1, <2>6, <2>9, <4>1 DEF Discounted
      <3> QED
        BY <3>1, <3>2
    <2> QED
      BY <1>3, <2>2, <2>9, <2>10, <2>12 DEF Discounted
  <1> HIDE DEF Good
  <1>6. Bad = {}
    <2>1. SUFFICES ASSUME Bad # {} PROVE FALSE
      OBVIOUS
    <2>2. PICK k \in Bad : \A j \in Bad : k <= j
      <3>1. Bad \in SUBSET Nat
        BY <1>1
      <3> HIDE DEF Bad
      <3> QED
        BY <2>1, <3>1, SmallestNumber
    <2>3. k \in 0..n /\ ~Good(k) /\ k # 0
      BY <1>4, <2>2
    <2>4. k \in 1..n /\ k - 1 \in 0..n /\ ~(k <= k - 1)
      BY <1>1, <2>3
    <2>5. Good(k - 1)
      BY <2>2, <2>4
    <2> QED
      BY <1>5, <2>3, <2>4, <2>5
  <1>7. bootstrap_annual(rates) = c[n] /\ n \in 0..n
    BY <1>1, <1>2 DEF IsAnnual
  <1>8. Discounted(c, rates, n)
    BY <1>6, <1>7 DEF Good
  <1> DEFINE a == [k \in 0..n |-> c[k].annuity]
             d == bootstrap_annual(rates).dfs
  <1>9. \A k \in 0..n : a[k] = c[k].annuity /\ a[k] \in Int
    BY <1>2 DEF IsAnnual, AnnualCurves
  <1> HIDE DEF a
  <1>10. a[0] = 0
    BY <1>1, <1>3, <1>9
  <1>11. ASSUME NEW k \in 1..n
         PROVE  /\ a[k - 1] \in 0..((k - 1) * RAY) /\ a[k] \in Nat
                /\ ray_mul(rates[k], a[k - 1]) <= RAY
                /\ d[k] = ray_div(RAY - ray_mul(rates[k], a[k - 1]), RAY + rates[k])
                /\ a[k] = a[k - 1] + d[k]
    <2>1. k \in 0..n /\ k - 1 \in 0..n
      BY <1>1
    <2>2. /\ a[k - 1] \in 0..((k - 1) * RAY)
          /\ ray_mul(rates[k], a[k - 1]) <= RAY
          /\ d[k] = ray_div(RAY - ray_mul(rates[k], a[k - 1]), RAY + rates[k])
          /\ a[k] = a[k - 1] + d[k]
      BY <1>7, <1>8, <1>9, <2>1 DEF Discounted
    <2>3. d[k] \in Nat
      <3>1. rates[k] \in Nat /\ rates[k] \in Int /\ a[k - 1] \in Int /\ RAY \in Nat \ {0}
        BY <1>1, <1>9, <2>1, RayAssumption
      <3>2. PICK I \in Nat : I = ray_mul(rates[k], a[k - 1])
        BY <3>1, RayMulWord
      <3>3. RAY - I \in Int /\ RAY + rates[k] \in Nat \ {0}
        BY <3>1, <3>2
      <3>4. ray_div(RAY - I, RAY + rates[k]) \in Nat
        BY <3>3, RayDivWord
      <3> QED
        BY <2>2, <3>2, <3>4
    <2>4. a[k] \in Nat
      BY <1>9, <2>1, <2>2, <2>3
    <2> QED
      BY <2>2, <2>4
  <1>12. Discounts(d, a, rates)
    BY <1>10, <1>11 DEF Discounts
  <1> QED
    BY <1>12

\* The factors of the first years depend on the rates of those years only.
LEMMA FactorsBefore ==
  ASSUME NEW r \in Seq(Nat), bootstrap_annual(r).outcome = "Ok",
         NEW q \in Seq(Nat), bootstrap_annual(q).outcome = "Ok", Len(q) = Len(r),
         NEW m \in 0..Len(r), \A j \in 1..m : q[j] = r[j]
  PROVE  \A j \in 1..m : bootstrap_annual(q).dfs[j] = bootstrap_annual(r).dfs[j]
  <1> DEFINE d == bootstrap_annual(r).dfs
             e == bootstrap_annual(q).dfs
  <1>1. PICK a : Discounts(d, a, r)
    BY AnnualPeriods
  <1>2. PICK b : Discounts(e, b, q)
    BY AnnualPeriods
  <1>3. Len(r) \in Nat
    BY LenProperties
  <1> HIDE DEF d, e
  <1>4. a[0] = 0 /\ b[0] = 0
    BY <1>1, <1>2 DEF Discounts
  <1>5. ASSUME NEW j \in 1..m, b[j - 1] = a[j - 1]
        PROVE  e[j] = d[j] /\ b[j] = a[j]
    <2>1. j \in 1..Len(r) /\ j \in 1..Len(q) /\ q[j] = r[j]
      BY <1>3
    <2>2. /\ d[j] = ray_div(RAY - ray_mul(r[j], a[j - 1]), RAY + r[j])
          /\ a[j] = a[j - 1] + d[j]
      BY <1>1, <2>1 DEF Discounts
    <2>3. /\ e[j] = ray_div(RAY - ray_mul(q[j], b[j - 1]), RAY + q[j])
          /\ b[j] = b[j - 1] + e[j]
      BY <1>2, <2>1 DEF Discounts
    <2> QED
      BY <1>5, <2>1, <2>2, <2>3
  <1> DEFINE Bad == {j \in 1..m : b[j] # a[j]}
  <1>6. Bad = {}
    <2>1. SUFFICES ASSUME Bad # {} PROVE FALSE
      OBVIOUS
    <2>2. Bad \in SUBSET Nat
      BY <1>3
    <2>3. PICK j \in Bad : \A i \in Bad : j <= i
      BY <2>1, <2>2, SmallestNumber
    <2>4. j \in 1..m /\ b[j] # a[j] /\ j - 1 \notin Bad
      BY <1>3, <2>3
    <2>5. b[j - 1] = a[j - 1]
      <3>1. CASE j = 1
        BY <1>4, <3>1
      <3>2. CASE j # 1
        BY <1>3, <2>4, <3>2
      <3> QED
        BY <3>1, <3>2
    <2> QED
      BY <1>5, <2>4, <2>5
  <1>7. ASSUME NEW j \in 1..m PROVE e[j] = d[j]
    <2>1. j - 1 = 0 \/ j - 1 \in 1..m
      BY <1>3
    <2>2. b[j - 1] = a[j - 1]
      BY <1>4, <1>6, <2>1
    <2> QED
      BY <1>5, <2>2
  <1> QED
    BY <1>7 DEF d, e

\* A curve makes each of its rates par, if a coupon at the rate over all the
\* years fits a word: what the factor and the annuity up
\* to it leave of one are the roundings of its own year.
LEMMA RatesArePar ==
  ASSUME NEW rates \in Seq(Nat), NEW d, NEW a, Discounts(d, a, rates),
         NEW n \in 1..Len(rates), rates[n] * Len(rates) < WORD
  PROVE  LET off == RAY * RAY - RAY * d[n] - rates[n] * a[n]
         IN /\ d[n] \in Int /\ off \in Int
            /\ 2 * off <= 2 * RAY + rates[n]
            /\ -(2 * RAY + rates[n]) <= 2 * off
  <1> DEFINE r == rates[n]
             A == a[n - 1]
             f == d[n]
             I == ray_mul(r, A)
  <1>1. r \in Nat /\ r \in Int /\ RAY \in Nat \ {0} /\ WORD \in Nat /\ Len(rates) \in Nat
    BY ElementOfSeq, LenProperties, RayAssumption, WordAssumption
  <1>2. /\ A \in 0..((n - 1) * RAY) /\ I <= RAY
        /\ f = ray_div(RAY - I, RAY + r) /\ a[n] = A + f
    BY DEF Discounts
  <1>8. A \in Nat /\ r * A + HALF_RAY < RAY * WORD
    <2>1. PICK m \in Nat, L \in Nat : m = n - 1 /\ L = Len(rates) /\ m <= L
      <3>1. n - 1 \in Nat /\ n - 1 <= Len(rates)
        BY <1>1
      <3> QED
        BY <1>1, <3>1
    <2>2. A \in Nat /\ A <= m * RAY /\ r * L < WORD
      BY <1>1, <1>2, <2>1
    <2>3. HALF_RAY \in Nat /\ HALF_RAY < RAY
      BY HalfRay
    <2> HIDE DEF A, r
    <2>4. PICK p \in Nat : p = r * m
      BY <1>1
    <2>5. r * A <= r * (m * RAY) /\ r * (m * RAY) = RAY * p
      BY <1>1, <2>2, <2>4
    <2>6. p <= r * L /\ p + 1 <= WORD
      BY <1>1, <2>1, <2>2, <2>4
    <2>7. RAY * (p + 1) <= RAY * WORD /\ RAY * (p + 1) = RAY * p + RAY
      BY <1>1, <2>4, <2>6
    <2>8. r * A \in Nat /\ RAY * p \in Nat /\ RAY * WORD \in Nat
      BY <1>1, <2>2, <2>4
    <2> QED
      BY <1>1, <2>2, <2>3, <2>5, <2>7, <2>8
  <1>3. I \in Nat /\ RAY * I <= r * A + HALF_RAY /\ r * A - HALF_RAY < RAY * I
    BY <1>1, <1>8, RayMulNearest
  <1> HIDE DEF I
  <1>4. /\ f \in Int
        /\ 2 * ((RAY + r) * f) <= 2 * ((RAY - I) * RAY) + (RAY + r)
        /\ 2 * ((RAY - I) * RAY) - (RAY + r) < 2 * ((RAY + r) * f)
    <2>1. RAY - I \in 0..RAY /\ RAY - I \in Nat /\ RAY + r \in Nat \ {0} /\ RAY <= RAY + r
      BY <1>1, <1>2, <1>3
    <2>2. (RAY - I) * RAY + (RAY + r) \div 2 < (RAY + r) * WORD
      BY <2>1, QuotientFits
    <2> QED
      BY <1>2, <2>1, <2>2, RayDivNearest
  <1> HIDE DEF r, A, f
  <1>5. /\ (RAY + r) * f = RAY * f + r * f /\ (RAY - I) * RAY = RAY * RAY - RAY * I
        /\ r * (A + f) = r * A + r * f
        /\ RAY * f \in Int /\ r * f \in Int /\ RAY * RAY \in Int /\ RAY * I \in Int /\ r * A \in Int
    <2>1. r \in Int /\ RAY \in Int /\ A \in Int /\ f \in Int /\ I \in Int
      BY <1>1, <1>3, <1>4, <1>8
    <2> QED
      BY ONLY <2>1, SMT
  <1>6. HALF_RAY + HALF_RAY = RAY /\ HALF_RAY \in Int
    BY HalfRay
  <1>7. LET off == RAY * RAY - RAY * f - r * (A + f)
        IN off \in Int /\ 2 * off <= 2 * RAY + r /\ -(2 * RAY + r) <= 2 * off
    <2>1. r \in Int /\ RAY \in Int
      BY <1>1
    <2> QED
      BY ONLY <1>3, <1>4, <1>5, <1>6, <2>1, SMT
  <1> QED
    BY <1>2, <1>4, <1>7 DEF f, r, A

\* Values that are each near the difference of two neighbours of a sequence
\* come to the difference of its ends, but for as many errors.
LEMMA SumTelescopes ==
  ASSUME NEW n \in Nat, NEW V, NEW g, NEW m \in Int, NEW e \in Int,
         \A k \in 0..n : g[k] \in Int,
         \A k \in 1..n : /\ V[k] \in Int
                         /\ m * V[k] - (g[k] - g[k - 1]) <= e
                         /\ -e <= m * V[k] - (g[k] - g[k - 1])
  PROVE  /\ SumFunctionOnSet(V, 1..n) \in Int
         /\ m * SumFunctionOnSet(V, 1..n) - (g[n] - g[0]) <= n * e
         /\ -(n * e) <= m * SumFunctionOnSet(V, 1..n) - (g[n] - g[0])
  <1> DEFINE sum(k) == SumFunctionOnSet(V, 1..k)
             Good(k) == /\ m * sum(k) - (g[k] - g[0]) <= k * e
                        /\ -(k * e) <= m * sum(k) - (g[k] - g[0])
             Bad == {k \in 0..n : ~Good(k)}
  <1>1. IsFiniteSet(1..n) /\ Summable(V, 1..n)
    BY FS_Interval DEF Summable
  <1>2. ASSUME NEW k \in 0..n
        PROVE  /\ sum(k) \in Int
               /\ k = 0 => sum(k) = 0
               /\ k # 0 => sum(k) = V[k] + sum(k - 1)
    <2>1. 1..k \in SUBSET (1..n) /\ (k = 0 => 1..k = {})
      OBVIOUS
    <2>2. sum(k) \in Int /\ (k = 0 => sum(k) = 0)
      BY <1>1, <2>1, SumOfSubset
    <2>3. ASSUME k # 0 PROVE sum(k) = V[k] + sum(k - 1)
      <3>1. k \in 1..n /\ k \in 1..k
        BY <2>3
      <3>2. (1..k) \ {k} = 1..(k - 1)
        BY <3>1, LargestOfFirst
      <3>3. \A x \in 1..k : sum(k) = V[x] + SumFunctionOnSet(V, (1..k) \ {x})
        <4>1. PICK S, T : S = 1..n /\ T = 1..k
          OBVIOUS
        <4>2. Summable(V, S) /\ T \in SUBSET S
          BY <1>1, <2>1, <4>1
        <4>3. \A x \in T : SumFunctionOnSet(V, T) = V[x] + SumFunctionOnSet(V, T \ {x})
          BY ONLY <4>2, SumOfSubset
        <4> QED
          BY <4>1, <4>3
      <3> HIDE DEF sum
      <3>4. sum(k) = V[k] + SumFunctionOnSet(V, (1..k) \ {k})
        BY <3>1, <3>3
      <3>5. sum(k) = V[k] + SumFunctionOnSet(V, 1..(k - 1))
        BY <3>2, <3>4
      <3> QED
        BY <3>5 DEF sum
    <2> QED
      BY <2>2, <2>3
  <1> HIDE DEF sum
  <1>3. Bad = {}
    <2>1. SUFFICES ASSUME Bad # {} PROVE FALSE
      OBVIOUS
    <2>2. PICK k \in Bad : \A j \in Bad : k <= j
      <3>1. Bad \in SUBSET Nat
        OBVIOUS
      <3> HIDE DEF Bad
      <3> QED
        BY <2>1, <3>1, SmallestNumber
    <2>3. k \in 0..n /\ ~Good(k)
      BY <2>2
    <2>4. k # 0
      <3>1. SUFFICES ASSUME k = 0 PROVE FALSE
        OBVIOUS
      <3>2. sum(0) = 0 /\ g[0] \in Int
        BY <1>2, <3>1
      <3> QED
        BY <2>3, <3>1, <3>2
    <2>5. k \in 1..n /\ k - 1 \in 0..n /\ ~(k <= k - 1)
      BY <2>3, <2>4
    <2>6. Good(k - 1)
      BY <2>2, <2>5
    <2>7. PICK s \in Int : s = sum(k - 1)
      BY <1>2, <2>5
    <2>8. sum(k) = V[k] + s
      BY <1>2, <2>3, <2>4, <2>7
    <2>9. PICK v \in Int : v = V[k] /\ m * v - (g[k] - g[k - 1]) <= e
                                   /\ -e <= m * v - (g[k] - g[k - 1])
      BY <2>5
    <2>10. m * (v + s) = m * v + m * s /\ (k - 1) * e = k * e - e
           /\ m * v \in Int /\ m * s \in Int /\ k * e \in Int
      BY <2>3
    <2>11. g[k] \in Int /\ g[k - 1] \in Int /\ g[0] \in Int
      BY <2>3, <2>5
    <2>12. m * s - (g[k - 1] - g[0]) <= k * e - e /\ -(k * e - e) <= m * s - (g[k - 1] - g[0])
      BY <2>6, <2>7, <2>10
    <2>13. m * sum(k) = m * v + m * s
      BY <2>8, <2>9, <2>10
    <2>14. Good(k)
      BY <2>9, <2>10, <2>11, <2>12, <2>13
    <2> QED
      BY <2>3, <2>14
  <1>4. n \in 0..n
    OBVIOUS
  <1> QED
    BY <1>2, <1>3, <1>4 DEF sum

=============================================================================
