------------------------ MODULE DiscountCurve_proofs ------------------------
(***************************************************************************)
(* What holds of the bootstrap and of the interpolation for every RAY,     *)
(* every unsigned rate and every list of dates: the types, the range of    *)
(* the factors, how far a swap is off par, and where a factor lies.        *)
(***************************************************************************)
EXTENDS DiscountCurve, CurveMath_proofs

-----------------------------------------------------------------------------
(* The inductive invariant. *)

CurveTypes ==
  /\ rates \in SwapRates
  /\ dates \in PaymentDates
  /\ ppy \in Frequencies
  /\ dfs \in Seq(Int)
  /\ annuity_sum \in Nat
  /\ outcome \in {"called", "bootstrapping", "Ok"} \union Errors
  /\ quote \in [time : Nat, df : Nat]

\* What the checks at the head of bootstrap_ois leave the loop with, also
\* when it fails after some periods.
Validated ==
  outcome \in {"bootstrapping", "Ok"} \/ dfs # <<>> =>
    /\ rates # <<>>
    /\ Len(dates) = Len(rates) * ppy
    /\ Ascending(dates)
    /\ dates[1] > Settlement

\* A factor for each period done, and for each period once it returned.
FactorsFound ==
  /\ outcome = "called" => dfs = <<>> /\ annuity_sum = 0
  /\ Len(dfs) <= Len(dates)
  /\ outcome = "Ok" => Len(dfs) = Len(dates)

\* Factors are at most one, so the annuity is at most the time it runs over.
AnnuityInSpan == annuity_sum <= Span(NodeDate(Len(dfs)))

\* Nothing is asked of a curve that is not finished.
QuotedOnceFinished == quote.time > Settlement => outcome = "Ok"

IInv ==
  /\ CurveTypes
  /\ Validated
  /\ FactorsFound
  /\ FactorsInRange
  /\ AnnuityInSpan
  /\ QuotedOnceFinished
  /\ QuoteBetweenNodes
  /\ RepricesPar

-----------------------------------------------------------------------------
(* Ascending dates. *)

\* Neighbours that ascend make the whole list ascend: of the dates after one
\* that do not lie after it, the first would follow one that does.
LEMMA AscendingIsMonotone ==
  ASSUME NEW ds \in Seq(Nat), Ascending(ds), NEW i \in 1..Len(ds)
  PROVE  \A j \in (i + 1)..Len(ds) : ds[i] < ds[j]
  <1> DEFINE Late == {j \in (i + 1)..Len(ds) : ~(ds[i] < ds[j])}
  <1>0. Len(ds) \in Nat /\ \A j \in 1..Len(ds) : ds[j] \in Nat
    BY ElementOfSeq, LenProperties
  <1>1. SUFFICES ASSUME Late # {} PROVE FALSE
    OBVIOUS
  <1>2. Late \in SUBSET Nat
    BY <1>0
  <1>3. PICK m \in Late : \A k \in Late : m <= k
    BY <1>1, <1>2, SmallestNumber
  <1>4. m \in (i + 1)..Len(ds) /\ ~(ds[i] < ds[m]) /\ m - 1 \notin Late
    BY <1>0, <1>3
  <1>5. ds[i] <= ds[m - 1]
    <2>1. CASE m = i + 1
      BY <1>0, <2>1
    <2>2. CASE m # i + 1
      BY <1>0, <1>4, <2>2
    <2> QED
      BY <2>1, <2>2
  <1>6. m \in 2..Len(ds)
    BY <1>0, <1>4
  <1>7. ds[m - 1] < ds[m]
    BY <1>0, <1>6 DEF Ascending
  <1> QED
    BY <1>0, <1>4, <1>5, <1>6, <1>7

-----------------------------------------------------------------------------
(* One period. *)

\* The types of what the loop reads.
LEMMA ArgumentTypes ==
  ASSUME CurveTypes
  PROVE  /\ rates \in Seq(Nat) /\ dates \in Seq(Nat) /\ ppy \in Nat \ {0}
         /\ Len(rates) \in Nat /\ Len(dates) \in Nat /\ Len(dfs) \in Nat
         /\ \A i \in 1..Len(rates) : rates[i] \in Nat
         /\ \A i \in 1..Len(dates) : dates[i] \in Nat
         /\ \A i \in 1..Len(dfs) : dfs[i] \in Int
         /\ Settlement \in Nat /\ BASIS \in Nat \ {0} /\ RAY \in Nat \ {0}
  <1>1. rates \in Seq(Nat) /\ dates \in Seq(Nat) /\ ppy \in Nat \ {0} /\ dfs \in Seq(Int)
    BY DiscountCurveAssumption DEF CurveTypes
  <1> QED
    BY <1>1, ElementOfSeq, LenProperties, DiscountCurveAssumption, RayAssumption

\* The rate that applies to a period is one of the rates quoted: the periods
\* are as many as the years times the payments a year.
LEMMA PeriodRateIsQuoted ==
  ASSUME CurveTypes, Len(dates) = Len(rates) * ppy, NEW i \in 1..Len(dates)
  PROVE  PeriodRate(i) \in Nat /\ \E k \in DOMAIN rates : PeriodRate(i) = rates[k]
  <1> DEFINE y == (i - 1) \div ppy
  <1>1. i - 1 \in Nat /\ ppy \in Nat \ {0} /\ Len(rates) \in Nat
        /\ i - 1 < ppy * Len(rates)
    BY ArgumentTypes
  <1>2. y \in Int /\ 0 <= y
    BY <1>1, DivBetween, DivBounds
  <1>3. y < Len(rates)
    BY <1>1, DivBetween
  <1>4. y + 1 \in 1..Len(rates)
    BY <1>1, <1>2, <1>3
  <1>5. DOMAIN rates = 1..Len(rates)
    BY ArgumentTypes, LenProperties
  <1> QED
    BY <1>4, <1>5, ArgumentTypes DEF PeriodRate

\* A period of dates that ascend is as long as its dates say, and its
\* denominator is one at least.
LEMMA PeriodTypes ==
  ASSUME CurveTypes, Validated, outcome \in {"bootstrapping", "Ok"} \/ dfs # <<>>,
         NEW i \in 1..Len(dates)
  PROVE  /\ PeriodRate(i) \in Nat
         /\ Tau(i) \in Nat
         /\ ray_mul(PeriodRate(i), Tau(i)) \in Nat
         /\ Denominator(i) = RAY + ray_mul(PeriodRate(i), Tau(i))
         /\ Denominator(i) \in Nat \ {0} /\ Denominator(i) >= RAY
  <1>1. PeriodRate(i) \in Nat
    BY PeriodRateIsQuoted DEF Validated
  <1>2. dates[i] - PeriodStart(i) \in Nat
    <2>1. CASE i = 1
      BY <2>1, ArgumentTypes DEF Validated, PeriodStart
    <2>2. CASE i # 1
      <3>1. i \in 2..Len(dates) /\ i - 1 \in 1..Len(dates)
        BY <2>2, ArgumentTypes
      <3>2. dates[i] > dates[i - 1] /\ dates[i] \in Nat /\ dates[i - 1] \in Nat
        BY <3>1, ArgumentTypes DEF Validated, Ascending
      <3> QED
        BY <2>2, <3>2 DEF PeriodStart
    <2> QED
      BY <2>1, <2>2
  <1>3. Tau(i) \in Nat
    <2> DEFINE x == (dates[i] - PeriodStart(i)) * RAY
    <2>1. x \in Nat /\ BASIS \in Nat \ {0}
      BY <1>2, ArgumentTypes
    <2>2. x \div BASIS \in Int /\ 0 <= x \div BASIS
      BY <2>1, DivBetween, DivBounds
    <2> QED
      BY <2>2 DEF Tau, ActualFraction
  <1>4. ray_mul(PeriodRate(i), Tau(i)) \in Nat
    BY <1>1, <1>3, RayMulRange
  <1> QED
    BY <1>1, <1>3, <1>4, ArgumentTypes DEF Denominator

\* A quotient of what is left of the principal by one or more is no more
\* than one: the half unit of the rounding does not carry it over.
LEMMA FactorAtMostOne ==
  ASSUME NEW a \in Nat, a <= RAY, NEW b \in Nat \ {0}, b >= RAY
  PROVE  ray_div(a, b) \in 0..RAY
  <1> DEFINE x == a * RAY + b \div 2
  <1>1. RAY \in Nat \ {0} /\ b \div 2 \in Nat /\ b \div 2 < b
    BY RayAssumption
  <1>2. a * RAY \in Nat /\ a * RAY <= b * RAY
    BY <1>1
  <1>3. x \in Nat /\ x < b * (RAY + 1) /\ b * 0 <= x
    BY <1>1, <1>2
  <1>4. x \div b < RAY + 1 /\ 0 <= x \div b /\ x \div b \in Int
    <2> HIDE DEF x
    <2> QED
      BY <1>1, <1>3, DivBetween, DivBounds
  <1>5. ray_div(a, b) = x \div b
    <2>1. x \div b \in Nat /\ x \div b < WORD
      BY <1>1, <1>4, WordAssumption
    <2> HIDE DEF x
    <2>2. (x \div b) % WORD = x \div b
      BY <2>1, CutToWord
    <2> QED
      BY <2>2 DEF x, ray_div, WideQuotient
  <1> HIDE DEF x
  <1> QED
    BY <1>1, <1>4, <1>5

-----------------------------------------------------------------------------
(* What fits a word. *)

\* A product with what fits.
LEMMA ProductsFit ==
  ASSUME NEW r \in Nat, NEW s \in Nat, Fits(r, s), NEW x \in Nat, x <= s
  PROVE  /\ r * x + HALF_RAY < RAY * WORD
         /\ x < WORD
         /\ RAY * (2 * r + s + 4 * RAY) + r * x + HALF_RAY < RAY * WORD
  <1>1. RAY \in Nat \ {0} /\ HALF_RAY \in Nat /\ WORD \in Nat
    BY HalfRay, RayAssumption, WordAssumption
  <1>2. PICK p \in Nat, q \in Nat, u \in Nat, t \in Nat, v \in Nat :
          p = r * s /\ q = RAY * s /\ u = RAY * RAY /\ t = r * RAY /\ v = r * x
    BY <1>1
  <1>3. (r + RAY) * (s + 4 * RAY) = p + 4 * t + q + 4 * u
    BY <1>1, <1>2
  <1>4. v <= p
    BY <1>1, <1>2
  <1>5. RAY * (2 * r + s + 4 * RAY) = 2 * t + q + 4 * u
    BY <1>1, <1>2
  <1>6. p + 4 * t + q + 4 * u + HALF_RAY < RAY * WORD /\ RAY * WORD \in Nat
    BY <1>1, <1>3 DEF Fits
  <1>7. RAY * s < RAY * WORD
    BY <1>1, <1>2, <1>6
  <1>8. s < WORD
    BY <1>1, <1>7
  <1> QED
    BY <1>1, <1>2, <1>4, <1>5, <1>6, <1>8

\* The time a node lies ahead grows by the period to the next, at least, and
\* what the rate of the period earns over it fits.
LEMMA SpanFits ==
  ASSUME CurveTypes, Validated, outcome \in {"bootstrapping", "Ok"} \/ dfs # <<>>,
         NEW i \in 1..Len(dates)
  PROVE  /\ Span(NodeDate(i)) \in Int /\ Span(NodeDate(i - 1)) \in Int
         /\ Span(NodeDate(i - 1)) + Tau(i) <= Span(NodeDate(i))
         /\ Fits(PeriodRate(i), Span(NodeDate(i)))
  <1>0. /\ dates[i] \in Nat /\ Settlement \in Nat /\ Len(dates) \in Nat
        /\ BASIS \in Nat \ {0} /\ RAY \in Nat \ {0} /\ DOMAIN dates = 1..Len(dates)
    BY ArgumentTypes, LenProperties
  <1>1. NodeDate(i) = dates[i] /\ NodeDate(i - 1) = PeriodStart(i) /\ PeriodStart(i) \in Nat
    <2>1. CASE i = 1
      BY <1>0, <2>1 DEF NodeDate, PeriodStart
    <2>2. CASE i # 1
      <3>1. i - 1 \in 1..Len(dates) /\ i - 1 # 0 /\ i # 0
        BY <1>0, <2>2
      <3> QED
        BY <1>0, <2>2, <3>1, ArgumentTypes DEF NodeDate, PeriodStart
    <2> QED
      BY <2>1, <2>2
  <1>2. PICK a \in Int, c \in Int : /\ a = (PeriodStart(i) - Settlement) * RAY
                                   /\ c = (dates[i] - PeriodStart(i)) * RAY
                                   /\ a + c = (dates[i] - Settlement) * RAY
    <2>1. (PeriodStart(i) - Settlement) * RAY + (dates[i] - PeriodStart(i)) * RAY
            = (dates[i] - Settlement) * RAY
      BY <1>0, <1>1
    <2> QED
      BY <1>0, <1>1, <2>1
  <1>3. /\ a \div BASIS \in Int /\ c \div BASIS \in Int /\ (a + c) \div BASIS \in Int
        /\ a \div BASIS + c \div BASIS <= (a + c) \div BASIS
    <2>1. a + c \in Int /\ BASIS \in Nat \ {0}
      BY <1>0, <1>2
    <2>2. a \div BASIS \in Int /\ c \div BASIS \in Int /\ (a + c) \div BASIS \in Int
      BY <2>1, DivBounds
    <2>3. a \div BASIS + c \div BASIS <= (a + c) \div BASIS
      BY <2>1, FloorsAdd
    <2> QED
      BY <2>2, <2>3
  <1>4. PICK k \in DOMAIN rates : PeriodRate(i) = rates[k]
    BY PeriodRateIsQuoted DEF Validated
  <1>5. Fits(PeriodRate(i), Span(dates[i]))
    BY <1>0, <1>4, SpanAssumption DEF CurveTypes
  <1> QED
    BY <1>1, <1>2, <1>3, <1>5 DEF Span, Tau, ActualFraction

\* The annuity and the period to come fit what the curve may span.
LEMMA PeriodFits ==
  ASSUME CurveTypes, Validated, outcome = "bootstrapping", AnnuityInSpan,
         NEW i \in 1..Len(dates), i = Len(dfs) + 1
  PROVE  \E s \in Nat : /\ s = Span(NodeDate(i))
                        /\ annuity_sum + Tau(i) <= s
                        /\ Fits(PeriodRate(i), s)
  <1>1. annuity_sum \in Nat /\ Tau(i) \in Nat /\ Len(dfs) = i - 1
    BY PeriodTypes, ArgumentTypes DEF CurveTypes
  <1>2. annuity_sum <= Span(NodeDate(i - 1))
    BY <1>1 DEF AnnuityInSpan
  <1>3. PICK s \in Int, b \in Int : /\ s = Span(NodeDate(i)) /\ b = Span(NodeDate(i - 1))
                                   /\ b + Tau(i) <= s /\ Fits(PeriodRate(i), s)
    BY SpanFits
  <1>4. annuity_sum + Tau(i) <= s /\ s \in Nat
    BY <1>1, <1>2, <1>3
  <1> QED
    BY <1>3, <1>4

-----------------------------------------------------------------------------
(* Between two nodes. *)

\* On a finished curve the node before a time is the one it lies after
\* without passing the next.
LEMMA NodeBeforeIsUnique ==
  ASSUME CurveTypes, Validated, outcome = "Ok",
         NEW t \in Nat, NEW j \in 0..(Len(dates) - 1),
         NodeDate(j) < t, t <= dates[j + 1]
  PROVE  NodeBefore(t, dates) = j
  <1> DEFINE Opens(i) == t <= dates[i + 1] /\ \A k \in 1..i : t > dates[k]
  <1>0. dates \in Seq(Nat) /\ Len(dates) \in Nat /\ Ascending(dates)
        /\ \A i \in 1..Len(dates) : dates[i] \in Nat
    BY ArgumentTypes DEF Validated
  <1>1. Opens(j)
    <2> SUFFICES ASSUME NEW k \in 1..j PROVE t > dates[k]
      OBVIOUS
    <2>1. j \in 1..Len(dates) /\ k \in 1..Len(dates) /\ dates[j] < t
      BY <1>0 DEF NodeDate
    <2>2. k = j \/ j \in (k + 1)..Len(dates)
      BY <1>0, <2>1
    <2>3. dates[k] <= dates[j]
      BY <1>0, <2>1, <2>2, AscendingIsMonotone
    <2> QED
      BY <1>0, <2>1, <2>3
  <1>2. ASSUME NEW i \in 0..(Len(dates) - 1), Opens(i) PROVE i = j
    <2>1. CASE i < j
      <3>1. i + 1 \in 1..j
        BY <1>0, <2>1
      <3>2. t > dates[i + 1] /\ t <= dates[i + 1] /\ dates[i + 1] \in Nat
        BY <1>0, <1>1, <1>2, <3>1
      <3> QED
        BY <3>2
    <2>2. CASE i > j
      <3>1. j + 1 \in 1..i /\ j + 1 \in 1..Len(dates)
        BY <1>0, <2>2
      <3>2. t > dates[j + 1] /\ dates[j + 1] \in Nat
        BY <1>0, <1>2, <3>1
      <3> QED
        BY <3>2
    <2> QED
      BY <1>0, <2>1, <2>2
  <1> QED
    BY <1>1, <1>2 DEF NodeBefore

\* A time after the settlement that does not pass the last date lies between
\* two nodes: before it come those before the first date it does not pass.
LEMMA NodesBracket ==
  ASSUME CurveTypes, NEW t \in Nat, t > Settlement,
         NEW l \in 1..Len(dates), ~(t > dates[l])
  PROVE  \E j \in 0..(Len(dates) - 1) : NodeDate(j) < t /\ t <= dates[j + 1]
  <1> DEFINE NotPassed == {i \in 1..Len(dates) : ~(t > dates[i])}
  <1>0. Len(dates) \in Nat /\ Settlement \in Nat
        /\ \A i \in 1..Len(dates) : dates[i] \in Nat
    BY ArgumentTypes
  <1>1. NotPassed \in SUBSET Nat /\ NotPassed # {}
    BY <1>0
  <1>2. PICK m \in NotPassed : \A k \in NotPassed : m <= k
    BY <1>1, SmallestNumber
  <1>3. m \in 1..Len(dates) /\ ~(t > dates[m]) /\ m - 1 \notin NotPassed
    BY <1>0, <1>2
  <1>4. NodeDate(m - 1) < t
    <2>1. CASE m = 1
      BY <1>0, <2>1 DEF NodeDate
    <2>2. CASE m # 1
      BY <1>0, <1>3, <2>2 DEF NodeDate
    <2> QED
      BY <2>1, <2>2
  <1>5. m - 1 \in 0..(Len(dates) - 1) /\ t <= dates[(m - 1) + 1]
    BY <1>0, <1>3
  <1> QED
    BY <1>4, <1>5

\* Two weighted products, rounded each, stay between the two factors to a
\* unit.
LEMMA WeightedBetween ==
  ASSUME NEW w \in 0..RAY, NEW a \in Nat, NEW b \in Nat, a < WORD, b < WORD
  PROVE  LET q == ray_mul(RAY - w, a) + ray_mul(w, b) IN
         /\ q \in Nat
         /\ q >= (IF a < b THEN a ELSE b) - 1
         /\ q <= (IF a < b THEN b ELSE a) + 1
         /\ w = RAY => q = b
  <1> DEFINE v == RAY - w
             lo == IF a < b THEN a ELSE b
             hi == IF a < b THEN b ELSE a
             p == ray_mul(v, a)
             r == ray_mul(w, b)
  <1>0. RAY \in Nat \ {0} /\ w \in Nat /\ v \in Nat /\ HALF_RAY \in Nat
        /\ HALF_RAY + HALF_RAY = RAY
    BY RayAssumption, HalfRay
  <1>1. p \in Nat /\ r \in Nat
    BY <1>0, RayMulRange
  <1>2. /\ RAY * p <= v * a + HALF_RAY
        /\ v * a - HALF_RAY < RAY * p
        /\ RAY * r <= w * b + HALF_RAY
        /\ w * b - HALF_RAY < RAY * r
    <2>1. v \in 0..RAY
      BY <1>0
    <2>2. v * a + HALF_RAY < RAY * WORD /\ w * b + HALF_RAY < RAY * WORD
      BY <2>1, ShareFits
    <2> QED
      BY <1>0, <2>2, RayMulNearest
  <1>3. v * lo <= v * a /\ v * a <= v * hi /\ w * lo <= w * b /\ w * b <= w * hi
    BY <1>0
  <1>4. v * lo + w * lo = RAY * lo /\ v * hi + w * hi = RAY * hi
    BY <1>0
  <1>5. v * a \in Nat /\ w * b \in Nat /\ lo \in Nat /\ hi \in Nat
    BY <1>0
  <1>6. RAY * (p + r) = RAY * p + RAY * r
    BY <1>0, <1>1
  <1>7. RAY * (p + r) <= RAY * (hi + 1) /\ RAY * (lo - 1) < RAY * (p + r)
    BY <1>0, <1>1, <1>2, <1>3, <1>4, <1>5, <1>6
  <1>8. p + r <= hi + 1 /\ lo - 1 < p + r
    BY <1>0, <1>1, <1>5, <1>7
  <1>9. w = RAY => p + r = b
    <2>1. ASSUME w = RAY PROVE p = 0 /\ r = b
      BY <1>0, <2>1, RayMulOne
    <2> HIDE DEF p, r
    <2> QED
      BY <2>1
  <1> HIDE DEF p, r, lo, hi
  <1>10. p + r \in Nat /\ p + r >= lo - 1 /\ p + r <= hi + 1 /\ (w = RAY => p + r = b)
    BY <1>1, <1>5, <1>8, <1>9
  <1> QED
    BY <1>10 DEF p, r, lo, hi

\* A factor asked of a finished curve lies between the two nodes its time
\* lies between, to a unit, and at a node is the node's.
LEMMA InterpolatedBetween ==
  ASSUME CurveTypes, Validated, FactorsFound, FactorsInRange, outcome = "Ok",
         NEW t \in Nat, NEW j \in 0..(Len(dates) - 1),
         NodeDate(j) < t, t <= dates[j + 1]
  PROVE  LET q == interpolate_df(t, Settlement, dates, dfs)
             a == NodeFactor(j)
             b == NodeFactor(j + 1)
         IN /\ q \in Nat
            /\ q >= (IF a < b THEN a ELSE b) - 1
            /\ q <= (IF a < b THEN b ELSE a) + 1
            /\ t = dates[j + 1] => q = b
  <1> DEFINE from == NodeDate(j)
             to == dates[j + 1]
             w == Weight(t, from, to)
             a == NodeFactor(j)
             b == NodeFactor(j + 1)
             q == interpolate_df(t, Settlement, dates, dfs)
  <1>0. /\ dates \in Seq(Nat) /\ Len(dates) \in Nat /\ Ascending(dates)
        /\ \A i \in 1..Len(dates) : dates[i] \in Nat
        /\ \A i \in 1..Len(dates) : dfs[i] \in 1..RAY
        /\ Settlement \in Nat /\ RAY \in Nat \ {0} /\ dates[1] > Settlement
        /\ j + 1 \in 1..Len(dates)
    BY ArgumentTypes DEF Validated, FactorsFound, FactorsInRange
  <1>1. from \in Nat /\ to \in Nat /\ from < t /\ t <= to
    BY <1>0 DEF NodeDate
  <1>2. w \in 0..RAY /\ (t = to => w = RAY)
    BY <1>1, WeightIsShare
  <1>3. t > Settlement
    <2>1. CASE j = 0
      BY <2>1, <1>0 DEF NodeDate
    <2>2. CASE j # 0
      <3>1. j \in 1..Len(dates) /\ (j = 1 \/ j \in 2..Len(dates)) /\ 1 \in 1..Len(dates)
        BY <1>0, <2>2
      <3>2. dates[1] <= dates[j]
        BY <1>0, <3>1, AscendingIsMonotone
      <3> QED
        BY <1>0, <1>1, <2>2, <3>1, <3>2 DEF NodeDate
    <2> QED
      BY <2>1, <2>2
  <1>4. ~(t <= Settlement) /\ ~(\A k \in DOMAIN dates : t > dates[k])
    BY <1>0, <1>1, <1>3
  <1>5. NodeBefore(t, dates) = j
    BY NodeBeforeIsUnique
  <1>6. q = LET i == NodeBefore(t, dates)
                u == Weight(t, IF i = 0 THEN Settlement ELSE dates[i], dates[i + 1])
            IN IF i = 0 THEN RAY - ray_mul(u, RAY - dfs[1])
               ELSE ray_mul(RAY - u, dfs[i]) + ray_mul(u, dfs[i + 1])
    BY <1>4 DEF interpolate_df
  <1>7. q = IF j = 0 THEN RAY - ray_mul(w, RAY - dfs[1])
            ELSE ray_mul(RAY - w, dfs[j]) + ray_mul(w, dfs[j + 1])
    BY <1>5, <1>6 DEF NodeDate
  <1>8. CASE j = 0
    <2>1. a = RAY /\ b = dfs[1] /\ b \in 1..RAY
      BY <1>0, <1>8 DEF NodeFactor
    <2>2. w \in Nat /\ w <= RAY /\ RAY - b \in Nat
      BY <1>0, <1>2, <2>1
    <2>3. ray_mul(w, RAY - b) \in Nat /\ ray_mul(w, RAY - b) <= RAY - b
      BY <2>2, RayMulRange
    <2>4. t = to => ray_mul(w, RAY - b) = RAY - b
      <3>1. RAY - b < WORD
        BY <1>0, <2>1, WordAssumption
      <3> QED
        BY <1>2, <2>2, <3>1, RayMulOne
    <2>5. q = RAY - ray_mul(w, RAY - b)
      BY <1>7, <1>8, <2>1
    <2> HIDE DEF w
    <2>6. q \in Nat /\ q >= b /\ q <= RAY /\ (t = to => q = b)
      BY <1>0, <2>1, <2>3, <2>4, <2>5
    <2>7. /\ q \in Nat
          /\ q >= (IF a < b THEN a ELSE b) - 1
          /\ q <= (IF a < b THEN b ELSE a) + 1
          /\ t = to => q = b
      BY <1>0, <2>1, <2>6
    <2> QED
      BY <2>7 DEF q, a, b, to
  <1>9. CASE j # 0
    <2>1. a = dfs[j] /\ b = dfs[j + 1] /\ a \in Nat /\ b \in Nat /\ a < WORD /\ b < WORD
      BY <1>0, <1>9, WordAssumption DEF NodeFactor
    <2> DEFINE p == ray_mul(RAY - w, a) + ray_mul(w, b)
    <2>2. q = p
      BY <1>7, <1>9, <2>1
    <2> HIDE DEF w, a, b, q
    <2>3. /\ p \in Nat
          /\ p >= (IF a < b THEN a ELSE b) - 1
          /\ p <= (IF a < b THEN b ELSE a) + 1
          /\ w = RAY => p = b
      BY <1>2, <2>1, WeightedBetween
    <2> HIDE DEF p
    <2>4. t = to => q = b
      BY <1>2, <2>2, <2>3
    <2> QED
      BY <2>2, <2>3, <2>4 DEF q, a, b
  <1> QED
    BY <1>8, <1>9

\* Every factor asked of a finished curve is unsigned.
LEMMA InterpolatedIsUnsigned ==
  ASSUME CurveTypes, Validated, FactorsFound, FactorsInRange, outcome = "Ok", NEW t \in Nat
  PROVE  interpolate_df(t, Settlement, dates, dfs) \in Nat
  <1>0. /\ dates \in Seq(Nat) /\ Len(dates) \in Nat /\ Len(dates) # 0
        /\ \A i \in 1..Len(dates) : dates[i] \in Nat
        /\ \A i \in 1..Len(dates) : dfs[i] \in 1..RAY
        /\ Settlement \in Nat /\ RAY \in Nat
    <2>1. rates # <<>> /\ rates \in Seq(Nat) /\ Len(dates) = Len(rates) * ppy
      BY ArgumentTypes DEF Validated
    <2>2. Len(rates) \in Nat \ {0} /\ ppy \in Nat \ {0}
      BY <2>1, ArgumentTypes, EmptySeq
    <2>3. Len(dates) # 0
      BY <2>1, <2>2
    <2> QED
      BY <2>3, ArgumentTypes DEF FactorsFound, FactorsInRange
  <1>1. CASE t <= Settlement
    BY <1>0, <1>1 DEF interpolate_df
  <1>2. CASE t > Settlement /\ \A j \in DOMAIN dates : t > dates[j]
    <2>1. interpolate_df(t, Settlement, dates, dfs) = dfs[Len(dates)]
      BY <1>0, <1>2 DEF interpolate_df
    <2> QED
      BY <1>0, <2>1
  <1>3. CASE t > Settlement /\ \E j \in DOMAIN dates : ~(t > dates[j])
    <2>1. PICK j \in 0..(Len(dates) - 1) : NodeDate(j) < t /\ t <= dates[j + 1]
      BY <1>0, <1>3, NodesBracket
    <2> QED
      BY <2>1, InterpolatedBetween
  <1> QED
    BY <1>0, <1>1, <1>2, <1>3

-----------------------------------------------------------------------------
(* How far a swap is off par. *)

\* Five numbers rounded to half a unit each: together they are off by half
\* the denominator, half the rate and one and a half units.
LEMMA RoundingsAddUp ==
  ASSUME NEW h \in Nat \ {0}, NEW unit \in Nat, unit = h + h,
         NEW r \in Nat, NEW tau \in Nat, NEW annuity \in Nat,
         NEW d \in Nat, d <= unit,
         NEW I \in Int, unit * I <= r * annuity + h, r * annuity - h < unit * I,
         NEW g \in Int, unit * g <= r * tau + h, r * tau - h < unit * g,
         NEW m \in Int, unit * m <= tau * d + h, tau * d - h < unit * m,
         NEW J \in Int, unit * J <= r * (annuity + m) + h, r * (annuity + m) - h < unit * J,
         NEW D \in Int, D = unit + g,
         2 * (D * d) <= 2 * ((unit - I) * unit) + D,
         2 * ((unit - I) * unit) - D < 2 * (D * d)
  PROVE  /\ 2 * (unit * (unit - d - J)) < D + r + 3 * unit
         /\ -(D + r + 3 * unit) < 2 * (unit * (unit - d - J))
  <1>1. D * d = unit * d + g * d
    OBVIOUS
  <1>2. (unit - I) * unit = unit * unit - unit * I
    OBVIOUS
  <1>3. unit * (unit - d - J) = unit * unit - unit * d - unit * J
    OBVIOUS
  <1>4. r * (annuity + m) = r * annuity + r * m
    OBVIOUS
  <1>5. r * m \in Int /\ g * d \in Int /\ unit * unit \in Int /\ unit * I \in Int
        /\ unit * d \in Int /\ unit * J \in Int /\ r * annuity \in Int
    OBVIOUS
  <1>6. 2 * (g * d) - d - r <= 2 * (r * m) /\ 2 * (r * m) <= 2 * (g * d) + d + r
    <2>1. /\ r * (unit * m) <= r * (tau * d + h)
          /\ r * (tau * d - h) <= r * (unit * m)
      OBVIOUS
    <2>2. /\ (unit * g) * d <= (r * tau + h) * d
          /\ (r * tau - h) * d <= (unit * g) * d
      OBVIOUS
    <2>3. /\ r * (tau * d + h) = r * (tau * d) + h * r
          /\ r * (tau * d - h) = r * (tau * d) - h * r
          /\ (r * tau + h) * d = r * (tau * d) + h * d
          /\ (r * tau - h) * d = r * (tau * d) - h * d
      OBVIOUS
    <2>4. /\ r * (unit * m) = h * (2 * (r * m))
          /\ (unit * g) * d = h * (2 * (g * d))
      OBVIOUS
    <2>5. h * r \in Int /\ h * d \in Int /\ r * (tau * d) \in Int
          /\ h * (2 * (r * m)) \in Int /\ h * (2 * (g * d)) \in Int
      OBVIOUS
    <2>6. /\ h * (2 * (r * m)) <= h * (2 * (g * d)) + h * d + h * r
          /\ h * (2 * (g * d)) - h * d - h * r <= h * (2 * (r * m))
      BY <2>1, <2>2, <2>3, <2>4, <2>5
    <2>7. /\ h * (2 * (g * d)) + h * d + h * r = h * (2 * (g * d) + d + r)
          /\ h * (2 * (g * d)) - h * d - h * r = h * (2 * (g * d) - d - r)
      BY <1>5
    <2>8. ASSUME NEW x \in Int, NEW y \in Int, h * x <= h * y PROVE x <= y
      BY <2>8
    <2> QED
      BY <1>5, <2>6, <2>7, <2>8
  <1> QED
    BY <1>1, <1>2, <1>3, <1>4, <1>5, <1>6

\* A product with its rounding, as a number of its own.
LEMMA RoundedProduct ==
  \A a, b \in Nat :
    a * b + HALF_RAY < RAY * WORD =>
      \E k \in Nat : /\ k = ray_mul(a, b)
                     /\ RAY * k <= a * b + HALF_RAY
                     /\ a * b - HALF_RAY < RAY * k
  <1> SUFFICES ASSUME NEW a \in Nat, NEW b \in Nat, a * b + HALF_RAY < RAY * WORD
               PROVE  /\ ray_mul(a, b) \in Nat
                      /\ RAY * ray_mul(a, b) <= a * b + HALF_RAY
                      /\ a * b - HALF_RAY < RAY * ray_mul(a, b)
    OBVIOUS
  <1> QED
    BY RayMulNearest

\* A period that passes is no further off par than its roundings.
LEMMA PeriodReprices ==
  ASSUME NEW r \in Nat, NEW tau \in Nat, NEW annuity \in Nat, NEW D \in Nat \ {0},
         D = RAY + ray_mul(r, tau), ray_mul(r, annuity) <= RAY,
         NEW s \in Nat, annuity + tau <= s, Fits(r, s),
         NEW d \in Nat, d <= RAY, d = ray_div(RAY - ray_mul(r, annuity), D)
  PROVE  LET gap == RAY - d - ray_mul(r, annuity + ray_mul(tau, d)) IN
         /\ 2 * (RAY * gap) < D + r + 3 * RAY
         /\ -(D + r + 3 * RAY) < 2 * (RAY * gap)
  <1>0. /\ r \in Nat /\ tau \in Nat /\ annuity \in Nat /\ d \in Nat
        /\ r * annuity + HALF_RAY < RAY * WORD
        /\ r * tau + HALF_RAY < RAY * WORD
        /\ tau * d + HALF_RAY < RAY * WORD
    <2>1. annuity <= s /\ tau <= s
      OBVIOUS
    <2>2. /\ r * annuity + HALF_RAY < RAY * WORD
          /\ r * tau + HALF_RAY < RAY * WORD
          /\ tau < WORD
      BY <2>1, ProductsFit
    <2>3. d \in 0..RAY /\ d * tau = tau * d
      BY RayAssumption
    <2>4. d * tau + HALF_RAY < RAY * WORD
      BY <2>2, <2>3, ShareFits
    <2> QED
      BY <2>2, <2>3, <2>4
  <1>1. HALF_RAY \in Nat \ {0} /\ RAY \in Nat /\ RAY = HALF_RAY + HALF_RAY
    BY RayAssumption, HalfRay
  <1>2. PICK I \in Nat : /\ I = ray_mul(r, annuity)
                         /\ RAY * I <= r * annuity + HALF_RAY
                         /\ r * annuity - HALF_RAY < RAY * I
    BY ONLY <1>0, RoundedProduct
  <1>3. PICK g \in Nat : /\ g = ray_mul(r, tau)
                         /\ RAY * g <= r * tau + HALF_RAY
                         /\ r * tau - HALF_RAY < RAY * g
    BY ONLY <1>0, RoundedProduct
  <1>4. PICK m \in Nat : /\ m = ray_mul(tau, d)
                         /\ RAY * m <= tau * d + HALF_RAY
                         /\ tau * d - HALF_RAY < RAY * m
    BY ONLY <1>0, RoundedProduct
  <1>5. PICK J \in Nat : /\ J = ray_mul(r, annuity + m)
                         /\ RAY * J <= r * (annuity + m) + HALF_RAY
                         /\ r * (annuity + m) - HALF_RAY < RAY * J
    <2>1. m <= tau
      <3>1. ray_mul(tau, d) = ray_mul(d, tau)
        <4>1. tau \in Int /\ d \in Int
          BY <1>0
        <4> QED
          BY <4>1, RayMulCommutes
      <3>2. ray_mul(d, tau) <= tau
        BY RayMulRange
      <3> QED
        BY <1>4, <3>1, <3>2
    <2>2. r \in Nat /\ annuity + m \in Nat /\ annuity + m <= s
      BY <1>0, <2>1
    <2>3. r * (annuity + m) + HALF_RAY < RAY * WORD
      BY <2>2, ProductsFit
    <2> QED
      BY ONLY <2>2, <2>3, RoundedProduct
  <1>6. /\ 2 * (D * d) <= 2 * ((RAY - I) * RAY) + D
        /\ 2 * ((RAY - I) * RAY) - D < 2 * (D * d)
    <2>1. RAY - I \in 0..RAY /\ RAY - I \in Nat /\ d = ray_div(RAY - I, D) /\ RAY <= D
      BY <1>1, <1>2, <1>3
    <2>2. (RAY - I) * RAY + D \div 2 < D * WORD
      BY <2>1, QuotientFits
    <2> QED
      BY <2>1, <2>2, RayDivNearest
  <1>7. D = RAY + g /\ D \in Int
    BY <1>3
  <1>8. /\ 2 * (RAY * (RAY - d - J)) < D + r + 3 * RAY
        /\ -(D + r + 3 * RAY) < 2 * (RAY * (RAY - d - J))
    <2>1. /\ r \in Nat /\ tau \in Nat /\ annuity \in Nat /\ d \in Nat /\ d <= RAY
          /\ I \in Int /\ g \in Int /\ m \in Int /\ J \in Int
      OBVIOUS
    <2> QED
      BY ONLY <1>1, <1>2, <1>3, <1>4, <1>5, <1>6, <1>7, <2>1, RoundingsAddUp
  <1> QED
    BY <1>4, <1>5, <1>8

-----------------------------------------------------------------------------
(* The invariant is inductive. *)

LEMMA InitInv == Init => IInv
  <1> SUFFICES ASSUME Init PROVE IInv
    OBVIOUS
  <1> USE DEF Init
  <1>1. dfs \in Seq(Int) /\ Len(dfs) = 0 /\ ~(quote.time > Settlement)
    BY EmptySeq, DiscountCurveAssumption DEF NoQuote
  <1>2. CurveTypes
    BY <1>1 DEF CurveTypes, NoQuote
  <1>3. Len(dates) \in Nat
    BY <1>2, ArgumentTypes
  <1>4. AnnuityInSpan
    <2>1. Settlement \in Nat /\ BASIS \in Nat \ {0} /\ RAY \in Nat \ {0}
      BY DiscountCurveAssumption, RayAssumption
    <2>2. (Settlement - Settlement) * RAY = 0 /\ 0 \div BASIS = 0
      BY <2>1
    <2>3. NodeDate(Len(dfs)) = Settlement
      BY <1>1 DEF NodeDate
    <2>4. Span(Settlement) = 0
      BY <2>2 DEF Span, ActualFraction
    <2> QED
      BY <2>3, <2>4 DEF AnnuityInSpan
  <1> QED
    BY <1>1, <1>2, <1>3, <1>4
       DEF IInv, Validated, FactorsFound, FactorsInRange, QuotedOnceFinished,
           QuoteBetweenNodes, RepricesPar

\* What does not extend the curve leaves its annuity what it was.
LEMMA SameCurveSameSpan ==
  ASSUME AnnuityInSpan, UNCHANGED <<args, dfs, annuity_sum>>
  PROVE  AnnuityInSpan'
  BY DEF AnnuityInSpan, NodeDate, args

\* What does not extend the curve leaves it as far off par as it was.
LEMMA SameCurveSameGap ==
  ASSUME RepricesPar, UNCHANGED <<args, dfs, annuity_sum>>
  PROVE  RepricesPar'
  BY DEF RepricesPar, OffPar, Roundings, Denominator, PeriodRate, Tau, PeriodStart, args

LEMMA ValidateKeepsInv == IInv /\ Validate => IInv'
  <1> SUFFICES ASSUME IInv, Validate PROVE IInv'
    OBVIOUS
  <1> USE DEF Validate, args
  <1>1. CurveTypes'
    BY DEF IInv, CurveTypes, Errors
  <1>2. outcome' \in {"EmptyInput", "LengthMismatch", "InvalidDF", "bootstrapping"}
        /\ dfs = <<>>
    BY DEF IInv, FactorsFound
  <1>3. Validated'
    <2>1. CASE outcome' = "bootstrapping"
      <3>1. rates # <<>> /\ Len(dates) = Len(rates) * ppy
            /\ Ascending(dates) /\ dates[1] > Settlement
        BY <2>1
      <3> QED
        BY <3>1 DEF Validated
    <2>2. CASE outcome' # "bootstrapping"
      BY <1>2, <2>2 DEF Validated
    <2> QED
      BY <2>1, <2>2
  <1>4. FactorsFound' /\ FactorsInRange'
    BY <1>2 DEF IInv, FactorsFound, FactorsInRange
  <1>5. QuotedOnceFinished' /\ QuoteBetweenNodes'
    BY DEF IInv, QuotedOnceFinished, QuoteBetweenNodes
  <1>6. RepricesPar' /\ AnnuityInSpan'
    BY SameCurveSameGap, SameCurveSameSpan DEF IInv
  <1> QED
    BY <1>1, <1>3, <1>4, <1>5, <1>6 DEF IInv

\* The bound need only be shown of the last period.
LEMMA LastPeriodReprices ==
  ASSUME NEW n, n = Len(dfs'), NEW gap \in Int, NEW bound \in Int,
         gap = OffPar(n)', bound = Roundings(n)',
         2 * (RAY * gap) < bound, -bound < 2 * (RAY * gap)
  PROVE  RepricesPar'
  BY DEF RepricesPar, OffPar, Roundings, Denominator, PeriodRate, Tau, PeriodStart

LEMMA PeriodKeepsInv == IInv /\ Period => IInv'
  <1> SUFFICES ASSUME IInv, Period PROVE IInv'
    OBVIOUS
  <1>0. PICK i : i = Len(dfs) + 1
    OBVIOUS
  <1> DEFINE interest == ray_mul(PeriodRate(i), annuity_sum)
             df == ray_div(RAY - interest, Denominator(i))
  <1>1. outcome = "bootstrapping" /\ i \in 1..Len(dates) /\ CurveTypes /\ Validated
    BY <1>0, ArgumentTypes DEF IInv, Period
  <1>2. /\ PeriodRate(i) \in Nat /\ Tau(i) \in Nat
        /\ Denominator(i) = RAY + ray_mul(PeriodRate(i), Tau(i))
        /\ Denominator(i) \in Nat \ {0} /\ Denominator(i) >= RAY
    BY <1>1, PeriodTypes
  <1>3. annuity_sum \in Nat /\ interest \in Nat
    BY <1>1, <1>2, RayMulRange DEF CurveTypes
  <1>4. ~(quote.time > Settlement)
    BY <1>1 DEF IInv, QuotedOnceFinished
  <1>5. Bearable(interest) => df \in 0..RAY
    BY <1>2, <1>3, FactorAtMostOne, RayAssumption DEF Bearable
  <1>6. CASE \E error \in {"InvalidDF"} : Fail(error)
    <2>1. outcome' = "InvalidDF" /\ UNCHANGED <<args, dfs, annuity_sum, quote>>
      BY <1>6 DEF Fail
    <2>2. CurveTypes' /\ Validated'
      BY <1>1, <2>1 DEF CurveTypes, Validated, Errors, args
    <2>3. FactorsFound' /\ FactorsInRange'
      BY <2>1 DEF IInv, FactorsFound, FactorsInRange, args
    <2>4. QuotedOnceFinished' /\ QuoteBetweenNodes'
      BY <1>4, <2>1 DEF QuotedOnceFinished, QuoteBetweenNodes
    <2>5. RepricesPar' /\ AnnuityInSpan'
      BY <2>1, SameCurveSameGap, SameCurveSameSpan DEF IInv
    <2> QED
      BY <2>2, <2>3, <2>4, <2>5 DEF IInv
  <1>7. CASE /\ Bearable(interest) /\ Usable(df)
             /\ dfs' = Append(dfs, df)
             /\ annuity_sum' = annuity_sum + Accrued(i, df)
             /\ UNCHANGED <<args, outcome, quote>>
    <2>1. df \in 1..RAY /\ df \in Int /\ df \in Nat
      BY <1>5, <1>7, RayAssumption DEF Usable
    <2>2. /\ Len(dfs) \in Nat /\ dfs \in Seq(Int)
          /\ Len(dfs') = i /\ dfs' \in Seq(Int)
          /\ \A k \in 1..Len(dfs) : dfs'[k] = dfs[k]
          /\ dfs'[i] = df /\ dfs' # <<>>
      <3>1. Len(dfs) \in Nat /\ dfs \in Seq(Int) /\ dfs' = Append(dfs, df)
        BY <1>1, <1>7, ArgumentTypes DEF CurveTypes
      <3> HIDE DEF df
      <3> QED
        BY <1>0, <2>1, <3>1, AppendProperties, EmptySeq
    <2>3. annuity_sum' \in Nat
      <3> HIDE DEF df, interest
      <3>1. ray_mul(Tau(i), df) \in Nat
        BY <1>2, <2>1, RayMulRange
      <3> QED
        BY <1>3, <1>7, <3>1 DEF Accrued
    <2>4. CurveTypes' /\ Validated'
      BY <1>1, <1>7, <2>2, <2>3 DEF CurveTypes, Validated, args
    <2>5. FactorsFound'
      BY <1>1, <1>7, <2>2 DEF FactorsFound, args
    <2>6. FactorsInRange'
      <3>1. \A k \in 1..Len(dfs') : k \in 1..Len(dfs) \/ k = i
        BY <1>0, <2>2
      <3>2. \A k \in 1..Len(dfs') : dfs'[k] \in 1..RAY
        BY <2>1, <2>2, <3>1 DEF IInv, FactorsInRange
      <3> QED
        BY <1>7, <3>2 DEF IInv, FactorsInRange
    <2>7. QuotedOnceFinished' /\ QuoteBetweenNodes'
      BY <1>4, <1>7 DEF QuotedOnceFinished, QuoteBetweenNodes
    <2>8. RepricesPar'
      <3> DEFINE gap == RAY - df - ray_mul(PeriodRate(i), annuity_sum + ray_mul(Tau(i), df))
                 bound == Denominator(i) + PeriodRate(i) + 3 * RAY
      <3>1. df \in Nat /\ df <= RAY
        BY <2>1, RayAssumption
      <3>2. 2 * (RAY * gap) < bound /\ -bound < 2 * (RAY * gap)
        <4>1. PICK s \in Nat : annuity_sum + Tau(i) <= s /\ Fits(PeriodRate(i), s)
          BY <1>0, <1>1, PeriodFits DEF IInv
        <4>2. interest <= RAY
          BY <1>7 DEF Bearable
        <4> QED
          BY <1>2, <1>3, <3>1, <4>1, <4>2, PeriodReprices
      <3>3. PeriodRate(i)' = PeriodRate(i) /\ Denominator(i)' = Denominator(i)
        BY <1>7 DEF PeriodRate, Denominator, Tau, PeriodStart, args
      <3>4. gap = OffPar(i)' /\ i = Len(dfs')
        BY <1>7, <2>2, <3>3 DEF OffPar, Accrued
      <3>5. bound \in Int /\ bound = Roundings(i)'
        BY <1>2, <3>3, RayAssumption DEF Roundings
      <3>6. gap \in Int
        <4>1. ray_mul(Tau(i), df) \in Nat
          BY <1>2, <3>1, RayMulRange
        <4>2. ray_mul(PeriodRate(i), annuity_sum + ray_mul(Tau(i), df)) \in Nat
          <5>1. annuity_sum + ray_mul(Tau(i), df) \in Nat
            BY <1>3, <4>1
          <5> QED
            BY <1>2, <5>1, RayMulRange
        <4> QED
          BY <3>1, <4>2, RayAssumption
      <3> HIDE DEF gap, bound
      <3> QED
        BY <3>2, <3>4, <3>5, <3>6, LastPeriodReprices
    <2>9. AnnuityInSpan'
      <3>1. PICK s \in Nat : s = Span(NodeDate(i)) /\ annuity_sum + Tau(i) <= s
        BY <1>0, <1>1, PeriodFits DEF IInv
      <3>2. ray_mul(Tau(i), df) \in Nat /\ ray_mul(Tau(i), df) <= Tau(i)
        <4> HIDE DEF df, interest
        <4>1. Tau(i) \in Int /\ df <= RAY
          BY <1>2, <2>1, RayAssumption
        <4>2. ray_mul(Tau(i), df) = ray_mul(df, Tau(i))
          BY <2>1, <4>1, RayMulCommutes
        <4> QED
          BY <1>2, <2>1, <4>1, <4>2, RayMulRange
      <3>3. annuity_sum' = annuity_sum + ray_mul(Tau(i), df)
        BY <1>7 DEF Accrued
      <3> HIDE DEF df, interest
      <3>4. annuity_sum' <= s
        BY <1>2, <1>3, <3>1, <3>2, <3>3
      <3> QED
        BY <1>7, <2>2, <3>1, <3>4 DEF AnnuityInSpan, NodeDate, args
    <2> QED
      BY <2>4, <2>5, <2>6, <2>7, <2>8, <2>9 DEF IInv
  <1> QED
    <2>1. \/ ~Bearable(interest) /\ Fail("InvalidDF")
          \/ Bearable(interest) /\ ~Usable(df)
             /\ Fail(IF df = 0 THEN "InvalidDF" ELSE "NegativeRateDetected")
          \/ /\ Bearable(interest) /\ Usable(df)
             /\ dfs' = Append(dfs, df)
             /\ annuity_sum' = annuity_sum + Accrued(i, df)
             /\ UNCHANGED <<args, outcome, quote>>
      BY <1>0 DEF Period
    <2>2. Bearable(interest) /\ ~Usable(df) => df = 0
      BY <1>5, RayAssumption DEF Usable
    <2> QED
      BY <1>6, <1>7, <2>1, <2>2

LEMMA ReturnKeepsInv == IInv /\ Return => IInv'
  <1> SUFFICES ASSUME IInv, Return PROVE IInv'
    OBVIOUS
  <1> USE DEF Return, args
  <1>1. CurveTypes' /\ Validated'
    BY DEF IInv, CurveTypes, Validated
  <1>2. FactorsFound' /\ FactorsInRange'
    BY DEF IInv, FactorsFound, FactorsInRange
  <1>3. QuotedOnceFinished' /\ QuoteBetweenNodes'
    BY DEF IInv, QuotedOnceFinished, QuoteBetweenNodes
  <1>4. RepricesPar' /\ AnnuityInSpan'
    BY SameCurveSameGap, SameCurveSameSpan DEF IInv
  <1> QED
    BY <1>1, <1>2, <1>3, <1>4 DEF IInv

LEMMA QuoteKeepsInv == ASSUME NEW t \in Times PROVE IInv /\ Quote(t) => IInv'
  <1> SUFFICES ASSUME IInv, Quote(t) PROVE IInv'
    OBVIOUS
  <1> DEFINE q == interpolate_df(t, Settlement, dates, dfs)
  <1>1. /\ outcome = "Ok" /\ quote' = [time |-> t, df |-> q]
        /\ UNCHANGED <<rates, dates, ppy, dfs, annuity_sum, outcome>>
    BY DEF Quote, args
  <1>2. t \in Nat /\ q \in Nat
    BY <1>1, InterpolatedIsUnsigned, DiscountCurveAssumption DEF IInv
  <1>3. CurveTypes' /\ Validated' /\ FactorsFound' /\ FactorsInRange' /\ QuotedOnceFinished'
    BY <1>1, <1>2 DEF IInv, CurveTypes, Validated, FactorsFound, FactorsInRange,
                      QuotedOnceFinished
  <1>4. QuoteBetweenNodes'
    <2>1. ASSUME NEW j \in 0..(Len(dates) - 1), NodeDate(j) < t, t <= dates[j + 1]
          PROVE  LET a == NodeFactor(j)
                     b == NodeFactor(j + 1)
                 IN /\ q >= (IF a < b THEN a ELSE b) - 1
                    /\ q <= (IF a < b THEN b ELSE a) + 1
                    /\ t = dates[j + 1] => q = b
      BY <1>1, <1>2, <2>1, InterpolatedBetween DEF IInv
    <2> HIDE DEF q
    <2>2. quote'.time = t /\ quote'.df = q
      BY <1>1
    <2> QED
      BY <1>1, <2>1, <2>2 DEF QuoteBetweenNodes, NodeDate, NodeFactor
  <1>5. RepricesPar' /\ AnnuityInSpan'
    BY <1>1, SameCurveSameGap, SameCurveSameSpan DEF IInv, args
  <1> QED
    BY <1>3, <1>4, <1>5 DEF IInv

LEMMA NextKeepsInv == IInv /\ [Next]_vars => IInv'
  <1> SUFFICES ASSUME IInv, [Next]_vars PROVE IInv'
    OBVIOUS
  <1>1. CASE Validate
    BY <1>1, ValidateKeepsInv
  <1>2. CASE Period
    BY <1>2, PeriodKeepsInv
  <1>3. CASE Return
    BY <1>3, ReturnKeepsInv
  <1>4. ASSUME NEW t \in Times, Quote(t) PROVE IInv'
    BY <1>4, QuoteKeepsInv
  <1>5. CASE UNCHANGED vars
    <2>1. UNCHANGED <<args, dfs, annuity_sum, outcome, quote>>
      BY <1>5 DEF vars
    <2>2. RepricesPar' /\ AnnuityInSpan'
      BY <2>1, SameCurveSameGap, SameCurveSameSpan DEF IInv
    <2> QED
      BY <2>1, <2>2 DEF IInv, CurveTypes, Validated, FactorsFound, FactorsInRange,
                        QuotedOnceFinished, QuoteBetweenNodes, NodeDate, NodeFactor, args
  <1> QED
    BY <1>1, <1>2, <1>3, <1>4, <1>5 DEF Next

-----------------------------------------------------------------------------
(* What follows of it. *)

\* Every reachable state satisfies the inductive invariant.
THEOREM Invariance == Spec => []IInv
  <1> QED
    BY InitInv, NextKeepsInv, PTL DEF Spec

\* The state of bootstrap_ois and of interpolate_df keeps its types: the
\* annuity and every quoted factor are unsigned in the code, though both come
\* of subtractions.
THEOREM TypeCorrect == Spec => []TypeOK
  <1>1. IInv => TypeOK
    BY DEF IInv, CurveTypes, FactorsFound, TypeOK
  <1> QED
    BY <1>1, Invariance, PTL

\* Every factor bootstrap_ois keeps is positive and at most one, and it never
\* returns NegativeRateDetected.
THEOREM FactorsStayInRange == Spec => []FactorsInRange
  <1>1. IInv => FactorsInRange
    BY DEF IInv
  <1> QED
    BY <1>1, Invariance, PTL

\* A factor interpolate_df returns lies between its neighbouring nodes.
THEOREM QuotesLieBetween == Spec => []QuoteBetweenNodes
  <1>1. IInv => QuoteBetweenNodes
    BY DEF IInv
  <1> QED
    BY <1>1, Invariance, PTL

\* Every factor bootstrap_ois keeps makes its swap worth par, to the
\* roundings of one period.
THEOREM SwapsReprice == Spec => []RepricesPar
  <1>1. IInv => RepricesPar
    BY DEF IInv
  <1> QED
    BY <1>1, Invariance, PTL

\* Of a rate up to one and a period up to a year a swap is off par by two
\* units of the last place at the most, whatever the curve before it.
THEOREM TwoUnitsOffPar ==
  Spec => [](dfs # <<>> /\ PeriodRate(Len(dfs)) <= RAY /\ Tau(Len(dfs)) <= RAY
               => OffPar(Len(dfs)) \in -2..2)
  <1> DEFINE n == Len(dfs)
  <1>1. ASSUME IInv, dfs # <<>>, PeriodRate(n) <= RAY, Tau(n) <= RAY
        PROVE  OffPar(n) \in -2..2
    <2> DEFINE off == OffPar(n)
    <2>1. n \in 1..Len(dates) /\ Len(dates) \in Nat
      BY <1>1, ArgumentTypes, EmptySeq DEF IInv, FactorsFound, CurveTypes
    <2>2. /\ PeriodRate(n) \in Nat /\ Tau(n) \in Nat
          /\ ray_mul(PeriodRate(n), Tau(n)) \in Nat
          /\ Denominator(n) = RAY + ray_mul(PeriodRate(n), Tau(n))
      BY <1>1, <2>1, PeriodTypes DEF IInv
    <2>3. ray_mul(PeriodRate(n), Tau(n)) <= Tau(n)
      BY <1>1, <2>2, RayMulRange
    <2>4. Roundings(n) \in Int /\ Roundings(n) <= 6 * RAY /\ RAY \in Nat \ {0}
      BY <1>1, <2>2, <2>3, RayAssumption DEF Roundings
    <2>5. off \in Int
      <3>1. annuity_sum \in Nat /\ dfs[n] \in Int
        BY <1>1, <2>1, ArgumentTypes DEF IInv, CurveTypes
      <3>2. ray_mul(PeriodRate(n), annuity_sum) \in Nat
        BY <2>2, <3>1, RayMulRange
      <3> QED
        BY <3>1, <3>2, RayAssumption DEF OffPar
    <2> HIDE DEF off
    <2>6. 2 * (RAY * off) < Roundings(n) /\ -Roundings(n) < 2 * (RAY * off)
      BY <1>1 DEF IInv, RepricesPar, off
    <2>7. RAY * off < RAY * 3 /\ RAY * (-3) < RAY * off
      BY <2>4, <2>5, <2>6
    <2>8. off < 3 /\ -3 < off
      BY <2>4, <2>5, <2>7
    <2> QED
      BY <2>5, <2>8 DEF off
  <1> QED
    BY <1>1, Invariance, PTL

-----------------------------------------------------------------------------
(* Two bootstraps, one answer. *)

\* The hypothesis of AnnualAgrees on the arguments.
WholeYears ==
  /\ ppy = 1
  /\ Len(dates) = Len(rates)
  /\ \A i \in DOMAIN dates : Tau(i) = RAY

\* The curves bootstrap_annual goes through on the same rates.
AnnualCurve == CHOOSE c : IsAnnual(c, rates)

\* The two loops go hand in hand, and end alike.
AnnualFollows ==
  WholeYears =>
    /\ outcome \in {"bootstrapping", "Ok"} =>
         AnnualCurve[Len(dfs)] = [dfs |-> dfs, annuity |-> annuity_sum, outcome |-> "Ok"]
    /\ outcome \in {"Ok"} \union Errors =>
         /\ bootstrap_annual(rates).outcome = outcome
         /\ bootstrap_annual(rates).dfs = dfs

LEMMA AnnualCurveIs ==
  ASSUME CurveTypes PROVE IsAnnual(AnnualCurve, rates)
  <1>1. \E c : IsAnnual(c, rates)
    BY AnnualIs, ArgumentTypes
  <1> QED
    BY <1>1 DEF AnnualCurve

\* A curve that failed at some rate is what is returned.
LEMMA FailedCurveStays ==
  ASSUME NEW rs \in Seq(Nat), NEW c, IsAnnual(c, rs),
         NEW i \in 0..Len(rs), c[i].outcome # "Ok"
  PROVE  bootstrap_annual(rs) = c[i]
  <1> DEFINE n == Len(rs)
             Changed == {k \in i..n : c[k] # c[i]}
  <1>0. n \in Nat
    BY LenProperties
  <1>1. Changed = {}
    <2>1. SUFFICES ASSUME Changed # {} PROVE FALSE
      OBVIOUS
    <2>2. PICK k \in Changed : \A j \in Changed : k <= j
      <3>1. Changed \in SUBSET Nat
        BY <1>0
      <3> HIDE DEF Changed
      <3> QED
        BY <2>1, <3>1, SmallestNumber
    <2>3. k \in i..n /\ c[k] # c[i] /\ k # i
      BY <2>2
    <2>4. k \in 1..n /\ k - 1 \in i..n /\ ~(k <= k - 1)
      BY <1>0, <2>3
    <2>5. c[k - 1] = c[i]
      BY <2>2, <2>4
    <2>6. c[k] = AnnualStep(c[i], rs[k])
      BY <2>4, <2>5 DEF IsAnnual
    <2>7. AnnualStep(c[i], rs[k]) = c[i]
      BY DEF AnnualStep
    <2> QED
      BY <2>3, <2>6, <2>7
  <1>2. n \in i..n
    BY <1>0
  <1> QED
    BY <1>1, <1>2 DEF IsAnnual

\* A period that counts as a year is not empty.
LEMMA YearIsLong ==
  ASSUME NEW a \in Int, (a * RAY) \div BASIS = RAY
  PROVE  a > 0
  <1>1. BASIS \in Nat \ {0} /\ RAY \in Nat \ {0} /\ a * RAY \in Int
    BY DiscountCurveAssumption, RayAssumption
  <1>2. SUFFICES ASSUME a <= 0 PROVE FALSE
    OBVIOUS
  <1>3. a * RAY <= 0
    BY <1>1, <1>2
  <1>4. a * RAY < BASIS * 1
    BY <1>1, <1>3
  <1>5. (a * RAY) \div BASIS < 1
    BY ONLY <1>1, <1>4, 1 \in Int, DivBetween
  <1> QED
    BY <1>1, <1>5

\* Whole years pass the checks of bootstrap_ois that bootstrap_annual lacks.
LEMMA WholeYearsAscend ==
  ASSUME CurveTypes, WholeYears, rates # <<>>
  PROVE  Ascending(dates) /\ dates[1] > Settlement /\ Len(dates) = Len(rates) * ppy
  <1>0. /\ Len(rates) \in Nat \ {0} /\ dates \in Seq(Nat) /\ Settlement \in Nat
        /\ Len(dates) = Len(rates) /\ ppy = 1 /\ DOMAIN dates = 1..Len(dates)
        /\ \A i \in 1..Len(dates) : dates[i] \in Nat
    BY ArgumentTypes, EmptySeq, LenProperties DEF WholeYears
  <1>1. ASSUME NEW i \in 1..Len(dates), PeriodStart(i) \in Nat PROVE dates[i] > PeriodStart(i)
    <2> DEFINE a == dates[i] - PeriodStart(i)
    <2>1. a \in Int /\ Tau(i) = RAY
      BY <1>0, <1>1 DEF WholeYears
    <2>2. (a * RAY) \div BASIS = RAY
      BY <2>1 DEF Tau, ActualFraction
    <2> HIDE DEF a
    <2>3. a > 0
      BY <2>1, <2>2, YearIsLong
    <2> QED
      BY <1>0, <1>1, <2>3 DEF a
  <1>2. dates[1] > Settlement
    <2>1. PeriodStart(1) = Settlement /\ 1 \in 1..Len(dates)
      BY <1>0 DEF PeriodStart
    <2> QED
      BY <1>0, <1>1, <2>1
  <1>3. ASSUME NEW i \in 2..Len(dates) PROVE dates[i] > dates[i - 1]
    <2>1. PeriodStart(i) = dates[i - 1] /\ i \in 1..Len(dates) /\ i - 1 \in 1..Len(dates)
      BY <1>0 DEF PeriodStart
    <2> QED
      BY <1>0, <1>1, <2>1
  <1>4. Len(dates) = Len(rates) * ppy
    <2>1. Len(rates) \in Int /\ Len(dates) = Len(rates) /\ ppy = 1
      BY <1>0
    <2>2. Len(rates) * 1 = Len(rates)
      BY ONLY <2>1
    <2> QED
      BY <2>1, <2>2
  <1> QED
    BY <1>2, <1>3, <1>4 DEF Ascending

\* A period that counts as a year is one turn of the annual loop.
LEMMA YearlyPeriod ==
  ASSUME CurveTypes, WholeYears, NEW i \in 1..Len(dates),
         NEW s \in Nat, Fits(PeriodRate(i), s)
  PROVE  /\ rates[i] \in Nat
         /\ PeriodRate(i) = rates[i]
         /\ Denominator(i) = RAY + rates[i]
         /\ \A df \in 0..RAY : Accrued(i, df) = df
  <1>0. i \in 1..Len(rates) /\ ppy = 1 /\ Tau(i) = RAY /\ rates[i] \in Nat
    BY ArgumentTypes, LenProperties DEF WholeYears
  <1>1. PeriodRate(i) = rates[i]
    <2>1. (i - 1) \div 1 + 1 = i
      BY <1>0
    <2> QED
      BY <1>0, <2>1 DEF PeriodRate
  <1>2. ray_mul(rates[i], RAY) = rates[i]
    <2>1. PICK r \in Nat : r = rates[i]
      BY <1>0
    <2>2. 0 \in Nat /\ 0 <= s
      OBVIOUS
    <2>3. RAY * (2 * r + s + 4 * RAY) + r * 0 + HALF_RAY < RAY * WORD
      BY <1>1, <2>1, <2>2, ProductsFit
    <2>4. RAY * r < RAY * WORD
      <3>1. PICK v \in Nat : v = 2 * r + s + 4 * RAY /\ r <= v
        BY <2>1, RayAssumption
      <3>3. RAY \in Nat /\ WORD \in Nat /\ HALF_RAY \in Nat
        BY RayAssumption, WordAssumption, HalfRay
      <3>4. r * 0 = 0
        BY ONLY r \in Nat
      <3>5. RAY * r <= RAY * v
        BY ONLY <3>1, <3>3, r \in Nat, v \in Nat
      <3>6. RAY * r \in Nat /\ RAY * v \in Nat /\ RAY * WORD \in Nat
        BY ONLY <3>3, r \in Nat, v \in Nat
      <3>2. /\ RAY * r <= RAY * v /\ RAY * r \in Nat /\ RAY * v \in Nat /\ RAY * WORD \in Nat
            /\ HALF_RAY \in Nat /\ r * 0 = 0
        BY <3>3, <3>4, <3>5, <3>6
      <3> QED
        BY <2>1, <2>3, <3>1, <3>2
    <2>5. r < WORD
      BY <2>1, <2>4, RayAssumption, WordAssumption
    <2> QED
      BY <2>1, <2>5, RayMulOne
  <1>3. Denominator(i) = RAY + rates[i]
    BY <1>0, <1>1, <1>2 DEF Denominator
  <1>4. \A df \in 0..RAY : Accrued(i, df) = df
    BY <1>0, RayMulOne, RayAssumption, WordAssumption DEF Accrued
  <1> QED
    BY <1>0, <1>1, <1>3, <1>4

\* Where the loops start, and what refuses either of them.
LEMMA ValidateFollows == ASSUME IInv, Validate PROVE AnnualFollows'
  <1> SUFFICES ASSUME WholeYears' PROVE AnnualFollows'
    BY DEF AnnualFollows
  <1>0. /\ CurveTypes /\ dfs = <<>> /\ outcome = "called"
        /\ UNCHANGED <<rates, dates, ppy, dfs, annuity_sum>>
    BY DEF IInv, FactorsFound, Validate, args
  <1>1. WholeYears
    BY <1>0 DEF WholeYears, Tau, PeriodStart
  <1>2. PICK c : c = AnnualCurve /\ c = AnnualCurve' /\ IsAnnual(c, rates)
    BY <1>0, AnnualCurveIs DEF AnnualCurve
  <1>3. c[0] = AnnualStart(rates) /\ bootstrap_annual(rates) = c[Len(rates)]
    BY <1>2 DEF IsAnnual
  <1>4. CASE rates = <<>>
    <2>1. outcome' = "EmptyInput" /\ Len(rates) = 0
      BY <1>4, EmptySeq DEF Validate
    <2>2. bootstrap_annual(rates) = [dfs |-> <<>>, annuity |-> 0, outcome |-> "EmptyInput"]
      BY <1>3, <1>4, <2>1 DEF AnnualStart
    <2> QED
      BY <1>0, <2>1, <2>2 DEF AnnualFollows
  <1>5. CASE rates # <<>>
    <2>1. outcome' = "bootstrapping"
      BY <1>0, <1>1, <1>5, WholeYearsAscend DEF Validate
    <2>2. c[0] = [dfs |-> <<>>, annuity |-> 0, outcome |-> "Ok"] /\ Len(dfs') = 0
      BY <1>0, <1>3, <1>5, EmptySeq DEF AnnualStart
    <2>3. annuity_sum' = 0
      BY <1>0 DEF IInv, FactorsFound
    <2> QED
      BY <1>0, <1>2, <2>1, <2>2, <2>3 DEF AnnualFollows, Errors
  <1> QED
    BY <1>4, <1>5

\* One turn of both loops.
LEMMA PeriodFollows == ASSUME IInv, AnnualFollows, Period PROVE AnnualFollows'
  <1> SUFFICES ASSUME WholeYears' PROVE AnnualFollows'
    BY DEF AnnualFollows
  <1>0. PICK i : i = Len(dfs) + 1
    OBVIOUS
  <1> DEFINE interest == ray_mul(PeriodRate(i), annuity_sum)
             df == ray_div(RAY - interest, Denominator(i))
  <1>1. outcome = "bootstrapping" /\ i \in 1..Len(dates) /\ CurveTypes /\ Validated
    BY <1>0, ArgumentTypes DEF IInv, Period
  <1>2. UNCHANGED <<rates, dates, ppy>>
    BY DEF Period, Fail, args
  <1>3. WholeYears
    BY <1>2 DEF WholeYears, Tau, PeriodStart
  <1>4. PICK c : c = AnnualCurve /\ c = AnnualCurve' /\ IsAnnual(c, rates)
    BY <1>1, <1>2, AnnualCurveIs DEF AnnualCurve
  <1>5. PICK d : d = [dfs |-> dfs, annuity |-> annuity_sum, outcome |-> "Ok"]
    OBVIOUS
  <1>6. i \in 1..Len(rates) /\ rates \in Seq(Nat) /\ i - 1 = Len(dfs) /\ Len(rates) \in Nat
    BY <1>0, <1>1, <1>3, ArgumentTypes DEF WholeYears
  <1>7. c[i - 1] = d
    BY <1>1, <1>3, <1>4, <1>5, <1>6 DEF AnnualFollows
  <1>8. c[i] = AnnualStep(d, rates[i])
    BY <1>4, <1>6, <1>7 DEF IsAnnual
  <1>9. /\ rates[i] \in Nat /\ PeriodRate(i) = rates[i] /\ Denominator(i) = RAY + rates[i]
        /\ \A x \in 0..RAY : Accrued(i, x) = x
    <2>1. PICK s \in Nat : Fits(PeriodRate(i), s)
      BY <1>0, <1>1, PeriodFits DEF IInv
    <2> QED
      BY <1>1, <1>3, <2>1, YearlyPeriod
  <1>10. interest = ray_mul(rates[i], d.annuity) /\ df = ray_div(RAY - interest, RAY + rates[i])
    BY <1>5, <1>9
  <1>11. interest \in Nat /\ (Bearable(interest) => df \in 0..RAY)
    <2>1. annuity_sum \in Nat
      BY <1>1 DEF CurveTypes
    <2>2. interest \in Nat
      BY <1>9, <2>1, RayMulRange
    <2>3. Denominator(i) \in Nat \ {0} /\ Denominator(i) >= RAY
      BY <1>9, RayAssumption
    <2> QED
      BY <2>2, <2>3, FactorAtMostOne, RayAssumption DEF Bearable
  <1>12. c[i] = IF interest > RAY THEN [d EXCEPT !.outcome = "InvalidDF"]
                ELSE IF df = 0 THEN [d EXCEPT !.outcome = "InvalidDF"]
                ELSE IF df > RAY THEN [d EXCEPT !.outcome = "NegativeRateDetected"]
                ELSE [d EXCEPT !.dfs = Append(d.dfs, df), !.annuity = d.annuity + df]
    BY <1>5, <1>8, <1>10 DEF AnnualStep
  <1> HIDE DEF interest, df
  <1>13. CASE ~(Bearable(interest) /\ Usable(df))
    <2>1. interest > RAY \/ (~(interest > RAY) /\ df = 0)
      BY <1>11, <1>13, RayAssumption DEF Bearable, Usable
    <2>2. c[i] = [dfs |-> dfs, annuity |-> annuity_sum, outcome |-> "InvalidDF"]
      BY <1>5, <1>12, <2>1
    <2>3. i \in 0..Len(rates) /\ c[i].outcome # "Ok"
      BY <1>6, <2>2
    <2>4. bootstrap_annual(rates) = c[i]
      BY <1>4, <1>6, <2>3, FailedCurveStays
    <2>5. outcome' = "InvalidDF" /\ UNCHANGED dfs
      BY <1>0, <1>11, <1>13, <2>1, RayAssumption
         DEF Period, Fail, interest, df, Bearable, Usable
    <2> QED
      BY <1>2, <2>2, <2>4, <2>5 DEF AnnualFollows
  <1>14. CASE Bearable(interest) /\ Usable(df)
    <2>1. ~(interest > RAY) /\ df # 0 /\ ~(df > RAY) /\ df \in 0..RAY
      BY <1>11, <1>14, RayAssumption DEF Bearable, Usable
    <2>2. c[i] = [dfs |-> Append(dfs, df), annuity |-> annuity_sum + df, outcome |-> "Ok"]
      BY <1>5, <1>12, <2>1
    <2>3. /\ dfs' = Append(dfs, df) /\ annuity_sum' = annuity_sum + Accrued(i, df)
          /\ outcome' = "bootstrapping"
      BY <1>0, <1>1, <1>14 DEF Period, Fail, interest, df
    <2>4. dfs \in Seq(Int) /\ Len(dfs') = i
      BY <1>0, <1>1, <2>1, <2>3, AppendProperties DEF CurveTypes
    <2> QED
      BY <1>4, <1>9, <2>1, <2>2, <2>3, <2>4 DEF AnnualFollows, Errors
  <1> QED
    BY <1>13, <1>14

\* The annual loop is over when the other returns.
LEMMA ReturnFollows == ASSUME IInv, AnnualFollows, Return PROVE AnnualFollows'
  <1> SUFFICES ASSUME WholeYears' PROVE AnnualFollows'
    BY DEF AnnualFollows
  <1>1. UNCHANGED <<rates, dates, ppy, dfs, annuity_sum>> /\ CurveTypes
    BY DEF IInv, Return, args
  <1>2. outcome = "bootstrapping" /\ outcome' = "Ok" /\ Len(dfs) = Len(dates)
    BY DEF Return
  <1>3. WholeYears
    BY <1>1 DEF WholeYears, Tau, PeriodStart
  <1>4. PICK c : c = AnnualCurve /\ c = AnnualCurve' /\ IsAnnual(c, rates)
    BY <1>1, AnnualCurveIs DEF AnnualCurve
  <1>5. c[Len(dfs)] = [dfs |-> dfs, annuity |-> annuity_sum, outcome |-> "Ok"]
    BY <1>2, <1>3, <1>4 DEF AnnualFollows
  <1>6. bootstrap_annual(rates) = c[Len(dfs)]
    BY <1>2, <1>3, <1>4 DEF IsAnnual, WholeYears
  <1> QED
    BY <1>1, <1>2, <1>4, <1>5, <1>6 DEF AnnualFollows

LEMMA NextFollows == IInv /\ AnnualFollows /\ [Next]_vars => AnnualFollows'
  <1> SUFFICES ASSUME IInv, AnnualFollows, [Next]_vars PROVE AnnualFollows'
    OBVIOUS
  <1>1. CASE Validate
    BY <1>1, ValidateFollows
  <1>2. CASE Period
    BY <1>2, PeriodFollows
  <1>3. CASE Return
    BY <1>3, ReturnFollows
  <1>4. CASE UNCHANGED <<rates, dates, ppy, dfs, annuity_sum, outcome>>
    BY <1>4 DEF AnnualFollows, WholeYears, AnnualCurve, Tau, PeriodStart
  <1>5. (\E t \in Times : Quote(t)) \/ UNCHANGED vars
          => UNCHANGED <<rates, dates, ppy, dfs, annuity_sum, outcome>>
    BY DEF Quote, vars, args
  <1> QED
    BY <1>1, <1>2, <1>3, <1>4, <1>5 DEF Next

\* bootstrap_annual and bootstrap_ois agree, factor by factor and failure by
\* failure, on every list of rates whose periods are whole years.
THEOREM TwinsAgree == Spec => []AnnualAgrees
  <1>1. Init => AnnualFollows
    BY DEF Init, AnnualFollows, Errors
  <1>2. AnnualFollows => AnnualAgrees
    BY DEF AnnualFollows, AnnualAgrees, WholeYears
  <1> QED
    BY <1>1, <1>2, NextFollows, Invariance, PTL DEF Spec

-----------------------------------------------------------------------------
(* The rates go in and come out. *)

\* What each period adds to the annuity.
Accruals == [i \in DOMAIN dfs |-> ray_mul(Tau(i), dfs[i])]

\* The running sum of bootstrap_ois is the sum par_swap_rate takes.
AnnuityIsSum == annuity_sum = SumFunction(Accruals)

\* The par rate read off the curve returned is the rate that went in (the
\* round trip of README.md:84), to the roundings of the last period over the
\* annuity and those of the quotient.
RoundTrip ==
  outcome = "Ok" /\ annuity_sum # 0 =>
    LET n == Len(dfs)
        taus == [i \in 1..n |-> Tau(i)]
        slack == 1 + (Roundings(n) + RAY) \div (2 * annuity_sum)
    IN par_swap_rate(dfs, taus) - PeriodRate(n) \in (-slack)..slack

\* What the annuity adds up is finitely many numbers.
AccrualsAdd ==
  /\ DOMAIN dfs = 1..Len(dfs) /\ Len(dfs) \in Nat
  /\ Summable(Accruals, 1..Len(dfs))
  /\ SumFunction(Accruals) = SumFunctionOnSet(Accruals, 1..Len(dfs))

LEMMA AccrualsSummable == IInv => AccrualsAdd
  <1> SUFFICES ASSUME IInv PROVE AccrualsAdd
    OBVIOUS
  <1>1. dfs \in Seq(Int) /\ CurveTypes /\ Validated /\ Len(dfs) <= Len(dates)
    BY DEF IInv, CurveTypes, FactorsFound
  <1>2. DOMAIN dfs = 1..Len(dfs) /\ Len(dfs) \in Nat
    BY <1>1, LenProperties
  <1>3. IsFiniteSet(1..Len(dfs))
    BY <1>2, 1 \in Int, Len(dfs) \in Int, FS_Interval
  <1>4. ASSUME NEW i \in 1..Len(dfs) PROVE ray_mul(Tau(i), dfs[i]) \in Int
    <2>1. i \in 1..Len(dates) /\ dfs[i] \in Int /\ dfs # <<>>
      BY <1>1, <1>2, ArgumentTypes, EmptySeq
    <2>2. Tau(i) \in Int
      BY <1>1, <2>1, PeriodTypes
    <2>3. ray_mul(Tau(i), dfs[i]) \in Nat
      BY <2>1, <2>2, RayMulWord
    <2> QED
      BY <2>3
  <1>5. SumFunction(Accruals) = SumFunctionOnSet(Accruals, DOMAIN Accruals)
    BY DEF SumFunction, SumFunctionOnSet, FoldFunction
  <1>6. DOMAIN Accruals = DOMAIN dfs /\ \A i \in 1..Len(dfs) : Accruals[i] \in Int
    BY <1>2, <1>4 DEF Accruals
  <1> QED
    BY <1>2, <1>3, <1>5, <1>6 DEF AccrualsAdd, Summable

LEMMA NextKeepsSum == IInv /\ IInv' /\ AnnuityIsSum /\ [Next]_vars => AnnuityIsSum'
  <1> SUFFICES ASSUME IInv, IInv', AnnuityIsSum, [Next]_vars PROVE AnnuityIsSum'
    OBVIOUS
  <1>0. AccrualsAdd /\ AccrualsAdd'
    BY AccrualsSummable, PTL
  <1>1. CASE UNCHANGED <<rates, dates, ppy, dfs, annuity_sum>>
    BY <1>1 DEF AnnuityIsSum, Accruals, Tau, PeriodStart
  <1>2. ASSUME NEW i, i = Len(dfs) + 1, NEW df, dfs' = Append(dfs, df),
               annuity_sum' = annuity_sum + Accrued(i, df), UNCHANGED args
        PROVE  AnnuityIsSum'
    <2> DEFINE V == Accruals'
    <2>1. /\ Len(dfs) \in Nat /\ dfs \in Seq(Int) /\ dfs' \in Seq(Int)
          /\ Len(dfs') = i /\ i \in 1..i /\ (1..i) \ {i} = 1..Len(dfs)
          /\ \A k \in 1..Len(dfs) : dfs'[k] = dfs[k]
          /\ dfs'[i] = df
      BY <1>2, LenProperties DEF IInv, CurveTypes
    <2>2. /\ DOMAIN dfs' = 1..i
          /\ Summable(V, 1..i)
          /\ SumFunction(V) = SumFunctionOnSet(V, 1..i)
      BY <1>0, <2>1 DEF AccrualsAdd
    <2>3. SumFunctionOnSet(V, 1..i) = V[i] + SumFunctionOnSet(V, 1..Len(dfs))
      <3> HIDE DEF V
      <3>1. PICK S : S = 1..i /\ i \in S /\ Summable(V, S) /\ S \ {i} = 1..Len(dfs)
        BY <2>1, <2>2
      <3>2. SumFunctionOnSet(V, S) = V[i] + SumFunctionOnSet(V, S \ {i})
        BY ONLY <3>1, SumRules
      <3> QED
        BY <3>1, <3>2
    <2>4. UNCHANGED <<dates>>
      BY <1>2 DEF args
    <2>5. \A k \in 1..i : V[k] = ray_mul(Tau(k), dfs'[k])
      BY <2>1, <2>2, <2>4 DEF Accruals, Tau, PeriodStart
    <2>6. \A k \in 1..Len(dfs) : V[k] = Accruals[k]
      <3>1. \A k \in 1..Len(dfs) : k \in 1..i /\ dfs'[k] = dfs[k] /\ k \in DOMAIN dfs
        BY <1>0, <1>2, <2>1 DEF AccrualsAdd
      <3> QED
        BY <2>5, <3>1 DEF Accruals
    <2>7. SumFunctionOnSet(V, 1..Len(dfs)) = SumFunctionOnSet(Accruals, 1..Len(dfs))
      <3>1. Summable(Accruals, 1..Len(dfs))
        BY <1>0 DEF AccrualsAdd
      <3> QED
        BY <2>6, <3>1, SumSame
    <2>8. V[i] = Accrued(i, df) /\ V[i] \in Int /\ annuity_sum \in Int
      BY <2>1, <2>2, <2>5 DEF Accrued, Summable, IInv, CurveTypes
    <2>9. annuity_sum' = V[i] + SumFunctionOnSet(Accruals, 1..Len(dfs))
      BY <1>0, <1>2, <2>8 DEF AnnuityIsSum, AccrualsAdd
    <2> QED
      BY <2>1, <2>2, <2>3, <2>7, <2>9 DEF AnnuityIsSum
  <1>3. CASE Period
    BY <1>1, <1>2, <1>3 DEF Period, Fail, args
  <1>4. CASE ~Period
    BY <1>1, <1>4 DEF Next, Validate, Return, Quote, vars, args
  <1> QED
    BY <1>3, <1>4

\* From the gap of a swap to its rate: with an annuity A that earns m at the
\* rate r, a rate p solved for is as close to r as the roundings allow.
LEMMA RateOffPar ==
  ASSUME NEW A \in Nat \ {0}, NEW r \in Nat, NEW x \in Int, NEW m \in Int, NEW p \in Int,
         NEW R \in Nat,
         RAY * m <= r * A + HALF_RAY, r * A - HALF_RAY < RAY * m,
         2 * (RAY * (x - m)) < R, -R < 2 * (RAY * (x - m)),
         2 * (A * p) <= 2 * (x * RAY) + A, 2 * (x * RAY) - A < 2 * (A * p)
  PROVE  LET slack == 1 + (R + RAY) \div (2 * A) IN p - r \in (-slack)..slack
  <1> DEFINE q == (R + RAY) \div (2 * A)
             g == p - r
  <1>1. RAY \in Nat \ {0} /\ HALF_RAY \in Nat /\ HALF_RAY + HALF_RAY = RAY
    BY HalfRay, RayAssumption
  <1>2. RAY * m \in Int /\ r * A \in Int /\ x * RAY \in Int /\ A * p \in Int
        /\ RAY * (x - m) = x * RAY - RAY * m /\ A * g = A * p - r * A
    BY <1>1
  <1>3. 2 * (A * g) < R + RAY + A /\ -(R + RAY + A) < 2 * (A * g)
    BY <1>1, <1>2
  <1>4. 2 * A \in Nat \ {0} /\ R + RAY \in Int
    BY <1>1
  <1>5. q \in Int /\ 0 <= q /\ R + RAY < (2 * A) * q + 2 * A
    <2>1. q \in Int /\ R + RAY < (2 * A) * q + 2 * A
      BY ONLY <1>4, DivBounds
    <2>2. 0 <= q
      BY <1>1, <1>4, DivBetween
    <2> QED
      BY <2>1, <2>2
  <1>6. g \in Int
    OBVIOUS
  <1> HIDE DEF q, g
  <1>7. A * q \in Int /\ (2 * A) * q = 2 * (A * q) /\ A * g \in Int
        /\ A * (q + 2) = A * q + 2 * A /\ A * (-(q + 2)) = -(A * q) - 2 * A
    BY <1>5, <1>6
  <1>8. A * g < A * (q + 2) /\ A * (-(q + 2)) < A * g
    BY <1>3, <1>5, <1>7, <1>1
  <1>9. g < q + 2 /\ -(q + 2) < g
    BY <1>5, <1>6, <1>8
  <1>10. g \in (-(1 + q))..(1 + q)
    BY <1>5, <1>6, <1>9
  <1> QED
    BY <1>10 DEF q, g

\* A period is no longer than the time from the settlement to its end.
LEMMA SpanIsLong ==
  ASSUME CurveTypes, Validated, dfs # <<>>, NEW i \in 1..Len(dates)
  PROVE  Tau(i) <= Span(NodeDate(i))
  <1>0. /\ dates \in Seq(Nat) /\ dates[i] \in Nat /\ Settlement \in Nat /\ Len(dates) \in Nat
        /\ BASIS \in Nat \ {0} /\ RAY \in Nat \ {0}
        /\ Ascending(dates) /\ dates[1] > Settlement
    BY ArgumentTypes DEF Validated
  <1>1. NodeDate(i) = dates[i] /\ PeriodStart(i) \in Nat /\ PeriodStart(i) >= Settlement
    <2>1. CASE i = 1
      BY <1>0, <2>1 DEF NodeDate, PeriodStart
    <2>2. CASE i # 1
      <3>1. 1 \in 1..Len(dates) /\ i - 1 \in 1..Len(dates) /\ (i - 1 = 1 \/ i - 1 \in 2..Len(dates))
        BY <1>0, <2>2
      <3>2. dates[1] \in Nat /\ dates[i - 1] \in Nat
        BY <3>1, ArgumentTypes
      <3>3. dates[1] <= dates[i - 1]
        BY <1>0, <3>1, <3>2, AscendingIsMonotone
      <3> QED
        BY <1>0, <2>2, <3>2, <3>3 DEF NodeDate, PeriodStart
    <2> QED
      BY <2>1, <2>2
  <1>2. PICK a \in Int, c \in Int : /\ a = (dates[i] - PeriodStart(i)) * RAY
                                   /\ c = (dates[i] - Settlement) * RAY /\ a <= c
    <2>1. (dates[i] - PeriodStart(i)) * RAY <= (dates[i] - Settlement) * RAY
      BY <1>0, <1>1
    <2> QED
      BY <1>0, <1>1, <2>1
  <1>3. a \div BASIS <= c \div BASIS
    <2>1. a \div BASIS \in Int /\ BASIS * (a \div BASIS) <= a
      BY <1>0, <1>2, DivBounds
    <2>2. PICK q \in Int : q = a \div BASIS /\ BASIS * q <= c
      BY <1>0, <1>2, <2>1
    <2> QED
      BY <1>0, <1>2, <2>2, DivBetween
  <1> QED
    BY <1>1, <1>2, <1>3 DEF Span, Tau, ActualFraction

\* What is left of one, over the annuity, fits: the interest of the swap fits
\* and its roundings are within the four years' room.
LEMMA ParFits ==
  ASSUME NEW A \in Nat \ {0}, NEW r \in Nat, NEW s \in Nat, A <= s, Fits(r, s),
         NEW tau \in Nat, tau <= s,
         NEW x \in 0..RAY, NEW m \in Nat, RAY * m <= r * A + HALF_RAY,
         NEW R \in Nat, R = (RAY + ray_mul(r, tau)) + r + 3 * RAY,
         2 * (RAY * (x - m)) < R
  PROVE  x * RAY + A \div 2 < A * WORD
  <1>1. RAY \in Nat \ {0} /\ HALF_RAY \in Nat /\ HALF_RAY + HALF_RAY = RAY /\ WORD \in Nat
    BY HalfRay, RayAssumption, WordAssumption
  <1>2. PICK g \in Nat : g = ray_mul(r, tau) /\ RAY * g <= r * tau + HALF_RAY
    <2>1. r * tau + HALF_RAY < RAY * WORD
      BY ProductsFit
    <2> QED
      BY <2>1, RayMulNearest
  <1>3. RAY * (2 * r + s + 4 * RAY) + r * tau + HALF_RAY < RAY * WORD
    BY ProductsFit
  <1>4. 2 * r + s + 4 * RAY + g < WORD
    <2>1. RAY * (2 * r + s + 4 * RAY + g) = RAY * (2 * r + s + 4 * RAY) + RAY * g
          /\ RAY * (2 * r + s + 4 * RAY) \in Nat /\ RAY * g \in Nat /\ r * tau \in Nat
      BY <1>1, <1>2
    <2>2. RAY * (2 * r + s + 4 * RAY + g) < RAY * WORD
      BY <1>1, <1>2, <1>3, <2>1
    <2>3. 2 * r + s + 4 * RAY + g \in Nat
      BY <1>1, <1>2
    <2> HIDE DEF Fits
    <2> QED
      BY <1>1, <2>2, <2>3
  <1>5. 2 * (x * RAY) < 2 * (r * A) + RAY + R
    <2>1. RAY * (x - m) = x * RAY - RAY * m /\ x * RAY \in Int /\ RAY * m \in Int /\ r * A \in Int
      BY <1>1
    <2> QED
      BY <1>1, <2>1
  <1>6. PICK c \in Nat : c = 2 * r + s + 4 * RAY + g /\ c + 1 <= WORD
    BY <1>1, <1>2, <1>4
  <1>7. A * (c + 1) <= A * WORD /\ A * (c + 1) = 2 * (r * A) + A * (s + 4 * RAY + g) + A
    BY <1>1, <1>2, <1>6
  <1>8. s + 4 * RAY + g <= A * (s + 4 * RAY + g)
    BY <1>1, <1>2
  <1>9. A \div 2 \in Int /\ 2 * (A \div 2) <= A
    OBVIOUS
  <1>10. r * A \in Nat /\ A * (s + 4 * RAY + g) \in Nat /\ A * WORD \in Nat /\ x * RAY \in Int
         /\ r <= r * A
    BY <1>1, <1>2
  <1> QED
    BY <1>1, <1>2, <1>5, <1>7, <1>8, <1>9, <1>10

\* The par rate of a finished curve is the rate it was bootstrapped from.
LEMMA FinishedCurveReturns ==
  ASSUME IInv, AnnuityIsSum PROVE RoundTrip
  <1> DEFINE n == Len(dfs)
             taus == [i \in 1..n |-> Tau(i)]
             x == RAY - dfs[n]
             m == ray_mul(PeriodRate(n), annuity_sum)
             p == par_swap_rate(dfs, taus)
             R == Roundings(n)
  <1> SUFFICES ASSUME outcome = "Ok", annuity_sum # 0
               PROVE  LET slack == 1 + (R + RAY) \div (2 * annuity_sum)
                      IN p - PeriodRate(n) \in (-slack)..slack
    BY DEF RoundTrip
  <1>1. AccrualsAdd
    BY AccrualsSummable
  <1>2. annuity_sum \in Nat \ {0} /\ n \in Nat
    BY <1>1 DEF AccrualsAdd, IInv, CurveTypes
  <1>3. dfs # <<>>
    <2>1. CASE dfs = <<>>
      <3>1. Len(dfs) = 0
        BY <2>1, EmptySeq
      <3>2. 1..Len(dfs) = {}
        BY ONLY <3>1, 1..0 = {}
      <3>3. SumFunctionOnSet(Accruals, 1..Len(dfs)) = 0
        BY <1>1, <3>2, SumRules DEF AccrualsAdd
      <3> QED
        BY <1>1, <1>2, <3>3 DEF AccrualsAdd, AnnuityIsSum
    <2> QED
      BY <2>1
  <1>4. n \in 1..Len(dates) /\ CurveTypes /\ Validated
    BY <1>2, <1>3, EmptySeq DEF IInv, FactorsFound, CurveTypes
  <1>5. PeriodRate(n) \in Nat /\ Denominator(n) \in Nat /\ RAY \in Nat \ {0}
    BY <1>4, PeriodTypes, RayAssumption
  <1>6. x \in 0..RAY
    <2>1. dfs \in Seq(Int) /\ n \in 1..Len(dfs)
      BY <1>2, <1>4 DEF CurveTypes
    <2>2. dfs[n] \in 1..RAY
      BY <2>1 DEF IInv, FactorsInRange
    <2> QED
      BY <1>5, <2>2
  <1>11. PICK s \in Nat : /\ s = Span(NodeDate(n)) /\ annuity_sum <= s
                          /\ Fits(PeriodRate(n), s)
    <2>1. PICK s \in Int : s = Span(NodeDate(n)) /\ Fits(PeriodRate(n), s)
      BY <1>4, SpanFits
    <2>2. annuity_sum <= s
      BY <2>1 DEF IInv, AnnuityInSpan
    <2> QED
      BY <1>2, <2>1, <2>2
  <1>7. m \in Nat /\ RAY * m <= PeriodRate(n) * annuity_sum + HALF_RAY
        /\ PeriodRate(n) * annuity_sum - HALF_RAY < RAY * m
    <2>1. PeriodRate(n) \in Nat /\ annuity_sum \in Nat
          /\ PeriodRate(n) * annuity_sum + HALF_RAY < RAY * WORD
      BY <1>2, <1>5, <1>11, ProductsFit
    <2> QED
      BY ONLY <2>1, RayMulNearest
  <1>8. p = ray_div(x, annuity_sum)
    <2>1. Accruals = [i \in DOMAIN dfs |-> ray_mul(taus[i], dfs[i])]
      BY <1>1 DEF Accruals, AccrualsAdd
    <2> QED
      BY <2>1 DEF par_swap_rate, AnnuityIsSum
  <1>10. R \in Nat /\ OffPar(n) = x - m
         /\ 2 * (RAY * OffPar(n)) < R /\ -R < 2 * (RAY * OffPar(n))
    BY <1>3, <1>5 DEF IInv, RepricesPar, Roundings, OffPar
  <1>12. x * RAY + annuity_sum \div 2 < annuity_sum * WORD
    <2>1. Tau(n) \in Nat /\ Tau(n) <= s
      BY <1>3, <1>4, <1>11, PeriodTypes, SpanIsLong
    <2>2. R = (RAY + ray_mul(PeriodRate(n), Tau(n))) + PeriodRate(n) + 3 * RAY
      BY DEF Roundings, Denominator
    <2> HIDE DEF p, x, m, R
    <2> QED
      BY <1>2, <1>5, <1>6, <1>7, <1>10, <1>11, <2>1, <2>2, ParFits
  <1>9. p \in Int /\ 2 * (annuity_sum * p) <= 2 * (x * RAY) + annuity_sum
        /\ 2 * (x * RAY) - annuity_sum < 2 * (annuity_sum * p)
    <2>1. x \in Nat
      BY <1>5, <1>6
    <2> HIDE DEF x, p
    <2> QED
      BY <1>2, <1>8, <1>12, <2>1, RayDivNearest
  <1>13. x \in Int /\ m \in Int
    BY <1>5, <1>6, <1>7
  <1> HIDE DEF p, x, m, R
  <1> QED
    BY <1>2, <1>5, <1>7, <1>9, <1>10, <1>13, RateOffPar

\* The par rate of the curve bootstrap_ois returns is the rate that went in,
\* however long the curve.
THEOREM RatesRoundTrip == Spec => []RoundTrip
  <1>1. Init => AnnuityIsSum
    <2> SUFFICES ASSUME Init PROVE AnnuityIsSum
      OBVIOUS
    <2>1. AccrualsAdd /\ Len(dfs) = 0 /\ annuity_sum = 0
      BY InitInv, AccrualsSummable, EmptySeq DEF Init
    <2>2. 1..Len(dfs) = {}
      BY ONLY <2>1, 1..0 = {}
    <2> QED
      BY <2>1, <2>2, SumRules DEF AccrualsAdd, AnnuityIsSum
  <1>2. IInv /\ AnnuityIsSum => RoundTrip
    BY FinishedCurveReturns
  <1> QED
    BY <1>1, <1>2, NextKeepsSum, Invariance, PTL DEF Spec

-----------------------------------------------------------------------------
(* Where rates rise, factors fall. *)

\* A factor that is not above the one before it has a forward rate.
LEMMA FallingFactorsDivide ==
  ASSUME NEW a \in Int, NEW b \in Nat \ {0}, NEW tau, b <= a, WideQuotient(a, b) < WORD
  PROVE  ~Underflows(a, b, tau)
  <1> DEFINE x == a * RAY + b \div 2
  <1>1. RAY \in Nat \ {0} /\ b \div 2 \in Nat /\ b * RAY <= a * RAY /\ a * RAY \in Int
    BY RayAssumption
  <1>2. x \in Int /\ b * RAY <= x
    BY <1>1
  <1>3. x \div b \in Int /\ RAY <= x \div b
    <2> HIDE DEF x
    <2> QED
      BY <1>1, <1>2, DivBounds, DivBetween
  <1>4. ray_div(a, b) = WideQuotient(a, b) /\ WideQuotient(a, b) = x \div b
    <2>1. WideQuotient(a, b) \in Nat
      BY <1>1, <1>3 DEF WideQuotient
    <2> QED
      BY <2>1, CutToWord DEF WideQuotient, ray_div
  <1> HIDE DEF x
  <1> QED
    BY <1>1, <1>3, <1>4 DEF Underflows

\* The swap before leaves what its factor discounts, but for its roundings;
\* the rate of the next takes no less of the annuity, and discounts what is
\* left by an interest that outweighs them.
LEMMA InterestOutweighs ==
  ASSUME NEW unit \in Nat, NEW a \in Int, NEW b \in Int, NEW x \in Int, NEW D \in Int,
         NEW I \in Int, NEW J \in Int, NEW bound \in Int,
         D = unit + x, J <= I,
         2 * (unit * (unit - a - J)) < bound,
         2 * (D * b) <= 2 * ((unit - I) * unit) + D,
         bound + D <= 2 * (b * x) + 2 * unit
  PROVE  b <= a
  <1>1. /\ unit * (unit - a - J) = unit * unit - unit * a - unit * J
        /\ (unit - I) * unit = unit * unit - unit * I
        /\ D * b = unit * b + b * x
    OBVIOUS
  <1>2. unit * J <= unit * I
    OBVIOUS
  <1>3. /\ unit * unit \in Int /\ unit * a \in Int /\ unit * J \in Int /\ unit * I \in Int
        /\ unit * b \in Int /\ b * x \in Int
    OBVIOUS
  <1>4. unit * b < unit * a + unit
    BY <1>1, <1>2, <1>3
  <1>5. ASSUME a + 1 <= b PROVE FALSE
    <2>1. unit * (a + 1) <= unit * b
      BY <1>5
    <2>2. unit * (a + 1) = unit * a + unit
      OBVIOUS
    <2> QED
      BY <1>3, <1>4, <2>1, <2>2
  <1> QED
    BY <1>5

\* Beside the property, a rate of nothing discounts nothing.
ForwardsInv ==
  /\ RisingRatesHaveForwards
  /\ \A i \in DOMAIN dfs : PeriodRate(i) = 0 => dfs[i] = RAY

\* The periods done stay as they are.
LEMMA SameCurveSameForwards ==
  ASSUME ForwardsInv, UNCHANGED <<args, dfs>>
  PROVE  ForwardsInv'
  BY DEF ForwardsInv, RisingRatesHaveForwards, OutweighsRoundings, Roundings, Denominator,
         PeriodRate, Tau, PeriodStart, NodeFactor, args

\* A rate of nothing discounts nothing.
LEMMA NoRateNoDiscount ==
  ASSUME NEW annuity \in Nat, NEW tau \in Nat
  PROVE  ray_div(RAY - ray_mul(0, annuity), RAY + ray_mul(0, tau)) = RAY
  <1>1. ray_mul(0, annuity) = 0 /\ ray_mul(0, tau) = 0 /\ RAY \in Nat \ {0}
    <2>1. ASSUME NEW x \in Nat PROVE ray_mul(0, x) = 0
      <3>1. 0 * x + HALF_RAY = HALF_RAY /\ HALF_RAY \div RAY = 0
        BY HalfRay, RayAssumption
      <3>2. 0 % WORD = 0
        BY CutToWord, WordAssumption, RayAssumption
      <3> QED
        BY <3>1, <3>2 DEF ray_mul, WideProduct
    <2> QED
      BY <2>1, RayAssumption
  <1>2. RAY - 0 = RAY /\ RAY + 0 = RAY
    BY <1>1
  <1>3. ray_div(RAY, RAY) = RAY
    <2> DEFINE x == RAY * RAY + RAY \div 2
    <2>1. x \in Int /\ RAY * RAY <= x /\ x < RAY * RAY + RAY
      BY <1>1
    <2> HIDE DEF x
    <2>2. x \div RAY = RAY
      BY <1>1, <2>1, DivIs
    <2>3. RAY % WORD = RAY
      BY <1>1, WordAssumption, CutToWord
    <2> QED
      BY <2>2, <2>3 DEF x, ray_div, WideQuotient
  <1> QED
    BY <1>1, <1>2, <1>3

\* A larger rate takes no less of the same annuity.
LEMMA HigherRateTakesMore ==
  ASSUME NEW r \in Nat, NEW s \in Nat, r <= s, NEW annuity \in Nat,
         s * annuity + HALF_RAY < RAY * WORD
  PROVE  ray_mul(r, annuity) <= ray_mul(s, annuity)
  <1>1. annuity * s = s * annuity
    OBVIOUS
  <1>2. ray_mul(annuity, r) <= ray_mul(annuity, s)
    BY <1>1, RayMulMonotone
  <1>3. annuity \in Int /\ r \in Int /\ s \in Int
    OBVIOUS
  <1> QED
    BY <1>2, <1>3, RayMulCommutes

\* The period that passes is not above the one before.
LEMMA PeriodFalls ==
  ASSUME IInv, ForwardsInv, outcome = "bootstrapping",
         NEW i \in 2..Len(dates), i = Len(dfs) + 1,
         NEW b \in 1..RAY,
         b = ray_div(RAY - ray_mul(PeriodRate(i), annuity_sum), Denominator(i)),
         ray_mul(PeriodRate(i), annuity_sum) <= RAY,
         PeriodRate(i - 1) <= PeriodRate(i),
         \/ PeriodRate(i) = 0
         \/ Roundings(i - 1) + Denominator(i)
              <= 2 * (b * ray_mul(PeriodRate(i), Tau(i))) + 2 * RAY
  PROVE  b <= dfs[i - 1]
  <1>1. CurveTypes /\ Validated /\ FactorsInRange /\ RepricesPar
    BY DEF IInv
  <1>2. Len(dfs) \in Nat /\ Len(dates) \in Nat /\ RAY \in Nat \ {0} /\ annuity_sum \in Nat
    BY <1>1, ArgumentTypes DEF CurveTypes
  <1>3. i \in Int /\ Len(dfs) = i - 1 /\ i - 1 \in 1..Len(dates) /\ i \in 1..Len(dates)
        /\ i - 1 \in DOMAIN dfs /\ dfs # <<>>
    BY <1>1, <1>2, EmptySeq DEF CurveTypes
  <1>4. /\ PeriodRate(i) \in Nat /\ Tau(i) \in Nat
        /\ ray_mul(PeriodRate(i), Tau(i)) \in Nat
        /\ Denominator(i) = RAY + ray_mul(PeriodRate(i), Tau(i))
        /\ Denominator(i) \in Nat \ {0}
    BY <1>1, <1>3, PeriodTypes
  <1>5. PeriodRate(i - 1) \in Nat /\ Denominator(i - 1) \in Nat \ {0}
    BY <1>1, <1>3, PeriodTypes
  <1>6. PICK a : a = dfs[i - 1]
    OBVIOUS
  <1>7. a \in 1..RAY /\ a \in Int
    BY <1>1, <1>2, <1>3, <1>6 DEF FactorsInRange
  <1>8. CASE PeriodRate(i) = 0
    <2>1. PeriodRate(i - 1) = 0
      BY <1>5, <1>8
    <2>2. a = RAY
      BY <1>3, <1>6, <2>1 DEF ForwardsInv
    <2> QED
      BY <1>2, <1>6, <2>2
  <1>9. CASE PeriodRate(i) # 0
    <2>1. PICK J, I, x, bound : /\ J = ray_mul(PeriodRate(i - 1), annuity_sum)
                                /\ I = ray_mul(PeriodRate(i), annuity_sum)
                                /\ x = ray_mul(PeriodRate(i), Tau(i))
                                /\ bound = Roundings(i - 1)
      OBVIOUS
    <2>2. J \in Int /\ I \in Int /\ x \in Int /\ J <= I /\ I <= RAY
      <3>1. J \in Nat /\ I \in Nat /\ x \in Nat
        BY <1>2, <1>4, <1>5, <2>1, RayMulRange
      <3>2. J <= I
        <4>1. PICK s \in Nat : annuity_sum + Tau(i) <= s /\ Fits(PeriodRate(i), s)
          BY <1>1, <1>3, PeriodFits DEF IInv
        <4>2. annuity_sum <= s
          BY <1>2, <1>4, <4>1
        <4>3. PeriodRate(i) * annuity_sum + HALF_RAY < RAY * WORD
          BY <1>2, <1>4, <4>1, <4>2, ProductsFit
        <4> QED
          BY <1>2, <1>4, <1>5, <2>1, <4>3, HigherRateTakesMore
      <3> QED
        BY <2>1, <3>1, <3>2
    <2>3. bound \in Int
      BY <1>2, <1>4, <1>5, <2>1 DEF Roundings
    <2>4. 2 * (RAY * (RAY - a - J)) < bound
      BY <1>1, <1>3, <1>6, <2>1 DEF RepricesPar, OffPar
    <2>5. PICK D : D = Denominator(i)
      OBVIOUS
    <2>6. D \in Nat \ {0} /\ D = RAY + x
      BY <1>4, <2>1, <2>5
    <2>7. 2 * (D * b) <= 2 * ((RAY - I) * RAY) + D
      <3>1. RAY - I \in Nat /\ RAY - I \in 0..RAY /\ RAY <= D /\ b = ray_div(RAY - I, D)
        <4>1. I \in Nat /\ x \in Nat
          BY <1>2, <1>4, <2>1, RayMulRange
        <4> QED
          BY <1>2, <2>1, <2>2, <2>5, <2>6, <4>1
      <3>2. (RAY - I) * RAY + D \div 2 < D * WORD
        BY <2>6, <3>1, QuotientFits
      <3> QED
        BY ONLY <2>6, <3>1, <3>2, RayDivNearest
    <2>8. bound + D <= 2 * (b * x) + 2 * RAY
      BY <1>9, <2>1, <2>5
    <2>9. b <= a
      <3>1. b \in Int /\ RAY \in Nat /\ D \in Int
        BY <1>2, <2>6
      <3> QED
        BY ONLY <1>7, <2>2, <2>3, <2>4, <2>6, <2>7, <2>8, <3>1, InterestOutweighs
    <2> QED
      BY <1>6, <2>9
  <1> QED
    BY <1>8, <1>9

LEMMA PeriodKeepsForwards == ASSUME IInv, ForwardsInv, Period PROVE ForwardsInv'
  <1>0. PICK i : i = Len(dfs) + 1
    OBVIOUS
  <1> DEFINE interest == ray_mul(PeriodRate(i), annuity_sum)
             df == ray_div(RAY - interest, Denominator(i))
  <1>1. i \in 1..Len(dates) /\ CurveTypes /\ Validated /\ outcome = "bootstrapping"
    BY <1>0, ArgumentTypes DEF IInv, Period
  <1>2. /\ PeriodRate(i) \in Nat /\ Tau(i) \in Nat
        /\ Denominator(i) = RAY + ray_mul(PeriodRate(i), Tau(i))
        /\ Denominator(i) \in Nat \ {0} /\ Denominator(i) >= RAY
    BY <1>1, PeriodTypes
  <1>3. annuity_sum \in Nat /\ interest \in Nat /\ RAY \in Nat \ {0}
    BY <1>1, <1>2, RayMulRange, RayAssumption DEF CurveTypes
  <1>4. CASE UNCHANGED <<args, dfs>>
    BY <1>4, SameCurveSameForwards
  <1>5. CASE Bearable(interest) /\ Usable(df) /\ dfs' = Append(dfs, df) /\ UNCHANGED args
    <2>1. df \in 0..RAY /\ df # 0
      BY <1>2, <1>3, <1>5, FactorAtMostOne DEF Bearable, Usable
    <2>2. PICK b : b = df
      OBVIOUS
    <2>3. b \in 1..RAY /\ b \in Nat \ {0} /\ b \in Int
      BY <1>3, <2>1, <2>2
    <2>4. /\ Len(dfs) \in Nat /\ dfs \in Seq(Int) /\ dfs' = Append(dfs, b)
      BY <1>1, <1>5, <2>2, ArgumentTypes DEF CurveTypes
    <2>5. /\ DOMAIN dfs' = 1..i /\ DOMAIN dfs = 1..(i - 1)
          /\ \A k \in 1..(i - 1) : dfs'[k] = dfs[k]
          /\ dfs'[i] = b
      BY ONLY <1>0, <2>3, <2>4, AppendProperties
    <2>6. \A k : /\ PeriodRate(k)' = PeriodRate(k) /\ Tau(k)' = Tau(k)
                 /\ Denominator(k)' = Denominator(k) /\ Roundings(k)' = Roundings(k)
      BY <1>5 DEF PeriodRate, Tau, PeriodStart, Denominator, Roundings, args
    <2>7. PeriodRate(i) = 0 => b = RAY
      BY <1>2, <1>3, <2>2, NoRateNoDiscount
    <2>8. \A k \in DOMAIN dfs' : PeriodRate(k)' = 0 => dfs'[k] = RAY
      BY <1>1, <2>5, <2>6, <2>7 DEF ForwardsInv
    <2>9. ASSUME NEW k \in 1..i,
                 WideQuotient(NodeFactor(k - 1)', dfs'[k]) < WORD,
                 k > 1 => /\ PeriodRate(k - 1) <= PeriodRate(k)
                          /\ PeriodRate(k) = 0 \/ OutweighsRoundings(k)'
          PROVE  ~Underflows(NodeFactor(k - 1)', dfs'[k], Tau(k))
      <3>1. CASE k < i
        <4>1. k \in DOMAIN dfs /\ dfs'[k] = dfs[k] /\ (k > 1 => dfs'[k - 1] = dfs[k - 1])
          BY <1>1, <2>5, <3>1
        <4>2. NodeFactor(k - 1)' = NodeFactor(k - 1)
          BY <4>1 DEF NodeFactor
        <4>3. OutweighsRoundings(k)' <=> OutweighsRoundings(k)
          BY <2>6, <4>1 DEF OutweighsRoundings
        <4> QED
          BY <2>9, <4>1, <4>2, <4>3 DEF ForwardsInv, RisingRatesHaveForwards
      <3>2. CASE k = i /\ i = 1
        <4>1. NodeFactor(k - 1)' = RAY
          BY <3>2 DEF NodeFactor
        <4>2. RAY \in Int /\ b <= RAY
          BY <1>3, <2>3
        <4> QED
          BY <2>3, <2>5, <2>9, <3>2, <4>1, <4>2, FallingFactorsDivide
      <3>3. CASE k = i /\ i > 1
        <4>1. i \in 2..Len(dates) /\ i - 1 \in 1..(i - 1) /\ i - 1 # 0
          BY <1>1, <3>3
        <4>2. NodeFactor(k - 1)' = dfs[i - 1]
          BY <2>5, <3>3, <4>1 DEF NodeFactor
        <4>3. interest <= RAY
          BY <1>5 DEF Bearable
        <4>4. \/ PeriodRate(i) = 0
              \/ Roundings(i - 1) + Denominator(i)
                   <= 2 * (b * ray_mul(PeriodRate(i), Tau(i))) + 2 * RAY
          BY <2>5, <2>6, <2>9, <3>3 DEF OutweighsRoundings
        <4>5. b <= dfs[i - 1]
          BY <1>0, <1>1, <2>2, <2>3, <2>9, <3>3, <4>1, <4>3, <4>4, PeriodFalls
        <4>6. dfs[i - 1] \in Int
          BY <1>1, <2>5, <4>1, ArgumentTypes, <2>4
        <4> QED
          BY <2>3, <2>5, <2>9, <3>3, <4>2, <4>5, <4>6, FallingFactorsDivide
      <3> QED
        BY <1>1, <3>1, <3>2, <3>3
    <2>10. RisingRatesHaveForwards'
      BY <2>5, <2>6, <2>9 DEF RisingRatesHaveForwards
    <2> QED
      BY <2>8, <2>10 DEF ForwardsInv
  <1> QED
    BY <1>0, <1>4, <1>5 DEF Period, Fail, args

LEMMA NextKeepsForwards == IInv /\ ForwardsInv /\ [Next]_vars => ForwardsInv'
  <1> SUFFICES ASSUME IInv, ForwardsInv, [Next]_vars PROVE ForwardsInv'
    OBVIOUS
  <1>1. CASE Period
    BY <1>1, PeriodKeepsForwards
  <1>2. CASE Validate \/ Return \/ (\E t \in Times : Quote(t)) \/ UNCHANGED vars
    BY <1>2, SameCurveSameForwards DEF Validate, Return, Quote, vars
  <1> QED
    BY <1>1, <1>2 DEF Next

\* Where the rate does not fall from one period to the next, the forward rate
\* between their factors does not underflow (bootstrap.rs:160), for every
\* curve and every unit whose roundings the interest of the period outweighs.
THEOREM RisingRatesForward == Spec => []RisingRatesHaveForwards
  <1>1. Init => ForwardsInv
    BY EmptySeq DEF Init, ForwardsInv, RisingRatesHaveForwards
  <1>2. ForwardsInv => RisingRatesHaveForwards
    BY DEF ForwardsInv
  <1> QED
    BY <1>1, <1>2, NextKeepsForwards, Invariance, PTL DEF Spec

=============================================================================
