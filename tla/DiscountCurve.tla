--------------------------- MODULE DiscountCurve ---------------------------
(***************************************************************************)
(* From par swap rates to discount factors, and from the factors at the    *)
(* payment dates to the factor at any time: bootstrap_ois, one step per    *)
(* period of its loop, and interpolate_df on what it returned.             *)
(***************************************************************************)
EXTENDS CurveMath

CONSTANTS
  SwapRates,      \* sequences of par rates, one per tenor year
  PaymentDates,   \* sequences of payment dates
  Frequencies,    \* payments per year of the currencies
  Settlement,     \* valuation date
  BASIS,          \* length of a year in units of the dates
  Times           \* times a discount factor is asked for

ASSUME DiscountCurveAssumption ==
  /\ SwapRates \subseteq Seq(Nat)
  /\ PaymentDates \subseteq Seq(Nat)
  /\ Frequencies \subseteq Nat \ {0}
  /\ Settlement \in Nat
  /\ BASIS \in Nat \ {0}
  /\ Times \subseteq Nat

\* What a rate earns over a time, with some room for roundings, is a u128.
Fits(rate, time) == (rate + RAY) * (time + 4 * RAY) + HALF_RAY < RAY * WORD

Span(t) == ActualFraction(BASIS, Settlement, t)

\* No rate is so high, nor any curve so long, that a product of the two is
\* cut: with 10^27 for one, the rate times the years may go to 10^11.
ASSUME SpanAssumption ==
  \A rs \in SwapRates, ds \in PaymentDates :
    \A i \in DOMAIN rs, j \in DOMAIN ds : Fits(rs[i], Span(ds[j]))

VARIABLES
  rates,        \* argument swap_rates
  dates,        \* argument payment_dates
  ppy,          \* payments per year of the argument currency
  dfs,          \* the discount factors found so far
  annuity_sum,  \* the sum of year fraction times discount factor so far
  outcome,      \* where the call is, or what it returned
  quote         \* the last factor asked of a finished curve, with its time

args == <<rates, dates, ppy>>

vars == <<args, dfs, annuity_sum, outcome, quote>>

Errors == {"EmptyInput", "LengthMismatch", "InvalidDF", "NegativeRateDetected"}

NoQuote == [time |-> 0, df |-> 0]

-----------------------------------------------------------------------------
(* One period. *)

PeriodStart(i) == IF i = 1 THEN Settlement ELSE dates[i - 1]

Tau(i) == ActualFraction(BASIS, PeriodStart(i), dates[i])

\* expanded_rates: the rate of a tenor year applies to all its periods.
PeriodRate(i) == rates[(i - 1) \div ppy + 1]

Denominator(i) == RAY + ray_mul(PeriodRate(i), Tau(i))

\* Mutated: the annuity counts whole years.
AccruedFlat(i, df) == df

Accrued(i, df) == ray_mul(Tau(i), df)

-----------------------------------------------------------------------------
Init ==
  /\ rates \in SwapRates
  /\ dates \in PaymentDates
  /\ ppy \in Frequencies
  /\ dfs = <<>>
  /\ annuity_sum = 0
  /\ outcome = "called"
  /\ quote = NoQuote

Ascending(ds) == \A i \in 2..Len(ds) : ds[i] > ds[i - 1]

Validate ==
  /\ outcome = "called"
  /\ outcome' =
       CASE rates = <<>> -> "EmptyInput"
         [] rates # <<>> /\ Len(dates) # Len(rates) * ppy -> "LengthMismatch"
         [] OTHER -> IF Ascending(dates) /\ dates[1] > Settlement
                     THEN "bootstrapping" ELSE "InvalidDF"
  /\ UNCHANGED <<args, dfs, annuity_sum, quote>>

Bearable(interest) == interest <= RAY

\* Mutated: a factor of zero passes.
UsableZero(df) == df <= RAY

Usable(df) == df # 0 /\ df <= RAY

Fail(error) ==
  /\ outcome' = error
  /\ UNCHANGED <<args, dfs, annuity_sum, quote>>

\* One turn of the loop: DF = (1 - S * annuity) / (1 + S * tau).
Period ==
  LET i == Len(dfs) + 1
      interest == ray_mul(PeriodRate(i), annuity_sum)
      df == ray_div(RAY - interest, Denominator(i))
  IN
  /\ outcome = "bootstrapping"
  /\ i <= Len(dates)
  /\ \/ ~Bearable(interest) /\ Fail("InvalidDF")
     \/ /\ Bearable(interest) /\ ~Usable(df)
        /\ Fail(IF df = 0 THEN "InvalidDF" ELSE "NegativeRateDetected")
     \/ /\ Bearable(interest) /\ Usable(df)
        /\ dfs' = Append(dfs, df)
        /\ annuity_sum' = annuity_sum + Accrued(i, df)
        /\ UNCHANGED <<args, outcome, quote>>

Return ==
  /\ outcome = "bootstrapping"
  /\ Len(dfs) = Len(dates)
  /\ outcome' = "Ok"
  /\ UNCHANGED <<args, dfs, annuity_sum, quote>>

-----------------------------------------------------------------------------
(* The factor at any time, on a curve bootstrap_ois returned: its dates    *)
(* ascend from after the settlement, so no two nodes coincide.             *)

Quote(t) ==
  /\ outcome = "Ok"
  /\ quote' = [time |-> t, df |-> interpolate_df(t, Settlement, dates, dfs)]
  /\ UNCHANGED <<args, dfs, annuity_sum, outcome>>

Next == Validate \/ Period \/ Return \/ \E t \in Times : Quote(t)

Spec == Init /\ [][Next]_vars

-----------------------------------------------------------------------------
(* Properties. *)

\* Node 0 is the settlement, whose factor is one.
NodeDate(j) == IF j = 0 THEN Settlement ELSE dates[j]

NodeFactor(j) == IF j = 0 THEN RAY ELSE dfs[j]

\* The types of the call's state: the annuity and every quoted factor are
\* unsigned in the code, though both come of subtractions.
TypeOK ==
  /\ rates \in SwapRates
  /\ dates \in PaymentDates
  /\ ppy \in Frequencies
  /\ dfs \in Seq(Int)
  /\ Len(dfs) <= Len(dates)
  /\ annuity_sum \in Nat
  /\ outcome \in {"called", "bootstrapping", "Ok"} \union Errors
  /\ quote \in [time : Nat, df : Nat]

\* A factor that enters the curve is positive and at most one, whatever the
\* earlier rates and the roundings made of the numerator; and none is ever
\* over one, so NegativeRateDetected never comes back: rates are unsigned,
\* and rounding up does not carry a factor that far.
FactorsInRange ==
  /\ \A i \in 1..Len(dfs) : dfs[i] \in 1..RAY
  /\ outcome # "NegativeRateDetected"

\* What the swap of the last period is off par: the rate times the annuity
\* should give the discount of its last factor back.
OffPar(n) == RAY - dfs[n] - ray_mul(PeriodRate(n), annuity_sum)

\* The roundings between the two, in halves of a unit of RAY * RAY.
Roundings(n) == Denominator(n) + PeriodRate(n) + 3 * RAY

\* Each factor makes its swap worth par to the roundings of its own period:
\* those of the periods before it do not add up, however many there are.  Of
\* rates and periods up to one that is two units of the last place.
RepricesPar ==
  dfs # <<>> =>
    LET n == Len(dfs)
        off == 2 * (RAY * OffPar(n))
    IN off < Roundings(n) /\ -Roundings(n) < off

\* Two bootstraps, one answer: where every period is a whole year,
\* bootstrap_annual finds the factors of bootstrap_ois, and fails where and
\* as it does.
AnnualAgrees ==
  (/\ outcome \in {"Ok"} \union Errors
   /\ ppy = 1
   /\ Len(dates) = Len(rates)
   /\ \A i \in DOMAIN dates : Tau(i) = RAY) =>
    /\ bootstrap_annual(rates).outcome = outcome
    /\ bootstrap_annual(rates).dfs = dfs

\* The interest a period pays on its factor is worth more than the roundings
\* of the period and of the one before it.  Two units of the last place are
\* worth more where rates are small and the factor is near one.
OutweighsRoundings(i) ==
  Roundings(i - 1) + Denominator(i)
    <= 2 * (dfs[i] * ray_mul(PeriodRate(i), Tau(i))) + 2 * RAY

\* Where the rate does not fall from one period to the next, the later factor
\* is not above the earlier, and the subtraction of one in the forward rate
\* between them does not underflow, whatever the curve before: unless the
\* rate is so low that its interest is lost in the roundings, or the factor
\* so near zero that the ratio of the two is cut to a word.
RisingRatesHaveForwards ==
  \A i \in DOMAIN dfs :
    (/\ WideQuotient(NodeFactor(i - 1), dfs[i]) < WORD
     /\ i > 1 => /\ PeriodRate(i - 1) <= PeriodRate(i)
                 /\ PeriodRate(i) = 0 \/ OutweighsRoundings(i))
      => ~Underflows(NodeFactor(i - 1), dfs[i], Tau(i))

\* A quoted factor lies between its neighbouring nodes, to one unit of the
\* last place (two products round apart), and at a node is the node's own.
QuoteBetweenNodes ==
  quote.time > Settlement =>
    LET n == Len(dates) IN
    \A j \in 0..(n - 1) :
      NodeDate(j) < quote.time /\ quote.time <= dates[j + 1] =>
        LET a == NodeFactor(j)
            b == NodeFactor(j + 1)
        IN /\ quote.df >= (IF a < b THEN a ELSE b) - 1
           /\ quote.df <= (IF a < b THEN b ELSE a) + 1
           /\ quote.time = dates[j + 1] => quote.df = b

\* Half way between two nodes the factor is their geometric mean, to one
\* unit of the last place: the log-linear interpolation of the README.
LogLinear ==
  \A j \in 1..(Len(dates) - 1) :
    (outcome = "Ok" /\ 2 * quote.time = dates[j] + dates[j + 1]) =>
      LET a == dfs[j]
          b == dfs[j + 1]
          gap == quote.df * quote.df - a * b
      IN gap <= a + b + 1 /\ -gap <= a + b + 1

=============================================================================
