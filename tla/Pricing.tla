------------------------------- MODULE Pricing -------------------------------
(***************************************************************************)
(* A pricing run: trades are taken into a book one at a time (product,     *)
(* legs, schedule, cashflows), the book is valued with every risk measure  *)
(* and stressed, and the next day it is valued again.  Composes Schedule,  *)
(* Legs and Risk as a caller of core/src does.                             *)
(***************************************************************************)
EXTENDS Schedule, Legs, Risk

CONSTANTS
  Curves,       \* sequences of par rates, one per year of the curve
  CurveDates,   \* dates of the curve
  Settlement,   \* the first valuation date
  LastDay,      \* bound on the valuation dates
  Trades,       \* trades that may be booked
  MaxTrades     \* bound on the trades of a book

ASSUME PricingAssumption ==
  /\ CurveDates \in Seq(Nat) /\ Curves \subseteq Seq(Nat)
  /\ \A r \in Curves : Len(r) = Len(CurveDates) /\ Len(r) = Len(TenorYears)
  /\ \A i \in 2..Len(CurveDates) : CurveDates[i - 1] < CurveDates[i]
  /\ \A r \in Curves : \A i \in DOMAIN r : r[i] * Len(r) < WORD
  /\ Settlement \in Nat /\ LastDay \in Nat /\ Settlement <= LastDay
  /\ MaxTrades \in Nat

\* What the types of a product's fields admit: only the spread of a note is
\* signed, and the steps of an amortising swap may be none; a cross currency
\* swap keeps the notional of its other leg there.  A year's interest on a
\* plain swap fits a u128.
ASSUME TradesAssumption ==
  \A t \in Trades :
    /\ t \in [product : Products, currency : DOMAIN DayCount, other : DOMAIN DayCount,
              notional : Nat, notionals : Seq(Nat), rate : Int,
              payer : BOOLEAN, start : Nat, end : Nat, frequency : PaymentsPerYear]
    /\ t.product # "frn" => t.rate >= 0
    /\ t.product = "xccy_swap" => t.notionals # <<>>
    /\ t.product = "irs" => t.notional * t.rate + HALF_RAY < RAY * WORD

VARIABLES
  rates,      \* the par rates of the market
  today,      \* the valuation date
  trade,      \* the trade on its way into the book
  book,       \* the trades booked, with their cashflows
  report,     \* the measures of the book today
  foretold,   \* what yesterday's report says each trade is worth today
  outcome     \* "running", or the panic that ended the run

marketVars == <<rates, today>>

bookVars == <<trade, book>>

reportVars == <<report, foretold>>

pricingVars == <<scheduleVars, marketVars, bookVars, reportVars, outcome>>

NoTrade == [product |-> "none"]

NoReport == [trades |-> <<>>]

PricingInit ==
  /\ ScheduleInit
  /\ rates \in Curves
  /\ today = Settlement
  /\ trade = NoTrade
  /\ book = <<>>
  /\ report = NoReport
  /\ foretold = <<>>
  /\ outcome = "running"

-----------------------------------------------------------------------------
(* Booking. *)

\* The template reads the first step of the notional and panics without one.
HasInitial(t) == t.product = "amortizing_irs" => t.notionals # <<>>

Book(t) ==
  /\ outcome = "running"
  /\ stage = "idle"
  /\ report = NoReport
  /\ Len(book) < MaxTrades
  /\ \/ /\ HasInitial(t)
        /\ Generate(TermOf(t))
        /\ trade' = t
        /\ UNCHANGED outcome
     \/ /\ ~HasInitial(t)
        /\ outcome' = "NoInitial"
        /\ UNCHANGED <<scheduleVars, trade>>
  /\ UNCHANGED <<marketVars, book, reportVars>>

RollOn == Rolling /\ UNCHANGED <<marketVars, bookVars, reportVars, outcome>>

\* year_fraction asserts of every fixed accrual that it does not end early.
Accruable(legs) ==
  \A k \in DOMAIN legs, i \in DOMAIN schedule :
    legs[k].leg_type = "Fixed" => schedule[i] >= AccrualStart(term, schedule, i)

\* build_trade with the dates of the schedule, or its panic, which ends the
\* run where it stands.
Build ==
  /\ stage = "returned"
  /\ outcome = "running"
  /\ \/ /\ Accruable(LegsOf(trade))
        /\ Taken
        /\ trade' = NoTrade
        /\ book' = Append(book, [trade |-> trade,
                                 flows |-> build_trade(LegsOf(trade), term, schedule)])
        /\ UNCHANGED <<marketVars, reportVars, outcome>>
     \/ /\ ~Accruable(LegsOf(trade))
        /\ outcome' = "BadTerm"
        /\ UNCHANGED <<scheduleVars, marketVars, bookVars, reportVars>>

-----------------------------------------------------------------------------
(* Valuation. *)

\* The curves the measures and scenarios bootstrap.
ShiftedCurves ==
  {rates} \union {Parallel(rates, bump) : bump \in {ONE_BP, -ONE_BP}}
    \union {Bucket(rates, k, bump) : k \in DOMAIN rates, bump \in {ONE_BP, -ONE_BP}}
    \union {apply_scenario(rates, s) : s \in Scenarios}

Measured ==
  LET flows == [i \in DOMAIN book |-> book[i].flows]
  IN [portfolio |-> value_portfolio(flows, rates, today, CurveDates),
      trades |-> [i \in DOMAIN book |-> Measures(flows[i], rates, today, CurveDates)]]

SpreadsAccrue ==
  \A i \in DOMAIN book : \A f \in DOMAIN book[i].flows : Accrues(book[i].flows[f])

Value ==
  /\ outcome = "running"
  /\ stage = "idle"
  /\ book # <<>>
  /\ report = NoReport
  /\ \/ /\ \A r \in ShiftedCurves : Usable(r)
        /\ SpreadsAccrue
        /\ report' = Measured
        /\ UNCHANGED outcome
     \/ /\ \E r \in ShiftedCurves : ~Usable(r)
        /\ outcome' = "NoCurve"
        /\ UNCHANGED report
     \/ /\ ~SpreadsAccrue
        /\ outcome' = "BadAccrual"
        /\ UNCHANGED report
  /\ UNCHANGED <<scheduleVars, marketVars, bookVars, foretold>>

\* A day passes and the rates stay.
NextDay ==
  /\ report # NoReport
  /\ today + DAY <= LastDay
  /\ today' = today + DAY
  /\ foretold' = [i \in DOMAIN book |-> report.trades[i].pv + report.trades[i].theta]
  /\ report' = NoReport
  /\ UNCHANGED <<scheduleVars, rates, bookVars, outcome>>

PricingNext == (\E t \in Trades : Book(t)) \/ RollOn \/ Build \/ Value \/ NextDay

\* A call that was made runs to its end.
PricingSpec ==
  /\ PricingInit
  /\ [][PricingNext]_pricingVars
  /\ WF_pricingVars(RollOn)
  /\ WF_pricingVars(Build)

-----------------------------------------------------------------------------
(* Properties. *)

Reported == report # NoReport

\* A unit of the last place of a factor, on the notional of a trade: what
\* one rounding of the curve is worth.
UnitValue(t) == t.notional \div RAY + 1

Within(x, bound) == -bound <= x /\ x <= bound

\* The run keeps its types, and a report has a line for each trade.
PricingTypeOK ==
  /\ rates \in Curves
  /\ today \in Settlement..LastDay
  /\ trade \in Trades \union {NoTrade}
  /\ Len(book) <= MaxTrades
  /\ \A i \in DOMAIN book :
       /\ book[i].trade \in Trades
       /\ \A f \in DOMAIN book[i].flows :
            /\ book[i].flows[f].direction \in {-1, 1}
            /\ book[i].flows[f].notional \in Nat
            /\ book[i].flows[f].fixed_amount \in Int
  /\ stage \in {"idle", "rolling", "returned", "overflowed"}
  /\ (stage = "idle") = (trade = NoTrade)
  /\ outcome \in {"running", "NoInitial", "BadTerm", "NoCurve", "BadAccrual"}
  /\ Reported => DOMAIN report.trades = DOMAIN book

\* The dates of a trade fail it at the edges of the calendar only.  Building
\* panics on a fixed leg whose term is over before the first midnight after
\* its start, and so does valuing a note with a spread on such a term: all
\* other dates are in an order year_fraction and the spread accept.  A
\* schedule rolls past the epoch only if a date of its term is in 1970.
DatesFailOnlyAtTheEdges ==
  /\ outcome = "BadTerm" => Midnight(term.end) < term.start
  /\ outcome = "BadAccrual" =>
       \E i \in DOMAIN book :
         LET t == book[i].trade
         IN t.product = "frn" /\ t.rate # 0 /\ Midnight(t.end) < t.start
  /\ stage = "overflowed" => unix_to_ymd(Lesser(term.start, term.end)).y <= 1970

\* What the payer of the fixed rate gains the receiver loses, to the last
\* unit, in every measure: signed quotients and products round alike on both
\* sides, and so do the halves of the differences.
MirrorCancels ==
  Reported =>
    \A i, j \in DOMAIN book :
      (/\ book[i].trade.product \in {"irs", "amortizing_irs", "zero_coupon_swap"}
       /\ book[j].trade = [book[i].trade EXCEPT !.payer = ~@]) =>
        LET mine == report.trades[i]
            yours == report.trades[j]
        IN /\ \A part \in {"pv", "dv01", "gamma", "theta"} : mine[part] = -yours[part]
           /\ \A k \in DOMAIN rates : mine.buckets[k] = -yours.buckets[k]
           /\ \A s \in Scenarios : mine.stress[s] = -yours.stress[s]

\* A rate moves nothing before its tenor: a trade whose last date is that of
\* some year of the curve is not sensitive to the rates of the years after
\* it.  So each bucket shifts its own rate alone, the shift before it undone,
\* and no later turn of the bootstrap reaches back.
BucketsAreLocal ==
  Reported =>
    \A i \in DOMAIN book : \A k \in 2..Len(rates) :
      (\A f \in DOMAIN book[i].flows :
         LET cf == book[i].flows[f]
         IN \A date \in {cf.payment_date, cf.accrual_start, cf.accrual_end} :
              date <= CurveDates[k - 1]) =>
        report.trades[i].buckets[k] = 0

\* The sensitivity of a book is that of its trades together, but for the
\* half unit each loses in its own division.
PortfolioAddsUp ==
  Reported =>
    LET parts == [i \in DOMAIN book |-> report.trades[i].dv01]
    IN Within(2 * (report.portfolio.total_dv01 - SumFunction(parts)), Len(book) + 1)

\* Bootstrap, schedule, legs and valuation close a circle: a swap at the par
\* rate of a tenor, paid on the dates of the curve in periods of a whole year,
\* is worth nothing ("PV at forward par rate", README.md:85).  Allowed: the
\* roundings of the last year of the curve on its notional, and of each value.
ParSwapIsFlat ==
  Reported /\ today = Settlement =>
    \A i \in DOMAIN book :
      LET t == book[i].trade
          flows == book[i].flows
      IN
      \A n \in DOMAIN rates :
        (/\ t.product = "irs" /\ t.start = Settlement /\ t.rate = rates[n]
         /\ Settlement < CurveDates[1] /\ Len(flows) = 2 * n
         /\ \A k \in 1..n :
              /\ flows[k].payment_date = CurveDates[k]
              /\ year_fraction(DayCount[t.currency],
                               IF k = 1 THEN Settlement ELSE CurveDates[k - 1],
                               CurveDates[k]) = RAY) =>
          Within(2 * (RAY * report.trades[i].pv),
                 (2 * RAY + t.rate) * UnitValue(t) + 4 * (n * RAY))

\* Theta is tomorrow's value told today: with the same rates a trade is
\* worth the next day what value and theta said, once the payments that were
\* due in between, which the valuation goes on counting, are taken out.
ThetaForetells ==
  Reported =>
    \A i \in DOMAIN foretold :
      LET flows == book[i].flows
          paid == {k \in DOMAIN flows : flows[k].payment_date <= today}
      IN report.trades[i].pv
           - PresentValueAt(paid, flows, rates, today, CurveDates) = foretold[i]

\* Rates up, payer up: the value of a swap that pays fixed does not fall
\* from a parallel scenario to a higher one, and its dv01 is not negative,
\* but for the roundings of the factors.
PayerGainsAsRatesRise ==
  Reported =>
    \A i \in DOMAIN book :
      LET t == book[i].trade
          unit == 3 * UnitValue(t)
          pnl == report.trades[i].stress
      IN (t.product \in {"irs", "zero_coupon_swap", "amortizing_irs"} /\ t.payer) =>
           /\ report.trades[i].dv01 >= -unit
           /\ pnl["ParallelDown200"] <= pnl["ParallelDown100"] + unit
           /\ pnl["ParallelDown100"] <= unit
           /\ pnl["ParallelUp100"] >= -unit
           /\ pnl["ParallelUp200"] >= pnl["ParallelUp100"] - unit

\* The two tilts are each other's mirror and turn without a jump, at two and
\* at ten years as between them: away from the floor at zero they add up to
\* no shift at all, and from one tenor to the next the steepener raises a
\* rate by no more than the slope of a hundred points in eight years, to the
\* unit the quotient loses.
Tilted(r, up, down, next) ==
  /\ up + down >= 2 * r
  /\ (up > 0 /\ down > 0) => up + down = 2 * r
  /\ 0 <= next - up /\ 8 * YEAR * (next - up) <= 100 * ONE_BP + 8 * YEAR
  /\ AbsoluteOf(up - r) <= 50 * ONE_BP

TwistsMirror ==
  \A k \in DOMAIN rates, t \in 0..(12 * YEAR) :
    Tilted(rates[k],
           Shifted(rates[k], Bump("Steepening", t)),
           Shifted(rates[k], Bump("Flattening", t)),
           Shifted(rates[k], Bump("Steepening", t + 1)))

\* Every trade taken up leaves the loop of its schedule and is built, or its
\* build panics, unless the loop rolls past the epoch.
EventuallyBuilt ==
  stage = "rolling" ~> (stage \in {"idle", "overflowed"} \/ outcome = "BadTerm")

\* "Day count convention for accrual calculation" (conventions.rs:57): the
\* spread of a floating period is worth what a fixed rate as high is worth
\* over that period under the day count of the leg, to the roundings.
SpreadAccruesByConvention ==
  Reported =>
    \A i \in DOMAIN book :
      LET t == book[i].trade
          flows == book[i].flows
      IN t.product = "frn" =>
           \A f \in DOMAIN flows :
             flows[f].cf_type = "Floating" =>
               LET cf == flows[f]
                   coupon == ray_mul(ray_mul(cf.notional, cf.spread),
                               year_fraction(DayCount[t.currency], cf.accrual_start, cf.accrual_end))
                   value(x) == value_cashflow(x, today, CurveDates, bootstrap_annual(rates).dfs)
                   fixed == [cf EXCEPT !.cf_type = "Fixed", !.fixed_amount = cf.direction * coupon]
               IN Within(value(cf) - value([cf EXCEPT !.spread = 0]) - value(fixed), 3)

=============================================================================
