-------------------------------- MODULE Risk --------------------------------
(***************************************************************************)
(* Risk measures of a list of cashflows under shifted rates, and the       *)
(* stress scenarios: core/src/valuation.rs and core/src/stress.rs.  Every  *)
(* measure bootstraps its curves anew and panics when one of them fails    *)
(* (the unwraps of the code): see Usable.                                  *)
(***************************************************************************)
EXTENDS Cashflows

CONSTANTS
  ONE_BP,       \* a basis point
  YEAR,         \* units of a tenor in a year, any fraction of a year being a tenor
  TenorYears    \* tenors of the rates of a curve, in those units

ASSUME RiskAssumption ==
  /\ ONE_BP \in Nat \ {0}
  /\ YEAR \in Nat \ {0}
  /\ TenorYears \in Seq(Nat)

-----------------------------------------------------------------------------
(* Shifts.  A lowered rate stops at zero. *)

Shifted(rate, bump) == IF rate + bump < 0 THEN 0 ELSE rate + bump

Parallel(rates, bump) == [k \in DOMAIN rates |-> Shifted(rates[k], bump)]

\* Mutated: the rates below the bucket move along.
BucketUpTo(rates, k, bump) ==
  [j \in DOMAIN rates |-> IF j <= k THEN Shifted(rates[j], bump) ELSE rates[j]]

Bucket(rates, k, bump) == [rates EXCEPT ![k] = Shifted(@, bump)]

Usable(rates) == bootstrap_annual(rates).outcome = "Ok"

\* The value on the curve of some rates of the cashflows at some places.
PresentValueAt(places, cashflows, rates, settlement, dates) ==
  value_cashflows(cashflows, places, settlement, dates, bootstrap_annual(rates).dfs)

\* present_value on the curve of some rates.
PresentValue(cashflows, rates, settlement, dates) ==
  PresentValueAt(DOMAIN cashflows, cashflows, rates, settlement, dates)

-----------------------------------------------------------------------------
(* Measures. *)

\* Half the difference of two values, cut toward zero.
CentralDifference(up, down) == Quotient(up - down, 2)

dv01(cashflows, rates, settlement, dates) ==
  CentralDifference(PresentValue(cashflows, Parallel(rates, ONE_BP), settlement, dates),
                    PresentValue(cashflows, Parallel(rates, -ONE_BP), settlement, dates))

bucket_dv01(cashflows, rates, settlement, dates) ==
  [k \in DOMAIN rates |->
     CentralDifference(PresentValue(cashflows, Bucket(rates, k, ONE_BP), settlement, dates),
                       PresentValue(cashflows, Bucket(rates, k, -ONE_BP), settlement, dates))]

gamma(cashflows, rates, settlement, dates) ==
  PresentValue(cashflows, Parallel(rates, ONE_BP), settlement, dates)
    + PresentValue(cashflows, Parallel(rates, -ONE_BP), settlement, dates)
    - 2 * PresentValue(cashflows, rates, settlement, dates)

\* Mutated: a payment due tomorrow is still there tomorrow.
OutstandingToday(cashflows, day) ==
  {i \in DOMAIN cashflows : cashflows[i].payment_date >= day}

\* What is paid by a day has rolled off.
Outstanding(cashflows, day) == {i \in DOMAIN cashflows : cashflows[i].payment_date > day}

\* One day of carry: tomorrow's value of what is then outstanding, off
\* today's factors, less today's value of everything.
theta(cashflows, rates, settlement, dates) ==
  PresentValueAt(Outstanding(cashflows, settlement + DAY),
                 cashflows, rates, settlement + DAY, dates)
    - PresentValue(cashflows, rates, settlement, dates)

-----------------------------------------------------------------------------
(* Stress. *)

Scenarios ==
  {"ParallelUp100", "ParallelDown100", "ParallelUp200", "ParallelDown200",
   "Steepening", "Flattening", "ShortEndShock", "LongEndShock"}

\* Down at the short end, up at the long end, linear in between; the code
\* computes the middle in floating point and cuts it.
Steepener(t) ==
  CASE t <= 2 * YEAR -> -50 * ONE_BP
    [] t >= 10 * YEAR -> 50 * ONE_BP
    [] OTHER -> Quotient(((t - 2 * YEAR) * 100 - 400 * YEAR) * ONE_BP, 8 * YEAR)

\* Mutated: the middle is counted from year zero.
FlattenerFromZero(t) ==
  CASE t <= 2 * YEAR -> 50 * ONE_BP
    [] t >= 10 * YEAR -> -50 * ONE_BP
    [] OTHER -> Quotient((400 * YEAR - t * 100) * ONE_BP, 8 * YEAR)

Flattener(t) ==
  CASE t <= 2 * YEAR -> 50 * ONE_BP
    [] t >= 10 * YEAR -> -50 * ONE_BP
    [] OTHER -> Quotient((400 * YEAR - (t - 2 * YEAR) * 100) * ONE_BP, 8 * YEAR)

Bump(scenario, t) ==
  CASE scenario = "ParallelUp100" -> 100 * ONE_BP
    [] scenario = "ParallelDown100" -> -100 * ONE_BP
    [] scenario = "ParallelUp200" -> 200 * ONE_BP
    [] scenario = "ParallelDown200" -> -200 * ONE_BP
    [] scenario = "Steepening" -> Steepener(t)
    [] scenario = "Flattening" -> Flattener(t)
    [] scenario = "ShortEndShock" -> IF t <= 2 * YEAR THEN 300 * ONE_BP ELSE 0
    [] scenario = "LongEndShock" -> IF t >= 10 * YEAR THEN 200 * ONE_BP ELSE 0

apply_scenario(rates, scenario) ==
  [i \in DOMAIN rates |-> Shifted(rates[i], Bump(scenario, TenorYears[i]))]

\* The profit and loss of each scenario.
run_stress(cashflows, rates, settlement, dates) ==
  [s \in Scenarios |->
     PresentValue(cashflows, apply_scenario(rates, s), settlement, dates)
       - PresentValue(cashflows, rates, settlement, dates)]

\* The measures of a trade.
Measures(cashflows, rates, settlement, dates) ==
  [pv |-> PresentValue(cashflows, rates, settlement, dates),
   dv01 |-> dv01(cashflows, rates, settlement, dates),
   buckets |-> bucket_dv01(cashflows, rates, settlement, dates),
   gamma |-> gamma(cashflows, rates, settlement, dates),
   theta |-> theta(cashflows, rates, settlement, dates),
   stress |-> run_stress(cashflows, rates, settlement, dates)]

-----------------------------------------------------------------------------
(* Portfolios: book[i] is the list of cashflows of trade i. *)

\* Mutated: the loop returns after its first trade.
PortfolioDv01First(book, rates, settlement, dates) ==
  IF book = <<>> THEN 0 ELSE dv01(book[1], rates, settlement, dates)

\* Every trade is repriced on the two shifted curves before the difference.
PortfolioDv01(book, rates, settlement, dates) ==
  LET total(bump) ==
        SumFunction([i \in DOMAIN book |->
          PresentValue(book[i], Parallel(rates, bump), settlement, dates)])
  IN CentralDifference(total(ONE_BP), total(-ONE_BP))

value_portfolio(book, rates, settlement, dates) ==
  LET pv == [i \in DOMAIN book |-> PresentValue(book[i], rates, settlement, dates)]
  IN [trades |-> pv,
      total_pv |-> SumFunction(pv),
      total_dv01 |-> PortfolioDv01(book, rates, settlement, dates)]

=============================================================================
