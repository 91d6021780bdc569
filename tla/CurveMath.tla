------------------------------ MODULE CurveMath ------------------------------
(***************************************************************************)
(* The curve functions that keep no state: bootstrap_annual, forward_rate  *)
(* and par_swap_rate of core/src/bootstrap.rs, interpolate_df of           *)
(* core/src/interpolation.rs, and the year fraction they are fed with.     *)
(***************************************************************************)
EXTENDS RayMath, SequencesExt

\* year_fraction of the actual conventions, in a year of basis units of
\* time: the quotient rounds down.
ActualFraction(basis, start, end) == ((end - start) * RAY) \div basis

-----------------------------------------------------------------------------
(* bootstrap_annual: the loop of bootstrap_ois with every period a year.   *)

\* Mutated: the rate of a period discounts the annuity twice.
AnnualStepCompounded(curve, rate) ==
  IF curve.outcome # "Ok" THEN curve
  ELSE LET df == ray_div(RAY - ray_mul(rate, curve.annuity), RAY + 2 * rate)
       IN [curve EXCEPT !.dfs = Append(@, df), !.annuity = @ + df]

\* One turn of the loop; a curve that failed stays as it was.
AnnualStep(curve, rate) ==
  LET interest == ray_mul(rate, curve.annuity)
      df == ray_div(RAY - interest, RAY + rate)
  IN CASE curve.outcome # "Ok" -> curve
       [] curve.outcome = "Ok" /\ interest > RAY -> [curve EXCEPT !.outcome = "InvalidDF"]
       [] OTHER -> IF df = 0 THEN [curve EXCEPT !.outcome = "InvalidDF"]
                   ELSE IF df > RAY THEN [curve EXCEPT !.outcome = "NegativeRateDetected"]
                   ELSE [curve EXCEPT !.dfs = Append(@, df), !.annuity = @ + df]

bootstrap_annual(rates) ==
  FoldLeft(AnnualStep,
           [dfs |-> <<>>, annuity |-> 0,
            outcome |-> IF rates = <<>> THEN "EmptyInput" ELSE "Ok"],
           rates)

-----------------------------------------------------------------------------
(* Rates read off a curve. *)

\* The ratio of two factors of a falling rate: one is subtracted from less.
\* A build with overflow checks panics there.
Underflows(df_start, df_end, tau) ==
  df_end # 0 /\ tau # 0 /\ ray_div(df_start, df_end) < RAY

\* Without the checks the difference wraps.
forward_rate(df_start, df_end, tau) ==
  IF df_end = 0 \/ tau = 0 THEN 0
  ELSE ray_div((ray_div(df_start, df_end) - RAY) % WORD, tau)

par_swap_rate(dfs, taus) ==
  ray_div(RAY - dfs[Len(dfs)],
          SumFunction([i \in DOMAIN dfs |-> ray_mul(taus[i], dfs[i])]))

-----------------------------------------------------------------------------
(* The factor at any time.  The exits for two nodes at one date are never  *)
(* taken: t lies after the one and not after the other.                    *)

\* Mutated: the weights of the two nodes are swapped.
WeightOfFirst(t, from, to) == ((to - t) * RAY) \div (to - from)

\* How far t lies between two nodes, rounded down.
Weight(t, from, to) == ((t - from) * RAY) \div (to - from)

\* The node that opens the interval of t: the first whose successor is at or
\* after t, node 0 being the settlement.
NodeBefore(t, dates) ==
  CHOOSE j \in 0..(Len(dates) - 1) :
    t <= dates[j + 1] /\ \A k \in 1..j : t > dates[k]

interpolate_df(t, settlement, dates, dfs) ==
  CASE t <= settlement -> RAY
    [] t > settlement /\ \A j \in DOMAIN dates : t > dates[j] -> dfs[Len(dates)]
    [] OTHER ->
         LET j == NodeBefore(t, dates)
             w == Weight(t, IF j = 0 THEN settlement ELSE dates[j], dates[j + 1])
         IN IF j = 0 THEN RAY - ray_mul(w, RAY - dfs[1])
            ELSE ray_mul(RAY - w, dfs[j]) + ray_mul(w, dfs[j + 1])

=============================================================================
