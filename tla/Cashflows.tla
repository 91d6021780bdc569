------------------------------ MODULE Cashflows ------------------------------
(***************************************************************************)
(* The present value of a cashflow off a curve: core/src/cashflow.rs.      *)
(* Amounts are signed; the signed divisions of the code cut toward zero    *)
(* and its products round half away from zero, so that what one side       *)
(* receives is what the other pays.                                        *)
(***************************************************************************)
EXTENDS Calendar

\* Mutated: the quotient rounds down, as a shift would.
Floored(a, b) == a \div b

\* Division of the signed types.
Quotient(a, b) == IF a >= 0 THEN a \div b ELSE -((-a) \div b)

ray_mul_signed(amount, df) ==
  IF amount >= 0 THEN ray_mul(amount, df) ELSE -ray_mul(-amount, df)

\* The period of a spread is an unsigned difference.  A build with overflow
\* checks panics where it ends before it starts; one without goes on with a
\* period of 2^64 seconds less the difference.
Accrues(cf) ==
  (cf.cf_type = "Floating" /\ cf.spread # 0) => cf.accrual_start <= cf.accrual_end

\* The spread accrues over 365 days a year whatever the leg counts; each
\* product is cut before the next.
SpreadValue(cf, df) ==
  LET tau == ActualFraction(365 * DAY, cf.accrual_start, cf.accrual_end)
      yearly == Quotient(cf.direction * cf.spread * cf.notional, RAY)
  IN Quotient(Quotient(yearly * tau, RAY) * df, RAY)

value_cashflow(cf, settlement, dates, dfs) ==
  LET df(t) == interpolate_df(t, settlement, dates, dfs)
  IN CASE cf.cf_type = "Fixed" -> ray_mul_signed(cf.fixed_amount, df(cf.payment_date))
       [] cf.cf_type = "Floating" ->
            Quotient(cf.direction * (df(cf.accrual_start) - df(cf.accrual_end)) * cf.notional, RAY)
              + SpreadValue(cf, df(cf.payment_date))
       [] cf.cf_type = "NotionalExchange" ->
            cf.direction * ray_mul(cf.notional, df(cf.payment_date))
       [] cf.cf_type = "Conditional" ->
            IF cf.condition_met THEN ray_mul_signed(cf.fixed_amount, df(cf.payment_date)) ELSE 0

\* The value of each cashflow of a list.
FlowValues(cashflows, settlement, dates, dfs) ==
  [i \in DOMAIN cashflows |-> value_cashflow(cashflows[i], settlement, dates, dfs)]

\* value_cashflows of those that stand at some places of a list.
value_cashflows(cashflows, places, settlement, dates, dfs) ==
  SumFunctionOnSet(FlowValues(cashflows, settlement, dates, dfs), places)

=============================================================================
