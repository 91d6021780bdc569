------------------------------ MODULE MCPricing ------------------------------
(***************************************************************************)
(* Model checking of Pricing around 4 January 2021: every product, spot,   *)
(* forward and seasoned, with ends at midnight and later in the day, at    *)
(* the end of a month, and a payment due on the second day; a term within  *)
(* a day, one that rolls past the epoch, and a schedule of no notionals.   *)
(***************************************************************************)
EXTENDS Pricing

MCDayCount == [GBP |-> "Act365Fixed", USD |-> "Act360"]

At(y, m, d) == ymd_to_unix(y, m, d)

MCSettlement == At(2021, 1, 4)

MCLastDay == At(2021, 1, 5)

MCCurveDates == <<At(2022, 1, 4), At(2023, 1, 4), At(2024, 1, 4)>>

\* A year, four and a half, and twelve, in half years.
MCTenorYears == <<2, 9, 24>>

\* Flat, rising from zero, falling, and one that does not bootstrap when it
\* is shifted.
MCCurves == {<<500, 500, 500>>, <<0, 300, 800>>, <<1200, 500, 300>>, <<2000, 4000, 6400>>}

Trade(product, currency, rate, payer, start, end, frequency) ==
  [product |-> product, currency |-> currency, other |-> "USD", notional |-> 10 * RAY,
   notionals |-> <<10 * RAY, 6 * RAY>>, rate |-> rate, payer |-> payer,
   start |-> start, end |-> end, frequency |-> frequency]

MCTrades ==
  {Trade(p, "GBP", 500, payer, MCSettlement, MCCurveDates[2], 1) :
     p \in {"irs", "amortizing_irs", "zero_coupon_swap"}, payer \in BOOLEAN}
  \union
  {Trade("irs", "GBP", 300, TRUE, MCSettlement, MCCurveDates[3], 1),
   Trade("irs", "USD", 350, TRUE, At(2021, 1, 4) + 1, At(2023, 3, 31) + 2, 1),
   Trade("irs", "GBP", 500, TRUE, At(2021, 6, 1) + 1, At(2021, 6, 1) + 3, 1),
   Trade("fra", "USD", 450, TRUE, At(2021, 7, 5), At(2022, 1, 5) + 1, 0),
   Trade("fixed_rate_bond", "GBP", 400, TRUE, At(2020, 7, 5), At(2021, 7, 5), 2),
   Trade("fixed_rate_bond", "USD", 400, TRUE, At(2021, 1, 4), At(2021, 12, 31) + 2, 4),
   Trade("fixed_rate_bond", "USD", 400, TRUE, At(2021, 1, 4), At(2021, 5, 30), 12),
   Trade("frn", "USD", 100, TRUE, MCSettlement, MCCurveDates[2], 2),
   Trade("frn", "GBP", 100, TRUE, MCSettlement, MCCurveDates[2], 2),
   Trade("irs", "GBP", 500, TRUE, At(1970, 1, 4), At(1970, 6, 5), 1),
   Trade("frn", "USD", 100, TRUE, At(2021, 6, 1) + 1, At(2021, 6, 1) + 3, 2),
   [Trade("amortizing_irs", "GBP", 500, TRUE, MCSettlement, MCCurveDates[2], 1)
      EXCEPT !.notionals = <<>>],
   Trade("xccy_swap", "GBP", 450, TRUE, MCSettlement, MCCurveDates[1], 1)}

\* Notes alone, one at a time.
MCNotes == {t \in MCTrades : t.product = "frn"}

=============================================================================
