-------------------------- MODULE MCDiscountCurve --------------------------
(***************************************************************************)
(* Model checking of DiscountCurve over every sequence of up to three of a *)
(* few rates, in per cent: flat, falling and rising curves, and rates      *)
(* high enough to eat up the principal, exactly or beyond.                 *)
(***************************************************************************)
EXTENDS DiscountCurve

Rates == {(percent * RAY) \div 100 : percent \in {0, 3, 10, 60, 110}}

MCSwapRates == UNION {[1..n -> Rates] : n \in 0..3}

\* One, two and three years, with whole, uneven and half-year periods,
\* two years in one before a quarter, and two lists the checks reject.
MCPaymentDates ==
  {<<5>>, <<5, 9>>, <<4, 10>>, <<9, 10>>, <<3, 5>>, <<5, 9, 13>>, <<4, 8, 15>>,
   <<3, 5, 7, 9>>, <<5, 5>>, <<1, 5>>}

=============================================================================
