---------------------------- MODULE MCSettlement ----------------------------
(***************************************************************************)
(* Model checking of Settlement: three banks, swaps in both directions     *)
(* between two of them, in three currencies, one longer than the curve,    *)
(* one with its dates out of order; a year of four days (five for GBP),    *)
(* rates in per cent.                                                      *)
(***************************************************************************)
EXTENDS Settlement

MCYearOf == [USD |-> 4, EUR |-> 4, GBP |-> 5]

Terms(id, payer, receiver, notional, rate, currency, dates) ==
  [id |-> id, payer |-> payer, receiver |-> receiver, notional |-> notional,
   fixed_rate |-> rate, currency |-> currency, settlement |-> 0, payment_dates |-> dates]

MCSwaps ==
  {Terms(1, 1, 2, 10, 5, "USD", <<4, 8>>),
   Terms(2, 2, 1, 7, 3, "USD", <<4, 8>>),
   Terms(3, 3, 2, 10, 8, "EUR", <<8>>),
   Terms(4, 1, 2, 4, 6, "GBP", <<2, 4, 6, 8>>),
   Terms(5, 1, 3, 5, 4, "USD", <<8, 4>>)}

\* One or two swaps, or three that span three pairs of banks.
MCBooks ==
  {SetToSortSeq(S, LAMBDA s, t : s.id > t.id) :
     S \in kSubset(1, MCSwaps) \union kSubset(2, MCSwaps)
            \union kSubset(3, {s \in MCSwaps : s.id # 4})}

\* Rising, falling so fast that a forward rate underflows, and one that does
\* not bootstrap.
MCRateCurves == {<<5, 8>>, <<20, 1>>, <<0, 110>>}

\* A year of two fixings, the first of them in two versions, one negative.
MCPublications ==
  {[date |-> 0, rate |-> 7, days |-> 3], [date |-> 0, rate |-> -2, days |-> 3],
   [date |-> 3, rate |-> 7, days |-> 1]}

\* For the violation: one swap, settled alone.
MCOneSwap == {<<s>> : s \in {t \in MCSwaps : t.id = 1}}

=============================================================================
