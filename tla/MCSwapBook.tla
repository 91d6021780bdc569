----------------------------- MODULE MCSwapBook -----------------------------
(***************************************************************************)
(* Model checking of SwapBook: curves of one and of two tenors, so that a  *)
(* swap may or may not fit the curve it is priced off, swaps in a currency *)
(* that pays once a year, one that pays twice and one that does not exist. *)
(***************************************************************************)
EXTENDS SwapBook

MCRateVectors == {<<1>>, <<2>>, <<3>>, <<1, 1>>}

MCUnsolvable == {<<2>>}

\* A curve that is active at once.
MCWritings ==
  {[currency |-> 0, business_date |-> 1, publish_timestamp |-> 0, status |-> "Active",
    num_tenors |-> 1]}

MCWrittenRates == {}

\* The sides turned round, at twice the notional.
MCSwapWritings ==
  {[payer |-> 2, receiver |-> 1, terms |-> Terms(2, 0, 4, <<5>>)]}

NoOtherAccounts == {}

\* Ascending or not, before and after the settlement, and one too long.
MCSchedules == {<<1>>, <<5>>, <<5, 6>>, <<6, 5>>, <<5, 6, 7, 8>>}

OneDeal == {<<1, 2>>}

=============================================================================
