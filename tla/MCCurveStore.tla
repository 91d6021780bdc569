---------------------------- MODULE MCCurveStore ----------------------------
(***************************************************************************)
(* Model checking of CurveStore: one curve address and one account at no   *)
(* curve address, a challenge period of two ticks, two editions, and what  *)
(* other handlers may leave in a snapshot.                                 *)
(***************************************************************************)
EXTENDS CurveStore

\* One rate vector too many tenors long, one empty, two the store accepts.
MCRateVectors == {<<>>, <<1>>, <<2>>, <<1, 2, 3>>}

Writing(time, status, n) ==
  [currency |-> 9, business_date |-> 1, publish_timestamp |-> time, status |-> status,
   num_tenors |-> n]

\* Open to activation at once, open to a veto for ever, decided, and not
\* decodable; more tenors than there is room for, and one.
MCWritings ==
  {Writing(-2, "Pending", 1), Writing(100, "Pending", 3), Writing(0, "Active", 1),
   Writing(0, "Vetoed", 1), Writing(0, "Undecodable", 1)}

MCWrittenRates == {}

MCOtherAccounts == {<<"plain", 1>>}

=============================================================================
