-------------------------------- MODULE Legs --------------------------------
(***************************************************************************)
(* From a product to its cashflows: the templates of core/src/products.rs, *)
(* which fill in legs, and build_leg of core/src/leg.rs, which lays the    *)
(* cashflows of a leg along its payment dates.  The legs of a product have *)
(* one start, end and frequency, kept in the term of the trade.            *)
(***************************************************************************)
EXTENDS Calendar

CONSTANT DayCount   \* DayCount[c]: the day count of currency c

ASSUME DayCountAssumption == \A c \in DOMAIN DayCount : DayCount[c] \in Conventions

-----------------------------------------------------------------------------
(* Legs.  An absent schedule and an empty one are the same to build_leg.   *)

SimpleLeg(type, currency, notional, rate, spread, direction) ==
  [leg_type |-> type, direction |-> direction, day_count |-> DayCount[currency],
   notional |-> notional, fixed_rate |-> rate, spread |-> spread,
   notional_schedule |-> <<>>, rate_schedule |-> <<>>,
   exchange_notional_start |-> FALSE, exchange_notional_end |-> FALSE]

FixedLeg(currency, notional, rate, direction) ==
  SimpleLeg("Fixed", currency, notional, rate, 0, direction)

FloatingLeg(currency, notional, spread, direction) ==
  SimpleLeg("Floating", currency, notional, 0, spread, direction)

ExchangingEnd(leg) == [leg EXCEPT !.exchange_notional_end = TRUE]

ExchangingBoth(leg) == [ExchangingEnd(leg) EXCEPT !.exchange_notional_start = TRUE]

-----------------------------------------------------------------------------
(* Products.  The rate is the fixed rate, the coupon or the spread.        *)

\* The templates.
Products == {"irs", "zero_coupon_swap", "fra", "amortizing_irs", "xccy_swap",
             "fixed_rate_bond", "frn"}

\* Mutated: the sides are swapped.
PayDirectionSwapped(payer) == IF payer THEN 1 ELSE -1

\* Mutated: the flag is cast and negated, the receiver gets zero.
PayDirectionCast(payer) == IF payer THEN -1 ELSE 0

PayDirection(payer) == IF payer THEN -1 ELSE 1

\* irs and zero_coupon_swap; a fra always pays the fixed rate.
Swap(t) ==
  << FixedLeg(t.currency, t.notional, t.rate, PayDirection(t.payer)),
     FloatingLeg(t.currency, t.notional, 0, -PayDirection(t.payer)) >>

amortizing_irs(t) ==
  [k \in 1..2 |-> [Swap([t EXCEPT !.notional = t.notionals[1]])[k]
                     EXCEPT !.notional_schedule = t.notionals]]

xccy_swap(t) ==
  << ExchangingBoth(FixedLeg(t.currency, t.notional, t.rate, -1)),
     ExchangingBoth(FloatingLeg(t.other, t.notionals[1], 0, 1)) >>

LegsOf(t) ==
  CASE t.product \in {"irs", "zero_coupon_swap"} -> Swap(t)
    [] t.product = "fra" -> Swap([t EXCEPT !.payer = TRUE])
    [] t.product = "amortizing_irs" -> amortizing_irs(t)
    [] t.product = "xccy_swap" -> xccy_swap(t)
    [] t.product = "fixed_rate_bond" ->
         <<ExchangingEnd(FixedLeg(t.currency, t.notional, t.rate, 1))>>
    [] t.product = "frn" ->
         <<ExchangingEnd(FloatingLeg(t.currency, t.notional, t.rate, 1))>>

\* The frequency the template gives its legs; bonds and notes take theirs.
FrequencyOf(t) ==
  CASE t.product \in {"fra", "zero_coupon_swap"} -> 0
    [] t.product \in {"fixed_rate_bond", "frn"} -> t.frequency
    [] OTHER -> 1

TermOf(t) == [start |-> t.start, end |-> t.end, frequency |-> FrequencyOf(t)]

-----------------------------------------------------------------------------
(* Cashflows. *)

Flow(type, direction, payment_date, notional) ==
  [cf_type |-> type, direction |-> direction, payment_date |-> payment_date,
   notional |-> notional, fixed_amount |-> 0, accrual_start |-> 0,
   accrual_end |-> 0, spread |-> 0, condition_met |-> FALSE]

\* The entry of a schedule, or the flat value beyond its end.
Stepped(steps, i, flat) == IF i <= Len(steps) THEN steps[i] ELSE flat

\* Mutated: every period accrues from the start of the term.
AccrualFromStart(term, dates, i) == IF i <= Len(dates) THEN term.start ELSE 0

AccrualStart(term, dates, i) == IF i = 1 THEN term.start ELSE dates[i - 1]

FixedAmount(leg, i, tau) ==
  leg.direction
    * ray_mul(ray_mul(Stepped(leg.notional_schedule, i, leg.notional),
                      Stepped(leg.rate_schedule, i, leg.fixed_rate)), tau)

PeriodFlow(leg, term, dates, i) ==
  LET start == AccrualStart(term, dates, i)
      flow == [Flow(leg.leg_type, leg.direction, dates[i],
                    Stepped(leg.notional_schedule, i, leg.notional))
                 EXCEPT !.accrual_start = start, !.accrual_end = dates[i]]
  IN IF leg.leg_type = "Fixed"
     THEN [flow EXCEPT !.fixed_amount =
             FixedAmount(leg, i, year_fraction(leg.day_count, start, dates[i]))]
     ELSE [flow EXCEPT !.spread = leg.spread]

\* The principal is exchanged at the raw dates of the term.
Exchange(leg, exchanged, date) ==
  IF exchanged THEN <<Flow("NotionalExchange", leg.direction, date, leg.notional)>>
  ELSE <<>>

build_leg(leg, term, dates) ==
  Exchange(leg, leg.exchange_notional_start, term.start)
    \o [i \in DOMAIN dates |-> PeriodFlow(leg, term, dates, i)]
    \o Exchange(leg, leg.exchange_notional_end, term.end)

build_trade(legs, term, dates) ==
  FlattenSeq([k \in DOMAIN legs |-> build_leg(legs[k], term, dates)])

=============================================================================
