--------------------------- MODULE Pricing_proofs ---------------------------
(***************************************************************************)
(* What holds of a pricing run for every list of trades, every curve and   *)
(* every RAY: schedules tile their terms, dates fail a trade at the edges  *)
(* of the calendar only, payer and receiver cancel in every measure, a     *)
(* portfolio adds up, theta is tomorrow's value, and a swap at the rate of *)
(* the curve is flat.                                                      *)
(***************************************************************************)
EXTENDS Pricing, Schedule_proofs, CurveMath_proofs

-----------------------------------------------------------------------------
(* The schedule of a term. *)

\* The dates generate_schedule returns for a term, whatever else happens.
IsScheduleOf(t, dates) ==
  /\ dates \in Seq(Int)
  /\ \A i \in 2..Len(dates) : dates[i - 1] < dates[i]
  /\ t.frequency = 0 => dates = <<t.end>>
  /\ t.frequency # 0 =>
       /\ Len(dates) >= 1
       /\ dates[Len(dates)] = Midnight(t.end)
       /\ \A i \in 1..(Len(dates) - 1) :
            dates[i] = RolledBack(t, Len(dates) - i) /\ dates[i] > t.start
       /\ RolledBack(t, Len(dates)) <= t.start

LEMMA ReturnedIsSchedule ==
  ASSUME ScheduleInv, stage = "returned"
  PROVE  IsScheduleOf(term, schedule)
  <1>1. CASE term.frequency = 0
    <2>1. schedule = <<term.end>> /\ term.end \in Int
      BY <1>1 DEF ScheduleInv, IsTerm
    <2>2. Len(schedule) = 1 /\ 2..1 = {}
      BY <2>1
    <2> QED
      BY <1>1, <2>1, <2>2 DEF IsScheduleOf
  <1>2. CASE term.frequency # 0
    <2>1. /\ Len(rolled) \in Nat
          /\ schedule \in Seq(Int) /\ Len(schedule) = Len(rolled) + 1
          /\ schedule[Len(schedule)] = Midnight(term.end)
          /\ \A i \in 1..(Len(schedule) - 1) :
               schedule[i] = RolledBack(term, Len(schedule) - i) /\ schedule[i] > term.start
      BY <1>2, ReturnedIs
    <2>2. RolledBack(term, Len(schedule)) <= term.start
      BY <1>2, <2>1 DEF ScheduleInv, StartReached, NextRoll
    <2>3. \A i \in 2..Len(schedule) : schedule[i - 1] < schedule[i]
      BY <1>2, DatesAscend
    <2> QED
      BY <1>2, <2>1, <2>2, <2>3 DEF IsScheduleOf
  <1> QED
    BY <1>1, <1>2

\* A longer schedule would hold a date the loop had stopped at.
LEMMA NotLonger ==
  ASSUME NEW t, IsTerm(t), t.frequency # 0, NEW a, NEW b,
         IsScheduleOf(t, a), IsScheduleOf(t, b)
  PROVE  ~(Len(a) < Len(b))
  <1> SUFFICES ASSUME Len(a) < Len(b) PROVE FALSE
    OBVIOUS
  <1>1. /\ Len(a) \in Nat /\ Len(b) \in Nat /\ Len(a) >= 1
        /\ \A i \in 1..Len(b) : b[i] \in Int
    BY LenProperties, ElementOfSeq DEF IsScheduleOf
  <1> DEFINE i == Len(b) - Len(a)
  <1>2. i \in 1..(Len(b) - 1) /\ Len(b) - i = Len(a) /\ i \in 1..Len(b)
    BY <1>1
  <1>3. b[i] = RolledBack(t, Len(a)) /\ b[i] > t.start /\ b[i] \in Int
    BY <1>1, <1>2 DEF IsScheduleOf
  <1>4. RolledBack(t, Len(a)) <= t.start /\ t.start \in Int
    BY DEF IsScheduleOf, IsTerm
  <1> QED
    BY <1>3, <1>4

\* A term has one schedule.
LEMMA OneSchedule ==
  ASSUME NEW t, IsTerm(t), NEW a, NEW b, IsScheduleOf(t, a), IsScheduleOf(t, b)
  PROVE  a = b
  <1>1. CASE t.frequency = 0
    BY <1>1 DEF IsScheduleOf
  <1>2. CASE t.frequency # 0
    <2>1. a \in Seq(Int) /\ b \in Seq(Int) /\ Len(a) \in Nat /\ Len(b) \in Nat
      BY LenProperties DEF IsScheduleOf
    <2>2. Len(a) = Len(b)
      BY <1>2, <2>1, NotLonger
    <2>3. ASSUME NEW i \in 1..Len(a) PROVE a[i] = b[i]
      <3>1. CASE i = Len(a)
        BY <1>2, <2>2, <3>1 DEF IsScheduleOf
      <3>2. CASE i # Len(a)
        <4>1. i \in 1..(Len(a) - 1)
          BY <2>1, <3>2
        <4> QED
          BY <1>2, <2>2, <4>1 DEF IsScheduleOf
      <3> QED
        BY <3>1, <3>2
    <2> QED
      BY <2>1, <2>2, <2>3, SeqEqual
  <1> QED
    BY <1>1, <1>2

-----------------------------------------------------------------------------
(* Legs. *)

LegSet ==
  [leg_type : {"Fixed", "Floating"}, direction : {-1, 1}, day_count : Conventions,
   notional : Nat, fixed_rate : Nat, spread : Int,
   notional_schedule : Seq(Nat), rate_schedule : Seq(Nat),
   exchange_notional_start : BOOLEAN, exchange_notional_end : BOOLEAN]

LEMMA TradeTypes ==
  ASSUME NEW t \in Trades
  PROVE  /\ t \in [product : Products, currency : DOMAIN DayCount, other : DOMAIN DayCount,
                   notional : Nat, notionals : Seq(Nat), rate : Int,
                   payer : BOOLEAN, start : Nat, end : Nat, frequency : PaymentsPerYear]
         /\ t.product # "frn" => t.rate \in Nat
         /\ (HasInitial(t) /\ t.product \in {"amortizing_irs", "xccy_swap"}) =>
              t.notionals[1] \in Nat
         /\ t # NoTrade
  <1>1. /\ t \in [product : Products, currency : DOMAIN DayCount, other : DOMAIN DayCount,
                  notional : Nat, notionals : Seq(Nat), rate : Int,
                  payer : BOOLEAN, start : Nat, end : Nat, frequency : PaymentsPerYear]
        /\ t.product # "frn" => t.rate >= 0
    BY TradesAssumption
  <1>2. t.product \in Products /\ t.rate \in Int
    BY <1>1
  <1>3. NoTrade.product = "none" /\ "none" \notin Products
    BY DEF NoTrade, Products
  <1>4. ASSUME HasInitial(t), t.product \in {"amortizing_irs", "xccy_swap"}
        PROVE  t.notionals[1] \in Nat
    <2>1. t.notionals \in Seq(Nat) /\ t.notionals # <<>>
      BY <1>1, <1>4, TradesAssumption DEF HasInitial
    <2> QED
      BY <2>1, EmptySeq, ElementOfSeq
  <1> QED
    BY <1>1, <1>2, <1>3, <1>4

\* The terms of trades are terms.
LEMMA TermTypes ==
  ASSUME NEW t \in Trades PROVE IsTerm(TermOf(t))
  <1>1. t.start \in Int /\ t.end \in Int /\ t.frequency \in PaymentsPerYear
    BY TradeTypes
  <1>2. FrequencyOf(t) \in PaymentsPerYear
    BY <1>1 DEF FrequencyOf, PaymentsPerYear
  <1> QED
    BY <1>1, <1>2 DEF IsTerm, TermOf

LEMMA SimpleLegTypes ==
  ASSUME NEW type \in {"Fixed", "Floating"}, NEW c \in DOMAIN DayCount, NEW n \in Nat,
         NEW rate \in Nat, NEW spread \in Int, NEW d \in {-1, 1}
  PROVE  /\ SimpleLeg(type, c, n, rate, spread, d) \in LegSet
         /\ ExchangingEnd(SimpleLeg(type, c, n, rate, spread, d)) \in LegSet
         /\ ExchangingBoth(SimpleLeg(type, c, n, rate, spread, d)) \in LegSet
  <1>1. DayCount[c] \in Conventions /\ <<>> \in Seq(Nat)
    BY DayCountAssumption
  <1>2. SimpleLeg(type, c, n, rate, spread, d) \in LegSet
    BY <1>1 DEF SimpleLeg, LegSet
  <1>3. ASSUME NEW leg \in LegSet
        PROVE  ExchangingEnd(leg) \in LegSet /\ ExchangingBoth(leg) \in LegSet
    BY DEF ExchangingEnd, ExchangingBoth, LegSet
  <1> QED
    BY <1>2, <1>3

\* The fixed and the floating side of a swap, whatever their terms.
LEMMA SwapTypes ==
  ASSUME NEW t, t.currency \in DOMAIN DayCount, t.notional \in Nat, t.rate \in Nat,
         t.payer \in BOOLEAN
  PROVE  /\ Swap(t) = << FixedLeg(t.currency, t.notional, t.rate, PayDirection(t.payer)),
                         FloatingLeg(t.currency, t.notional, 0, -PayDirection(t.payer)) >>
         /\ Swap(t) \in [1..2 -> LegSet]
  <1>1. PayDirection(t.payer) \in {-1, 1} /\ -PayDirection(t.payer) \in {-1, 1}
    <2>1. PayDirection(t.payer) = -1 \/ PayDirection(t.payer) = 1
      BY Zenon DEF PayDirection
    <2> QED
      BY <2>1
  <1>2. FixedLeg(t.currency, t.notional, t.rate, PayDirection(t.payer)) \in LegSet
    BY <1>1, SimpleLegTypes DEF FixedLeg
  <1>3. FloatingLeg(t.currency, t.notional, 0, -PayDirection(t.payer)) \in LegSet
    BY <1>1, SimpleLegTypes DEF FloatingLeg
  <1> QED
    BY <1>2, <1>3 DEF Swap

\* Every product has one or two legs.
LEMMA LegsTypes ==
  ASSUME NEW t \in Trades, HasInitial(t)
  PROVE  \E n \in {1, 2} : LegsOf(t) \in [1..n -> LegSet]
  <1>1. /\ t.product \in Products /\ t.currency \in DOMAIN DayCount
        /\ t.other \in DOMAIN DayCount /\ t.notional \in Nat /\ t.rate \in Int
        /\ t.notionals \in Seq(Nat)
        /\ t.payer \in BOOLEAN /\ (t.product # "frn" => t.rate \in Nat)
    BY TradeTypes
  <1>2. t.product \in {"amortizing_irs", "xccy_swap"} => t.notionals[1] \in Nat
    BY TradeTypes
  <1>3. CASE t.product \in {"irs", "zero_coupon_swap"}
    <2>1. LegsOf(t) = Swap(t)
      BY <1>3 DEF LegsOf
    <2> QED
      BY <1>1, <1>3, <2>1, SwapTypes
  <1>4. CASE t.product = "fra"
    <2> DEFINE u == [t EXCEPT !.payer = TRUE]
    <2>1. LegsOf(t) = Swap(u)
      BY <1>4 DEF LegsOf
    <2>2. /\ u.currency = t.currency /\ u.notional = t.notional /\ u.rate = t.rate
          /\ u.payer = TRUE
      BY TradeTypes
    <2> HIDE DEF u
    <2>3. Swap(u) \in [1..2 -> LegSet]
      BY <1>1, <1>4, <2>2, SwapTypes
    <2> QED
      BY <2>1, <2>3
  <1>5. CASE t.product = "amortizing_irs"
    <2> DEFINE u == [t EXCEPT !.notional = t.notionals[1]]
    <2>1. LegsOf(t) = [k \in 1..2 |-> [Swap(u)[k] EXCEPT !.notional_schedule = t.notionals]]
      BY <1>5 DEF LegsOf, amortizing_irs
    <2>2. /\ u.currency = t.currency /\ u.notional = t.notionals[1] /\ u.rate = t.rate
          /\ u.payer = t.payer
      BY TradeTypes
    <2> HIDE DEF u
    <2>3. Swap(u) \in [1..2 -> LegSet]
      BY <1>1, <1>2, <1>5, <2>2, SwapTypes
    <2>4. ASSUME NEW leg \in LegSet
          PROVE  [leg EXCEPT !.notional_schedule = t.notionals] \in LegSet
      BY <1>1 DEF LegSet
    <2> QED
      BY <2>1, <2>3, <2>4
  <1>6. CASE t.product = "xccy_swap"
    <2>1. ExchangingBoth(FixedLeg(t.currency, t.notional, t.rate, -1)) \in LegSet
      BY <1>1, <1>6, SimpleLegTypes DEF FixedLeg
    <2>2. ExchangingBoth(FloatingLeg(t.other, t.notionals[1], 0, 1)) \in LegSet
      BY <1>1, <1>2, <1>6, SimpleLegTypes DEF FloatingLeg
    <2>3. LegsOf(t) = xccy_swap(t)
      BY <1>6 DEF LegsOf
    <2> QED
      BY <2>1, <2>2, <2>3 DEF xccy_swap
  <1>7. CASE t.product = "fixed_rate_bond"
    <2>1. ExchangingEnd(FixedLeg(t.currency, t.notional, t.rate, 1)) \in LegSet
      BY <1>1, <1>7, SimpleLegTypes DEF FixedLeg
    <2>2. LegsOf(t) = <<ExchangingEnd(FixedLeg(t.currency, t.notional, t.rate, 1))>>
      BY <1>7 DEF LegsOf
    <2> QED
      BY <2>1, <2>2
  <1>8. CASE t.product = "frn"
    <2>1. ExchangingEnd(FloatingLeg(t.currency, t.notional, t.rate, 1)) \in LegSet
      BY <1>1, SimpleLegTypes DEF FloatingLeg
    <2>2. LegsOf(t) = <<ExchangingEnd(FloatingLeg(t.currency, t.notional, t.rate, 1))>>
      BY <1>8 DEF LegsOf
    <2> QED
      BY <2>1, <2>2
  <1> QED
    BY <1>1, <1>3, <1>4, <1>5, <1>6, <1>7, <1>8 DEF Products

-----------------------------------------------------------------------------
(* Cashflows. *)

FlowSet ==
  [cf_type : {"Fixed", "Floating", "NotionalExchange"}, direction : {-1, 1},
   payment_date : Int, notional : Nat, fixed_amount : Int,
   accrual_start : Int, accrual_end : Int, spread : Int, condition_met : {FALSE}]

\* A year fraction is a number, whatever the dates.
LEMMA YearFractionIsInt ==
  ASSUME NEW c \in Conventions, NEW a \in Int, NEW b \in Int
  PROVE  year_fraction(c, a, b) \in Int
  <1> DEFINE s == unix_to_ymd(a)
             t == unix_to_ymd(b)
  <1>1. /\ s.y \in Int /\ s.m \in Int /\ s.d \in Int
        /\ t.y \in Int /\ t.m \in Int /\ t.d \in Int
    <2>1. ValidDate(s.y, s.m, s.d) /\ ValidDate(t.y, t.m, t.d)
      BY InstantsRoundTrip
    <2> HIDE DEF s, t
    <2> QED
      BY <2>1, MonthLength DEF ValidDate
  <1>2. year_fraction(c, a, b) \in {ActualFraction(360 * DAY, a, b), ActualFraction(365 * DAY, a, b),
                                    thirty_360_bond_basis(s, t), thirty_e360(s, t)}
    BY DEF year_fraction, Conventions
  <1> HIDE DEF s, t
  <1>3. ASSUME NEW d \in Int, NEW e \in Int PROVE (ThirtyDays(s, t, d, e) * RAY) \div 360 \in Int
    <2>1. ThirtyDays(s, t, d, e) \in Int
      BY <1>1 DEF ThirtyDays, AbsoluteOf
    <2> QED
      BY <2>1, RayAssumption
  <1>4. Lesser(s.d, 30) \in Int /\ Lesser(t.d, 30) \in Int
    BY <1>1 DEF Lesser
  <1>5. thirty_e360(s, t) \in Int
    BY <1>3, <1>4 DEF thirty_e360
  <1>6. thirty_360_bond_basis(s, t) \in Int
    BY <1>1, <1>3, <1>4 DEF thirty_360_bond_basis
  <1>7. ActualFraction(360 * DAY, a, b) \in Int /\ ActualFraction(365 * DAY, a, b) \in Int
    <2>1. 360 * DAY \in Nat \ {0} /\ 365 * DAY \in Nat \ {0} /\ (b - a) * RAY \in Int
      BY DayAssumption, RayAssumption
    <2> QED
      BY <2>1, DivBounds DEF ActualFraction
  <1> QED
    BY <1>2, <1>5, <1>6, <1>7

\* A cashflow may be filled in.
LEMMA FlowFilled ==
  ASSUME NEW flow \in FlowSet, NEW x \in Int
  PROVE  /\ [flow EXCEPT !.accrual_start = x] \in FlowSet
         /\ [flow EXCEPT !.accrual_end = x] \in FlowSet
         /\ [flow EXCEPT !.fixed_amount = x] \in FlowSet
         /\ [flow EXCEPT !.spread = x] \in FlowSet
  BY DEF FlowSet

LEMMA PeriodFlowTypes ==
  ASSUME NEW leg \in LegSet, NEW t, IsTerm(t), NEW dates \in Seq(Int), NEW i \in 1..Len(dates)
  PROVE  /\ PeriodFlow(leg, t, dates, i) \in FlowSet
         /\ AccrualStart(t, dates, i) \in Int /\ dates[i] \in Int
         /\ year_fraction(leg.day_count, AccrualStart(t, dates, i), dates[i]) \in Int
         /\ Stepped(leg.notional_schedule, i, leg.notional) \in Nat
         /\ Stepped(leg.rate_schedule, i, leg.fixed_rate) \in Nat
  <1> DEFINE start == AccrualStart(t, dates, i)
             tau == year_fraction(leg.day_count, start, dates[i])
             n == Stepped(leg.notional_schedule, i, leg.notional)
             r == Stepped(leg.rate_schedule, i, leg.fixed_rate)
             amount == FixedAmount(leg, i, tau)
  <1>1. Len(dates) \in Nat /\ \A k \in 1..Len(dates) : dates[k] \in Int
    BY LenProperties, ElementOfSeq
  <1>2. start \in Int /\ dates[i] \in Int
    <2>1. i = 1 \/ i - 1 \in 1..Len(dates)
      BY <1>1
    <2> QED
      BY <1>1, <2>1 DEF AccrualStart, IsTerm
  <1>3. tau \in Int
    BY <1>2, YearFractionIsInt DEF LegSet
  <1>4. ASSUME NEW s \in Seq(Nat), NEW flat \in Nat PROVE Stepped(s, i, flat) \in Nat
    BY <1>1, LenProperties, ElementOfSeq DEF Stepped
  <1>5. n \in Nat /\ r \in Nat
    BY <1>4 DEF LegSet
  <1> HIDE DEF start, tau, n, r
  <1>6. ray_mul(ray_mul(n, r), tau) \in Int
    <2>1. n \in Int /\ r \in Int
      BY <1>5
    <2>2. ray_mul(n, r) \in Int
      BY <2>1, RayMulWord
    <2> QED
      BY <1>3, <2>2, RayMulWord
  <1>7. amount \in Int
    <2>1. amount = leg.direction * ray_mul(ray_mul(n, r), tau) /\ leg.direction \in Int
      BY DEF FixedAmount, n, r, LegSet
    <2> QED
      BY <1>6, <2>1
  <1> HIDE DEF amount
  <1> DEFINE flow == [Flow(leg.leg_type, leg.direction, dates[i], n)
                        EXCEPT !.accrual_start = start, !.accrual_end = dates[i]]
  <1>8. flow \in FlowSet
    <2>1. leg.leg_type \in {"Fixed", "Floating"} /\ leg.direction \in {-1, 1}
      BY DEF LegSet
    <2>2. Flow(leg.leg_type, leg.direction, dates[i], n) \in FlowSet
      BY <1>2, <1>5, <2>1 DEF Flow, FlowSet
    <2> QED
      BY <1>2, <2>2, FlowFilled
  <1>9. PeriodFlow(leg, t, dates, i) =
          IF leg.leg_type = "Fixed" THEN [flow EXCEPT !.fixed_amount = amount]
          ELSE [flow EXCEPT !.spread = leg.spread]
    BY DEF PeriodFlow, start, n, tau, amount
  <1> HIDE DEF flow
  <1>10. leg.spread \in Int
    BY DEF LegSet
  <1>11. PeriodFlow(leg, t, dates, i) \in FlowSet
    BY <1>7, <1>8, <1>9, <1>10, FlowFilled
  <1> QED
    BY <1>2, <1>3, <1>5, <1>11 DEF start, tau, n, r

\* What the flow of a period holds.
LEMMA PeriodFlowIs ==
  ASSUME NEW leg \in LegSet, NEW t, NEW dates, NEW i
  PROVE  LET start == AccrualStart(t, dates, i)
             f == PeriodFlow(leg, t, dates, i)
         IN /\ f.cf_type = leg.leg_type /\ f.direction = leg.direction
            /\ f.payment_date = dates[i]
            /\ f.notional = Stepped(leg.notional_schedule, i, leg.notional)
            /\ f.fixed_amount = IF leg.leg_type = "Fixed"
                                THEN FixedAmount(leg, i,
                                                 year_fraction(leg.day_count, start, dates[i]))
                                ELSE 0
            /\ f.accrual_start = start /\ f.accrual_end = dates[i]
            /\ f.spread = IF leg.leg_type = "Fixed" THEN 0 ELSE leg.spread
  <1> DEFINE start == AccrualStart(t, dates, i)
             amount == FixedAmount(leg, i, year_fraction(leg.day_count, start, dates[i]))
             n == Stepped(leg.notional_schedule, i, leg.notional)
             base == Flow(leg.leg_type, leg.direction, dates[i], n)
  <1>1. /\ base.cf_type = leg.leg_type /\ base.direction = leg.direction
        /\ base.payment_date = dates[i] /\ base.notional = n
        /\ base.fixed_amount = 0 /\ base.spread = 0
        /\ base = [cf_type |-> base.cf_type, direction |-> base.direction,
                   payment_date |-> base.payment_date, notional |-> base.notional,
                   fixed_amount |-> base.fixed_amount, accrual_start |-> base.accrual_start,
                   accrual_end |-> base.accrual_end, spread |-> base.spread,
                   condition_met |-> base.condition_met]
    BY DEF Flow
  <1>2. PeriodFlow(leg, t, dates, i)
          = LET flow == [base EXCEPT !.accrual_start = start, !.accrual_end = dates[i]]
            IN IF leg.leg_type = "Fixed" THEN [flow EXCEPT !.fixed_amount = amount]
               ELSE [flow EXCEPT !.spread = leg.spread]
    BY DEF PeriodFlow
  <1> HIDE DEF start, amount, n, base
  <1>3. CASE leg.leg_type = "Fixed"
    BY <1>1, <1>2, <1>3 DEF start, amount, n
  <1>4. CASE leg.leg_type # "Fixed"
    BY <1>1, <1>2, <1>4 DEF start, amount, n
  <1> QED
    BY <1>3, <1>4

\* The flows of the periods of a leg.
PeriodFlows(leg, t, dates) == [i \in DOMAIN dates |-> PeriodFlow(leg, t, dates, i)]

\* The flows a leg is laid out of are all in some set.
FlowsAreIn(S, leg, t, dates) ==
  /\ \A i \in 1..Len(dates) : PeriodFlow(leg, t, dates, i) \in S
  /\ \A date \in {t.start, t.end} :
       Flow("NotionalExchange", leg.direction, date, leg.notional) \in S

\* A leg is laid out of its periods and its principal.
LEMMA LegIsLaid ==
  ASSUME NEW S, NEW leg, NEW t, NEW dates \in Seq(Int), FlowsAreIn(S, leg, t, dates)
  PROVE  /\ build_leg(leg, t, dates) \in Seq(S)
         /\ PeriodFlows(leg, t, dates) \in Seq(S)
         /\ Len(PeriodFlows(leg, t, dates)) = Len(dates)
         /\ (leg.exchange_notional_start = FALSE /\ leg.exchange_notional_end = FALSE) =>
              build_leg(leg, t, dates) = PeriodFlows(leg, t, dates)
  <1> DEFINE flows == PeriodFlows(leg, t, dates)
             before == Exchange(leg, leg.exchange_notional_start, t.start)
             after == Exchange(leg, leg.exchange_notional_end, t.end)
  <1>1. Len(dates) \in Nat /\ DOMAIN dates = 1..Len(dates)
    BY LenProperties
  <1>2. flows \in Seq(S) /\ Len(flows) = Len(dates)
    <2>1. flows = [i \in 1..Len(dates) |-> PeriodFlow(leg, t, dates, i)]
      BY <1>1 DEF PeriodFlows
    <2>2. flows \in [1..Len(dates) -> S] /\ DOMAIN flows = 1..Len(dates)
      BY <2>1 DEF FlowsAreIn
    <2> HIDE DEF flows
    <2>3. flows \in Seq(S)
      BY <1>1, <2>2, SeqDef
    <2>4. 1..Len(flows) = 1..Len(dates) /\ Len(flows) \in Nat
      BY <2>2, <2>3, LenProperties
    <2> QED
      BY <1>1, <2>3, <2>4
  <1>3. before \in Seq(S) /\ after \in Seq(S)
    BY DEF Exchange, FlowsAreIn
  <1>4. build_leg(leg, t, dates) = (before \o flows) \o after
    BY DEF build_leg, PeriodFlows
  <1>5. ASSUME leg.exchange_notional_start = FALSE, leg.exchange_notional_end = FALSE
        PROVE  before = <<>> /\ after = <<>>
    BY <1>5 DEF Exchange
  <1> HIDE DEF before, after, flows
  <1>6. before \o flows \in Seq(S)
    BY <1>2, <1>3, ConcatProperties
  <1>7. build_leg(leg, t, dates) \in Seq(S)
    BY <1>3, <1>4, <1>6, ConcatProperties
  <1>8. ASSUME leg.exchange_notional_start = FALSE, leg.exchange_notional_end = FALSE
        PROVE  build_leg(leg, t, dates) = flows
    <2>1. before \o flows = flows
      BY <1>2, <1>5, <1>8, ConcatEmptySeq
    <2>2. flows \o after = flows
      BY <1>2, <1>5, <1>8, ConcatEmptySeq
    <2> QED
      BY <1>4, <2>1, <2>2
  <1> QED
    BY <1>2, <1>7, <1>8 DEF flows

LEMMA ExchangeTypes ==
  ASSUME NEW leg \in LegSet, NEW date \in Int
  PROVE  Flow("NotionalExchange", leg.direction, date, leg.notional) \in FlowSet
  BY DEF Flow, FlowSet, LegSet

LEMMA BuildLegTypes ==
  ASSUME NEW leg \in LegSet, NEW t, IsTerm(t), NEW dates \in Seq(Int)
  PROVE  /\ build_leg(leg, t, dates) \in Seq(FlowSet)
         /\ PeriodFlows(leg, t, dates) \in Seq(FlowSet)
         /\ Len(PeriodFlows(leg, t, dates)) = Len(dates)
         /\ (leg.exchange_notional_start = FALSE /\ leg.exchange_notional_end = FALSE) =>
              build_leg(leg, t, dates) = PeriodFlows(leg, t, dates)
  <1>1. \A i \in 1..Len(dates) : PeriodFlow(leg, t, dates, i) \in FlowSet
    BY PeriodFlowTypes
  <1>2. \A date \in {t.start, t.end} :
          Flow("NotionalExchange", leg.direction, date, leg.notional) \in FlowSet
    BY ExchangeTypes DEF IsTerm
  <1>3. FlowsAreIn(FlowSet, leg, t, dates)
    BY <1>1, <1>2 DEF FlowsAreIn
  <1> QED
    BY <1>3, LegIsLaid

\* A list of one or two lists, laid end to end.
LEMMA FlattenShort ==
  ASSUME NEW S, NEW n \in {1, 2}, NEW s \in [1..n -> Seq(S)]
  PROVE  FlattenSeq(s) = IF n = 1 THEN s[1] ELSE s[1] \o s[2]
  <1>1. s \in Seq(Seq(S))
    BY SeqDef
  <1>2. Len(s) = n
    <2>1. 1..Len(s) = 1..n /\ Len(s) \in Nat
      BY <1>1, LenProperties
    <2> QED
      BY <2>1
  <1> DEFINE Is(f) == f = [i \in 1..n |-> IF i = 1 THEN s[i] ELSE f[i - 1] \o s[i]]
             g == [i \in 1..n |-> IF i = 1 THEN s[1] ELSE s[1] \o s[2]]
             flatten == CHOOSE f : Is(f)
  <1>3. Is(g)
    <2>1. ASSUME NEW i \in 1..n
          PROVE  (IF i = 1 THEN s[1] ELSE s[1] \o s[2]) = (IF i = 1 THEN s[i] ELSE g[i - 1] \o s[i])
      <3>1. i = 1 \/ (i = 2 /\ i - 1 = 1 /\ 1 \in 1..n)
        OBVIOUS
      <3> QED
        BY <3>1
    <2> QED
      BY <2>1
  <1>4. Is(flatten)
    BY <1>3
  <1>5. FlattenSeq(s) = flatten[n]
    BY <1>2 DEF FlattenSeq
  <1>6. /\ flatten[1] = s[1]
        /\ n = 2 => flatten[2] = flatten[1] \o s[2]
    <2>1. \A i \in 1..n : flatten[i] = IF i = 1 THEN s[i] ELSE flatten[i - 1] \o s[i]
      BY <1>4
    <2> HIDE DEF flatten
    <2>2. flatten[1] = s[1]
      BY <2>1
    <2>3. n = 2 => flatten[2] = flatten[1] \o s[2]
      BY <2>1
    <2> QED
      BY <2>2, <2>3
  <1> QED
    BY <1>5, <1>6

\* A trade is laid out of its legs.
LEMMA TradeIsLaid ==
  ASSUME NEW S, NEW t \in Trades, HasInitial(t), NEW dates \in Seq(Int),
         \A k \in DOMAIN LegsOf(t) : build_leg(LegsOf(t)[k], TermOf(t), dates) \in Seq(S)
  PROVE  build_trade(LegsOf(t), TermOf(t), dates) \in Seq(S)
  <1>1. PICK n \in {1, 2} : LegsOf(t) \in [1..n -> LegSet]
    BY LegsTypes
  <1> DEFINE flows == [k \in 1..n |-> build_leg(LegsOf(t)[k], TermOf(t), dates)]
  <1>2. \A k \in 1..n : build_leg(LegsOf(t)[k], TermOf(t), dates) \in Seq(S)
    BY <1>1
  <1>3. flows \in [1..n -> Seq(S)]
    BY <1>2
  <1>4. build_trade(LegsOf(t), TermOf(t), dates) = FlattenSeq(flows)
    BY <1>1 DEF build_trade
  <1> HIDE DEF flows
  <1>5. FlattenSeq(flows) = IF n = 1 THEN flows[1] ELSE flows[1] \o flows[2]
    BY <1>3, FlattenShort
  <1>6. CASE n = 1
    BY <1>3, <1>4, <1>5, <1>6
  <1>7. CASE n = 2
    <2>1. flows[1] \in Seq(S) /\ flows[2] \in Seq(S)
      BY <1>3, <1>7
    <2> QED
      BY <1>4, <1>5, <1>7, <2>1, ConcatProperties
  <1> QED
    BY <1>6, <1>7

LEMMA TradeFlowTypes ==
  ASSUME NEW t \in Trades, HasInitial(t), NEW dates \in Seq(Int)
  PROVE  build_trade(LegsOf(t), TermOf(t), dates) \in Seq(FlowSet)
  <1>1. PICK n \in {1, 2} : LegsOf(t) \in [1..n -> LegSet]
    BY LegsTypes
  <1>2. \A k \in DOMAIN LegsOf(t) : build_leg(LegsOf(t)[k], TermOf(t), dates) \in Seq(FlowSet)
    BY <1>1, TermTypes, BuildLegTypes
  <1> QED
    BY <1>2, TradeIsLaid

-----------------------------------------------------------------------------
(* The value of a cashflow. *)

\* Division that cuts toward zero treats both signs alike.
LEMMA QuotientIsOdd ==
  ASSUME NEW a \in Int, NEW b \in Nat \ {0}
  PROVE  Quotient(a, b) \in Int /\ Quotient(-a, b) = -Quotient(a, b)
  <1>1. a \div b \in Int /\ (-a) \div b \in Int
    BY DivBounds
  <1>2. -a \in Int /\ -(-a) = a
    OBVIOUS
  <1>3. CASE a > 0
    BY <1>1, <1>2, <1>3 DEF Quotient
  <1>4. CASE a = 0
    <2>1. 0 \div b = 0
      BY DivIs
    <2> QED
      BY <1>4, <2>1 DEF Quotient
  <1>5. CASE a < 0
    BY <1>1, <1>2, <1>5 DEF Quotient
  <1> QED
    BY <1>3, <1>4, <1>5

LEMMA RayMulSignedIsOdd ==
  ASSUME NEW a \in Int, NEW df \in Int
  PROVE  ray_mul_signed(a, df) \in Int /\ ray_mul_signed(-a, df) = -ray_mul_signed(a, df)
  <1>1. -a \in Int /\ -(-a) = a
    OBVIOUS
  <1>2. ray_mul(a, df) \in Int /\ ray_mul(-a, df) \in Int
    BY <1>1, RayMulWord
  <1>3. CASE a > 0
    BY <1>1, <1>2, <1>3 DEF ray_mul_signed
  <1>4. CASE a = 0
    <2>1. WideProduct(0, df) = 0
      BY HalfRay, DivIs, RayAssumption DEF WideProduct
    <2>2. ray_mul(0, df) = 0
      BY <2>1, CutToWord, WordAssumption, RayAssumption DEF ray_mul
    <2> QED
      BY <1>4, <2>2 DEF ray_mul_signed
  <1>5. CASE a < 0
    BY <1>1, <1>2, <1>5 DEF ray_mul_signed
  <1> QED
    BY <1>3, <1>4, <1>5

\* What the one side pays the other receives.
Opposite(cf, other) ==
  /\ other.cf_type = cf.cf_type
  /\ other.direction = -cf.direction
  /\ other.payment_date = cf.payment_date
  /\ other.notional = cf.notional
  /\ other.fixed_amount = -cf.fixed_amount
  /\ other.accrual_start = cf.accrual_start
  /\ other.accrual_end = cf.accrual_end
  /\ other.spread = cf.spread

LEMMA SignedProduct ==
  ASSUME NEW d \in {-1, 1}, NEW x \in Int, NEW y \in Int
  PROVE  /\ d * x * y \in Int /\ -d \in {-1, 1} /\ (-d) * x * y = -(d * x * y)
         /\ d * x \in Int /\ (-d) * x = -(d * x)
  <1>1. x * y \in Int /\ (-x) * y = -(x * y) /\ -x \in Int
    OBVIOUS
  <1>2. CASE d = 1
    <2>1. -d = -1 /\ d * x = x /\ (-d) * x = -x
      BY <1>2
    <2> QED
      BY <1>1, <1>2, <2>1
  <1>3. CASE d = -1
    <2>1. -d = 1 /\ d * x = -x /\ (-d) * x = x
      <3>1. d + 1 = 0 /\ d \in Int
        BY <1>3
      <3>2. -d = 1
        BY <3>1
      <3>3. (d + 1) * x = d * x + x /\ 0 * x = 0
        BY <3>1
      <3>4. d * x \in Int /\ 1 * x = x
        BY <3>1
      <3> QED
        BY <3>1, <3>2, <3>3, <3>4
    <2> QED
      BY <1>1, <1>3, <2>1
  <1> QED
    BY <1>2, <1>3

LEMMA SpreadValueIsOdd ==
  ASSUME NEW cf \in FlowSet, NEW other, Opposite(cf, other), NEW df \in Int
  PROVE  SpreadValue(cf, df) \in Int /\ SpreadValue(other, df) = -SpreadValue(cf, df)
  <1> DEFINE tau == ActualFraction(365 * DAY, cf.accrual_start, cf.accrual_end)
             x == cf.direction * cf.spread * cf.notional
             y == Quotient(x, RAY)
             z == Quotient(y * tau, RAY)
  <1>1. RAY \in Nat \ {0}
    BY RayAssumption
  <1>2. tau \in Int
    <2>1. 365 * DAY \in Nat \ {0} /\ cf.accrual_start \in Int /\ cf.accrual_end \in Int
      BY DayAssumption DEF FlowSet
    <2>2. (cf.accrual_end - cf.accrual_start) * RAY \in Int
      BY <1>1, <2>1
    <2> QED
      BY <2>1, <2>2, DivBounds DEF ActualFraction
  <1>3. x \in Int /\ other.direction * other.spread * other.notional = -x
    <2>1. cf.direction \in {-1, 1} /\ cf.spread \in Int /\ cf.notional \in Int
      BY DEF FlowSet
    <2> QED
      BY <2>1, SignedProduct DEF Opposite
  <1>4. tau = ActualFraction(365 * DAY, other.accrual_start, other.accrual_end)
    BY DEF Opposite
  <1> HIDE DEF x, tau
  <1>5. y \in Int /\ Quotient(-x, RAY) = -y
    BY <1>1, <1>3, QuotientIsOdd
  <1> HIDE DEF y
  <1>6. y * tau \in Int /\ (-y) * tau = -(y * tau)
    BY <1>2, <1>5
  <1>7. z \in Int /\ Quotient((-y) * tau, RAY) = -z
    BY <1>1, <1>6, QuotientIsOdd
  <1> HIDE DEF z
  <1>8. z * df \in Int /\ (-z) * df = -(z * df)
    BY <1>7
  <1>9. Quotient(z * df, RAY) \in Int /\ Quotient((-z) * df, RAY) = -Quotient(z * df, RAY)
    BY <1>1, <1>8, QuotientIsOdd
  <1>10. SpreadValue(cf, df) = Quotient(z * df, RAY)
    BY DEF SpreadValue, x, y, z, tau
  <1>11. SpreadValue(other, df) = Quotient((-z) * df, RAY)
    BY <1>3, <1>4, <1>5, <1>7 DEF SpreadValue
  <1> QED
    BY <1>9, <1>10, <1>11

\* A curve a value can be read off.
IsCurve(dfs) == CurveDates # <<>> /\ dfs \in Seq(Int) /\ Len(dfs) = Len(CurveDates)

LEMMA DatesAreSeq == CurveDates \in Seq(Int)
  <1>1. Nat \subseteq Int /\ CurveDates \in Seq(Nat)
    BY PricingAssumption
  <1> QED
    BY <1>1, SeqMonotonic

\* Every cashflow has a value, and its opposite the opposite value.
LEMMA ValueIsOdd ==
  ASSUME NEW cf \in FlowSet, NEW other, Opposite(cf, other),
         NEW day \in Int, NEW dfs, IsCurve(dfs)
  PROVE  /\ value_cashflow(cf, day, CurveDates, dfs) \in Int
         /\ value_cashflow(other, day, CurveDates, dfs)
              = -value_cashflow(cf, day, CurveDates, dfs)
  <1> DEFINE df(t) == interpolate_df(t, day, CurveDates, dfs)
  <1>1. \A t \in Int : df(t) \in Int
    BY DatesAreSeq, InterpolatedIsInt DEF IsCurve
  <1>2. /\ cf.cf_type \in {"Fixed", "Floating", "NotionalExchange"}
        /\ cf.direction \in {-1, 1} /\ cf.notional \in Int /\ cf.fixed_amount \in Int
        /\ cf.payment_date \in Int /\ cf.accrual_start \in Int /\ cf.accrual_end \in Int
    BY DEF FlowSet
  <1> DEFINE p == df(cf.payment_date)
             a == df(cf.accrual_start)
             b == df(cf.accrual_end)
  <1>3. p \in Int /\ a \in Int /\ b \in Int
    BY <1>1, <1>2
  <1>4. /\ p = df(other.payment_date)
        /\ a = df(other.accrual_start) /\ b = df(other.accrual_end)
    BY DEF Opposite
  <1>5. /\ other.cf_type = cf.cf_type /\ other.direction = -cf.direction
        /\ other.notional = cf.notional /\ other.fixed_amount = -cf.fixed_amount
    BY DEF Opposite
  <1>6. CASE cf.cf_type = "Fixed"
    <2>1. /\ value_cashflow(cf, day, CurveDates, dfs) = ray_mul_signed(cf.fixed_amount, p)
          /\ value_cashflow(other, day, CurveDates, dfs)
               = ray_mul_signed(-cf.fixed_amount, p)
      BY <1>4, <1>5, <1>6 DEF value_cashflow
    <2> HIDE DEF p
    <2>2. /\ ray_mul_signed(cf.fixed_amount, p) \in Int
          /\ ray_mul_signed(-cf.fixed_amount, p) = -ray_mul_signed(cf.fixed_amount, p)
      BY ONLY <1>2, <1>3, RayMulSignedIsOdd
    <2> QED
      BY <2>1, <2>2
  <1>7. CASE cf.cf_type = "Floating"
    <2> DEFINE x == cf.direction * (a - b) * cf.notional
               y == (-cf.direction) * (a - b) * cf.notional
    <2>1. /\ value_cashflow(cf, day, CurveDates, dfs)
               = Quotient(x, RAY) + SpreadValue(cf, p)
          /\ value_cashflow(other, day, CurveDates, dfs)
               = Quotient(y, RAY) + SpreadValue(other, p)
      BY <1>4, <1>5, <1>7 DEF value_cashflow
    <2> HIDE DEF p, a, b
    <2>2. SpreadValue(cf, p) \in Int /\ SpreadValue(other, p) = -SpreadValue(cf, p)
      BY <1>3, SpreadValueIsOdd
    <2>3. x \in Int /\ y = -x
      <3>1. a - b \in Int
        BY <1>3
      <3> QED
        BY <1>2, <3>1, SignedProduct
    <2> HIDE DEF x, y
    <2>4. Quotient(x, RAY) \in Int /\ Quotient(y, RAY) = -Quotient(x, RAY)
      BY <2>3, QuotientIsOdd, RayAssumption
    <2> QED
      BY <2>1, <2>2, <2>4
  <1>8. CASE cf.cf_type = "NotionalExchange"
    <2>1. /\ value_cashflow(cf, day, CurveDates, dfs) = cf.direction * ray_mul(cf.notional, p)
          /\ value_cashflow(other, day, CurveDates, dfs)
               = (-cf.direction) * ray_mul(cf.notional, p)
      BY <1>4, <1>5, <1>8 DEF value_cashflow
    <2> HIDE DEF p
    <2>2. ray_mul(cf.notional, p) \in Int
      <3>1. cf.notional \in Int /\ p \in Int
        BY <1>2, <1>3
      <3>2. ray_mul(cf.notional, p) \in Nat
        BY ONLY <3>1, RayMulWord
      <3> QED
        BY <3>2
    <2> QED
      BY <1>2, <2>1, <2>2, SignedProduct
  <1> QED
    BY <1>2, <1>6, <1>7, <1>8

-----------------------------------------------------------------------------
(* Present values. *)

\* Rates that give a curve at the curve's dates.
IsMarket(r) == r \in Seq(Nat) /\ Len(r) = Len(CurveDates) /\ Usable(r)

LEMMA MarketHasCurve ==
  ASSUME NEW r, IsMarket(r) PROVE IsCurve(bootstrap_annual(r).dfs)
  <1> DEFINE c == bootstrap_annual(r)
  <1>1. r \in Seq(Nat) /\ Len(r) = Len(CurveDates) /\ c.outcome = "Ok"
    BY DEF IsMarket, Usable
  <1>2. r # <<>> /\ c.dfs \in Seq(1..RAY) /\ Len(c.dfs) = Len(r)
    BY <1>1, AnnualFactors
  <1>3. 1..RAY \subseteq Int
    OBVIOUS
  <1>4. c.dfs \in Seq(Int)
    BY <1>2, <1>3, SeqMonotonic
  <1>5. CurveDates # <<>>
    <2>1. Len(r) \in Nat \ {0} /\ Len(<<>>) = 0
      BY <1>1, <1>2, EmptySeq
    <2> QED
      BY <1>1, <2>1
  <1> QED
    BY <1>1, <1>2, <1>4, <1>5 DEF IsCurve

\* Every cashflow has a value.
LEMMA ValueIsInt ==
  ASSUME NEW cf \in FlowSet, NEW day \in Int, NEW dfs, IsCurve(dfs)
  PROVE  value_cashflow(cf, day, CurveDates, dfs) \in Int
  <1> DEFINE other == [cf EXCEPT !.direction = -cf.direction,
                                 !.fixed_amount = -cf.fixed_amount]
  <1>1. Opposite(cf, other)
    BY DEF Opposite, FlowSet
  <1> HIDE DEF other
  <1> QED
    BY <1>1, ValueIsOdd

\* The values of a list of cashflows on the curve of some rates.
ValuesOn(flows, r, day) ==
  FlowValues(flows, day, CurveDates, bootstrap_annual(r).dfs)

LEMMA ValuesAreSummable ==
  ASSUME NEW flows \in Seq(FlowSet), NEW r, IsMarket(r), NEW day \in Int,
         NEW places \in SUBSET (DOMAIN flows)
  PROVE  /\ Summable(ValuesOn(flows, r, day), places)
         /\ PresentValueAt(places, flows, r, day, CurveDates)
              = SumFunctionOnSet(ValuesOn(flows, r, day), places)
  <1> DEFINE V == ValuesOn(flows, r, day)
             dfs == bootstrap_annual(r).dfs
  <1>1. DOMAIN flows = 1..Len(flows) /\ Len(flows) \in Int
        /\ \A k \in DOMAIN flows : flows[k] \in FlowSet
    BY LenProperties, ElementOfSeq
  <1>2. IsFiniteSet(places)
    <2>1. IsFiniteSet(1..Len(flows))
      BY <1>1, FS_Interval
    <2> QED
      BY <1>1, <2>1, FS_Subset
  <1>3. IsCurve(dfs)
    BY MarketHasCurve
  <1>4. ASSUME NEW k \in places PROVE V[k] \in Int
    <2>1. V[k] = value_cashflow(flows[k], day, CurveDates, dfs) /\ flows[k] \in FlowSet
      BY <1>1 DEF ValuesOn, FlowValues
    <2> QED
      BY <1>3, <2>1, ValueIsInt
  <1> QED
    BY <1>2, <1>4 DEF Summable, PresentValueAt, value_cashflows, ValuesOn

LEMMA PresentValueIsInt ==
  ASSUME NEW flows \in Seq(FlowSet), NEW r, IsMarket(r), NEW day \in Int,
         NEW places \in SUBSET (DOMAIN flows)
  PROVE  PresentValueAt(places, flows, r, day, CurveDates) \in Int
  BY ValuesAreSummable, SumRules

\* The value of a list is that of some of it and that of the rest.
LEMMA PresentValueSplits ==
  ASSUME NEW flows \in Seq(FlowSet), NEW r, IsMarket(r), NEW day \in Int,
         NEW places \in SUBSET (DOMAIN flows)
  PROVE  PresentValue(flows, r, day, CurveDates)
           = PresentValueAt(places, flows, r, day, CurveDates)
             + PresentValueAt((DOMAIN flows) \ places, flows, r, day, CurveDates)
  <1> DEFINE V == ValuesOn(flows, r, day)
             S == DOMAIN flows
  <1>1. S \in SUBSET S /\ places \in SUBSET S /\ S \ places \in SUBSET S
    OBVIOUS
  <1>2. /\ Summable(V, S)
        /\ PresentValueAt(S, flows, r, day, CurveDates) = SumFunctionOnSet(V, S)
        /\ PresentValueAt(places, flows, r, day, CurveDates) = SumFunctionOnSet(V, places)
        /\ PresentValueAt(S \ places, flows, r, day, CurveDates)
             = SumFunctionOnSet(V, S \ places)
    BY <1>1, ValuesAreSummable
  <1> HIDE DEF V, S
  <1>3. SumFunctionOnSet(V, S) = SumFunctionOnSet(V, places) + SumFunctionOnSet(V, S \ places)
    BY ONLY <1>1, <1>2, SumSplits
  <1> QED
    BY <1>2, <1>3 DEF PresentValue, S

\* Lists of which each cashflow is the opposite of the other's.
OppositeFlows(flows, others) ==
  /\ flows \in Seq(FlowSet) /\ others \in Seq(FlowSet)
  /\ DOMAIN others = DOMAIN flows
  /\ \A k \in DOMAIN flows : Opposite(flows[k], others[k])

LEMMA PresentValueIsOdd ==
  ASSUME NEW flows, NEW others, OppositeFlows(flows, others),
         NEW r, IsMarket(r), NEW day \in Int, NEW places \in SUBSET (DOMAIN flows)
  PROVE  /\ PresentValueAt(places, flows, r, day, CurveDates) \in Int
         /\ PresentValueAt(places, others, r, day, CurveDates)
              = -PresentValueAt(places, flows, r, day, CurveDates)
  <1> DEFINE V == ValuesOn(flows, r, day)
             W == ValuesOn(others, r, day)
             dfs == bootstrap_annual(r).dfs
  <1>1. /\ flows \in Seq(FlowSet) /\ others \in Seq(FlowSet)
        /\ DOMAIN others = DOMAIN flows
        /\ \A k \in DOMAIN flows : flows[k] \in FlowSet /\ Opposite(flows[k], others[k])
    BY LenProperties, ElementOfSeq DEF OppositeFlows
  <1>2. /\ Summable(V, places)
        /\ PresentValueAt(places, flows, r, day, CurveDates) = SumFunctionOnSet(V, places)
        /\ PresentValueAt(places, others, r, day, CurveDates) = SumFunctionOnSet(W, places)
    BY <1>1, ValuesAreSummable
  <1>3. IsCurve(dfs)
    BY MarketHasCurve
  <1>4. ASSUME NEW k \in places PROVE W[k] = -V[k]
    <2>1. /\ V[k] = value_cashflow(flows[k], day, CurveDates, dfs)
          /\ W[k] = value_cashflow(others[k], day, CurveDates, dfs)
          /\ flows[k] \in FlowSet /\ Opposite(flows[k], others[k])
      BY <1>1 DEF ValuesOn, FlowValues
    <2> QED
      BY <1>3, <2>1, ValueIsOdd
  <1> HIDE DEF V, W
  <1>5. /\ SumFunctionOnSet(V, places) \in Int
        /\ SumFunctionOnSet(W, places) = -SumFunctionOnSet(V, places)
    BY <1>2, <1>4, SumNegated, SumRules
  <1> QED
    BY <1>2, <1>5

-----------------------------------------------------------------------------
(* Shifted rates. *)

LEMMA ShiftedIsNat ==
  ASSUME NEW rate \in Nat, NEW bump \in Int
  PROVE  Shifted(rate, bump) \in Nat
  BY DEF Shifted

\* How far a tenor is along the slope of the tilts, from two years to ten.
Along(t) == IF t <= 2 * YEAR THEN 0 ELSE IF t >= 10 * YEAR THEN 8 * YEAR ELSE t - 2 * YEAR

\* The steepener before its division.
Tilt(t) == 100 * (Along(t) * ONE_BP) - 400 * (YEAR * ONE_BP)

\* A quotient between two whole ones.
LEMMA QuotientBetween ==
  ASSUME NEW x \in Int, NEW b \in Nat \ {0}, NEW k \in Nat, -(b * k) <= x, x <= b * k
  PROVE  -k <= Quotient(x, b) /\ Quotient(x, b) <= k
  <1>1. ASSUME NEW y \in Nat, y <= b * k PROVE y \div b \in Nat /\ y \div b <= k
    <2>1. PICK q \in Int : q = y \div b /\ b * q <= y
      BY DivBounds
    <2>2. 0 <= q
      BY <2>1, DivBetween
    <2>3. b * q <= b * k
      BY <1>1, <2>1
    <2>4. q <= k
      BY ONLY <2>3, b \in Nat \ {0}, k \in Nat, q \in Int, SMT
    <2> QED
      BY <2>1, <2>2, <2>4
  <1>2. CASE x >= 0
    BY <1>1, <1>2 DEF Quotient
  <1>3. CASE ~(x >= 0)
    <2>1. -x \in Nat /\ -x <= b * k
      BY <1>3
    <2>2. (-x) \div b \in Nat /\ (-x) \div b <= k
      BY <1>1, <2>1
    <2> QED
      BY <1>3, <2>2 DEF Quotient
  <1> QED
    BY <1>2, <1>3

LEMMA TiltIs ==
  ASSUME NEW t \in Nat
  PROVE  /\ Tilt(t) \in Int /\ 8 * YEAR \in Nat \ {0} /\ 50 * ONE_BP \in Nat
         /\ -((8 * YEAR) * (50 * ONE_BP)) <= Tilt(t) /\ Tilt(t) <= (8 * YEAR) * (50 * ONE_BP)
         /\ Steepener(t) = Quotient(Tilt(t), 8 * YEAR)
         /\ Flattener(t) = Quotient(-Tilt(t), 8 * YEAR)
  <1>1. /\ ONE_BP \in Nat /\ YEAR \in Nat \ {0} /\ 8 * YEAR \in Nat \ {0}
        /\ 50 * ONE_BP \in Nat
    BY RiskAssumption
  <1>2. PICK W \in Nat : W = YEAR * ONE_BP
    BY <1>1
  <1>3. (8 * YEAR) * (50 * ONE_BP) = 400 * W /\ (8 * YEAR) * ONE_BP = 8 * W
    <2>1. \A y, b \in Nat : (8 * y) * (50 * b) = 400 * (y * b) /\ (8 * y) * b = 8 * (y * b)
      OBVIOUS
    <2> QED
      BY <1>1, <1>2, <2>1
  <1>4. /\ Quotient(400 * W, 8 * YEAR) = 50 * ONE_BP
        /\ Quotient(-(400 * W), 8 * YEAR) = -50 * ONE_BP
    <2>1. PICK q \in Nat : q = 50 * ONE_BP /\ (8 * YEAR) * q = 400 * W
      BY <1>1, <1>3
    <2>2. PICK x \in Nat : x = 400 * W
      OBVIOUS
    <2>3. x \div (8 * YEAR) = q
      BY <1>1, <2>1, <2>2, DivIs
    <2>4. Quotient(x, 8 * YEAR) = q /\ Quotient(-x, 8 * YEAR) = -q
      <3>1. Quotient(x, 8 * YEAR) = q
        BY <2>3 DEF Quotient
      <3>2. Quotient(-x, 8 * YEAR) = -Quotient(x, 8 * YEAR)
        BY <1>1, QuotientIsOdd
      <3> QED
        BY <3>1, <3>2
    <2>5. -q = -50 * ONE_BP
      BY <1>1, <2>1
    <2> QED
      BY <2>1, <2>2, <2>4, <2>5
  <1>5. CASE t <= 2 * YEAR
    <2>1. Tilt(t) = -(400 * W)
      BY <1>1, <1>2, <1>5 DEF Tilt, Along
    <2>2. Steepener(t) = -50 * ONE_BP /\ Flattener(t) = 50 * ONE_BP
      <3>1. ~(t >= 10 * YEAR)
        BY <1>1, <1>5
      <3> QED
        BY <1>5, <3>1 DEF Steepener, Flattener
    <2> QED
      BY <1>1, <1>3, <1>4, <2>1, <2>2
  <1>6. CASE t >= 10 * YEAR
    <2>1. ~(t <= 2 * YEAR)
      BY <1>1, <1>6
    <2>2. Tilt(t) = 400 * W
      BY <1>1, <1>2, <1>3, <1>6, <2>1 DEF Tilt, Along
    <2>3. Steepener(t) = 50 * ONE_BP /\ Flattener(t) = -50 * ONE_BP
      BY <1>6, <2>1 DEF Steepener, Flattener
    <2> QED
      BY <1>1, <1>3, <1>4, <2>2, <2>3
  <1>7. CASE ~(t <= 2 * YEAR) /\ ~(t >= 10 * YEAR)
    <2>1. PICK p \in Nat : p = t - 2 * YEAR /\ p <= 8 * YEAR
      BY <1>1, <1>7
    <2>2. PICK P \in Nat : P = p * ONE_BP
      BY <1>1
    <2>3. P <= 8 * W
      <3>1. \A x, y, b \in Nat : x <= y => x * b <= y * b
        OBVIOUS
      <3> QED
        BY <1>1, <1>3, <2>1, <2>2, <3>1
    <2>4. Tilt(t) = 100 * P - 400 * W
      BY <1>2, <1>7, <2>1, <2>2 DEF Tilt, Along
    <2>5. /\ Steepener(t) = Quotient((p * 100 - 400 * YEAR) * ONE_BP, 8 * YEAR)
          /\ Flattener(t) = Quotient((400 * YEAR - p * 100) * ONE_BP, 8 * YEAR)
      BY <1>7, <2>1 DEF Steepener, Flattener
    <2>6. /\ (p * 100 - 400 * YEAR) * ONE_BP = 100 * P - 400 * W
          /\ (400 * YEAR - p * 100) * ONE_BP = -(100 * P - 400 * W)
      <3>1. \A x, y, b \in Int : /\ (x * 100 - 400 * y) * b = 100 * (x * b) - 400 * (y * b)
                               /\ (400 * y - x * 100) * b = -(100 * (x * b) - 400 * (y * b))
        OBVIOUS
      <3> QED
        BY <1>1, <1>2, <2>2, <3>1
    <2> QED
      BY <1>1, <1>3, <2>3, <2>4, <2>5, <2>6
  <1> QED
    BY <1>5, <1>6, <1>7

LEMMA TiltIsInt ==
  ASSUME NEW t \in Nat
  PROVE  /\ Steepener(t) \in Int /\ Flattener(t) = -Steepener(t)
         /\ -(50 * ONE_BP) <= Steepener(t) /\ Steepener(t) <= 50 * ONE_BP
  <1>1. PICK x \in Int, b \in Nat \ {0}, k \in Nat :
          /\ x = Tilt(t) /\ b = 8 * YEAR /\ k = 50 * ONE_BP
          /\ -(b * k) <= x /\ x <= b * k
          /\ Steepener(t) = Quotient(x, b) /\ Flattener(t) = Quotient(-x, b)
    BY TiltIs
  <1> QED
    BY <1>1, QuotientIsOdd, QuotientBetween

LEMMA BumpIsInt ==
  ASSUME NEW s \in Scenarios, NEW t \in Nat
  PROVE  Bump(s, t) \in Int
  <1>1. ONE_BP \in Int /\ Steepener(t) \in Int /\ Flattener(t) \in Int
    BY TiltIsInt, RiskAssumption
  <1>2. /\ 100 * ONE_BP \in Int /\ -100 * ONE_BP \in Int
        /\ 200 * ONE_BP \in Int /\ -200 * ONE_BP \in Int
        /\ (IF t <= 2 * YEAR THEN 300 * ONE_BP ELSE 0) \in Int
        /\ (IF t >= 10 * YEAR THEN 200 * ONE_BP ELSE 0) \in Int
    BY <1>1
  <1> QED
    BY <1>1, <1>2 DEF Scenarios, Bump

\* Rates that fit the curve, before they are known to bootstrap.
FitsCurve(r) == r \in Seq(Nat) /\ Len(r) = Len(CurveDates)

\* A list of rates of which each is replaced.
LEMMA Replaced ==
  ASSUME NEW r, FitsCurve(r), NEW q, q = [k \in DOMAIN r |-> q[k]],
         \A k \in DOMAIN r : q[k] \in Nat
  PROVE  FitsCurve(q)
  <1>1. r \in Seq(Nat) /\ Len(r) \in Nat /\ DOMAIN r = 1..Len(r)
    BY LenProperties DEF FitsCurve
  <1>2. q \in [1..Len(r) -> Nat]
    BY <1>1
  <1>3. q \in Seq(Nat)
    BY <1>1, <1>2, SeqDef
  <1>4. 1..Len(q) = 1..Len(r) /\ Len(q) \in Nat
    BY <1>2, <1>3, LenProperties
  <1> QED
    BY <1>1, <1>3, <1>4 DEF FitsCurve

LEMMA TenorsAre ==
  /\ DOMAIN TenorYears = 1..Len(TenorYears)
  /\ \A k \in DOMAIN TenorYears : TenorYears[k] \in Nat
  BY RiskAssumption, LenProperties, ElementOfSeq

LEMMA ShiftedFit ==
  ASSUME NEW r, FitsCurve(r), Len(r) = Len(TenorYears)
  PROVE  /\ \A bump \in Int : FitsCurve(Parallel(r, bump))
         /\ \A bump \in Int : \A k \in DOMAIN r : FitsCurve(Bucket(r, k, bump))
         /\ \A s \in Scenarios : FitsCurve(apply_scenario(r, s))
  <1>1. DOMAIN r = 1..Len(r) /\ \A k \in DOMAIN r : r[k] \in Nat
    BY LenProperties, ElementOfSeq DEF FitsCurve
  <1>2. ASSUME NEW bump \in Int PROVE FitsCurve(Parallel(r, bump))
    <2> DEFINE q == Parallel(r, bump)
    <2>1. q = [k \in DOMAIN r |-> q[k]] /\ \A k \in DOMAIN r : q[k] \in Nat
      BY <1>1, ShiftedIsNat DEF Parallel
    <2> HIDE DEF q
    <2> QED
      BY <2>1, Replaced DEF q
  <1>3. ASSUME NEW bump \in Int, NEW k \in DOMAIN r PROVE FitsCurve(Bucket(r, k, bump))
    <2> DEFINE q == Bucket(r, k, bump)
    <2>1. q = [r EXCEPT ![k] = Shifted(r[k], bump)] /\ Shifted(r[k], bump) \in Nat
      BY <1>1, ShiftedIsNat DEF Bucket
    <2> HIDE DEF q
    <2>2. r = [j \in DOMAIN r |-> r[j]]
      BY LenProperties DEF FitsCurve
    <2>3. q = [j \in DOMAIN r |-> q[j]] /\ \A j \in DOMAIN r : q[j] \in Nat
      BY <1>1, <2>1, <2>2
    <2> QED
      BY <2>3, Replaced DEF q
  <1>4. ASSUME NEW s \in Scenarios PROVE FitsCurve(apply_scenario(r, s))
    <2> DEFINE q == apply_scenario(r, s)
    <2>1. ASSUME NEW k \in DOMAIN r PROVE Shifted(r[k], Bump(s, TenorYears[k])) \in Nat
      <3>1. TenorYears[k] \in Nat
        BY <1>1, TenorsAre
      <3> QED
        BY <1>1, <3>1, BumpIsInt, ShiftedIsNat
    <2>2. q = [k \in DOMAIN r |-> q[k]] /\ \A k \in DOMAIN r : q[k] \in Nat
      BY <2>1 DEF apply_scenario
    <2> HIDE DEF q
    <2> QED
      BY <2>2, Replaced DEF q
  <1> QED
    BY <1>2, <1>3, <1>4

\* Rates of which every shifted curve a report reads can be read off.
IsMeasurable(r) ==
  /\ IsMarket(r)
  /\ \A bump \in {ONE_BP, -ONE_BP} :
       IsMarket(Parallel(r, bump)) /\ \A k \in DOMAIN r : IsMarket(Bucket(r, k, bump))
  /\ \A s \in Scenarios : IsMarket(apply_scenario(r, s))

LEMMA RatesFit ==
  ASSUME rates \in Curves
  PROVE  FitsCurve(rates) /\ Len(rates) = Len(TenorYears)
  BY PricingAssumption DEF FitsCurve

LEMMA UsableIsMeasurable ==
  ASSUME rates \in Curves, \A r \in ShiftedCurves : Usable(r)
  PROVE  IsMeasurable(rates)
  <1>1. FitsCurve(rates) /\ Len(rates) = Len(TenorYears)
    BY RatesFit
  <1>2. ONE_BP \in Int /\ -ONE_BP \in Int
    BY RiskAssumption
  <1>3. IsMarket(rates)
    BY <1>1 DEF ShiftedCurves, FitsCurve, IsMarket
  <1>4. ASSUME NEW bump \in {ONE_BP, -ONE_BP} PROVE IsMarket(Parallel(rates, bump))
    <2>1. FitsCurve(Parallel(rates, bump))
      BY <1>1, <1>2, ShiftedFit
    <2>2. Parallel(rates, bump) \in ShiftedCurves
      BY DEF ShiftedCurves
    <2> QED
      BY <2>1, <2>2 DEF FitsCurve, IsMarket
  <1>5. ASSUME NEW bump \in {ONE_BP, -ONE_BP}, NEW k \in DOMAIN rates
        PROVE  IsMarket(Bucket(rates, k, bump))
    <2>1. FitsCurve(Bucket(rates, k, bump))
      BY <1>1, <1>2, ShiftedFit
    <2>2. Bucket(rates, k, bump) \in ShiftedCurves
      BY DEF ShiftedCurves
    <2> QED
      BY <2>1, <2>2 DEF FitsCurve, IsMarket
  <1>6. ASSUME NEW s \in Scenarios PROVE IsMarket(apply_scenario(rates, s))
    <2>1. FitsCurve(apply_scenario(rates, s))
      BY <1>1, ShiftedFit
    <2>2. apply_scenario(rates, s) \in ShiftedCurves
      BY DEF ShiftedCurves
    <2> QED
      BY <2>1, <2>2 DEF FitsCurve, IsMarket
  <1> QED
    BY <1>3, <1>4, <1>5, <1>6 DEF IsMeasurable

-----------------------------------------------------------------------------
(* Payer and receiver. *)

\* The same leg in the other direction, without principal.
MirroredLegs(leg, other) ==
  /\ leg \in LegSet /\ other \in LegSet
  /\ other.direction = -leg.direction
  /\ other.leg_type = leg.leg_type /\ other.day_count = leg.day_count
  /\ other.notional = leg.notional /\ other.fixed_rate = leg.fixed_rate
  /\ other.spread = leg.spread
  /\ other.notional_schedule = leg.notional_schedule
  /\ other.rate_schedule = leg.rate_schedule
  /\ \A l \in {leg, other} : ~l.exchange_notional_start /\ ~l.exchange_notional_end

LEMMA MirroredPeriods ==
  ASSUME NEW leg, NEW other, MirroredLegs(leg, other), NEW t, IsTerm(t),
         NEW dates \in Seq(Int), NEW i \in 1..Len(dates)
  PROVE  Opposite(PeriodFlow(leg, t, dates, i), PeriodFlow(other, t, dates, i))
  <1> DEFINE start == AccrualStart(t, dates, i)
             tau == year_fraction(leg.day_count, start, dates[i])
             n == Stepped(leg.notional_schedule, i, leg.notional)
             r == Stepped(leg.rate_schedule, i, leg.fixed_rate)
             product == ray_mul(ray_mul(n, r), tau)
             a == PeriodFlow(leg, t, dates, i)
             b == PeriodFlow(other, t, dates, i)
  <1>1. leg \in LegSet /\ other \in LegSet
    BY DEF MirroredLegs
  <1>2. /\ n = Stepped(other.notional_schedule, i, other.notional)
        /\ r = Stepped(other.rate_schedule, i, other.fixed_rate)
        /\ tau = year_fraction(other.day_count, start, dates[i])
    BY DEF MirroredLegs
  <1>3. n \in Int /\ r \in Int /\ tau \in Int
    BY <1>1, PeriodFlowTypes
  <1>4. /\ FixedAmount(leg, i, tau) = leg.direction * product
        /\ FixedAmount(other, i, tau) = other.direction * product
    BY <1>2 DEF FixedAmount
  <1> HIDE DEF start, tau, n, r
  <1>5. product \in Int
    <2>1. ray_mul(n, r) \in Int
      BY <1>3, RayMulWord
    <2> QED
      BY <1>3, <2>1, RayMulWord
  <1> HIDE DEF product
  <1>6. other.direction * product = -(leg.direction * product)
    <2>1. leg.direction \in {-1, 1} /\ other.direction = -leg.direction
      BY DEF MirroredLegs, LegSet
    <2> QED
      BY <1>5, <2>1, SignedProduct
  <1>7. ASSUME NEW l \in {leg, other}
        PROVE  LET f == PeriodFlow(l, t, dates, i) IN
               /\ f.cf_type = leg.leg_type /\ f.direction = l.direction
               /\ f.payment_date = dates[i] /\ f.notional = n
               /\ f.fixed_amount = IF leg.leg_type = "Fixed" THEN FixedAmount(l, i, tau) ELSE 0
               /\ f.accrual_start = start /\ f.accrual_end = dates[i]
               /\ f.spread = IF leg.leg_type = "Fixed" THEN 0 ELSE leg.spread
    BY <1>1, PeriodFlowIs DEF MirroredLegs, start, tau, n
  <1> HIDE DEF a, b
  <1>8. b.fixed_amount = -a.fixed_amount
    BY <1>4, <1>5, <1>6, <1>7 DEF a, b
  <1>9. b.direction = -a.direction
    BY <1>7 DEF a, b, MirroredLegs
  <1> QED
    BY <1>7, <1>8, <1>9 DEF a, b, Opposite

\* A list of cashflows and its opposite.
LEMMA MirroredBuilds ==
  ASSUME NEW leg, NEW other, MirroredLegs(leg, other), NEW t, IsTerm(t), NEW dates \in Seq(Int)
  PROVE  OppositeFlows(build_leg(leg, t, dates), build_leg(other, t, dates))
  <1> DEFINE a == PeriodFlows(leg, t, dates)
             b == PeriodFlows(other, t, dates)
  <1>1. /\ build_leg(leg, t, dates) = a /\ a \in Seq(FlowSet)
        /\ build_leg(other, t, dates) = b /\ b \in Seq(FlowSet)
    BY BuildLegTypes DEF MirroredLegs, LegSet
  <1>2. DOMAIN a = DOMAIN b /\ DOMAIN a = DOMAIN dates /\ DOMAIN dates = 1..Len(dates)
    BY LenProperties DEF PeriodFlows
  <1>3. ASSUME NEW k \in DOMAIN a PROVE Opposite(a[k], b[k])
    <2>1. a[k] = PeriodFlow(leg, t, dates, k) /\ b[k] = PeriodFlow(other, t, dates, k)
      BY <1>2 DEF PeriodFlows
    <2> QED
      BY <1>2, <2>1, MirroredPeriods
  <1> QED
    BY <1>1, <1>2, <1>3 DEF OppositeFlows

LEMMA OppositeJoined ==
  ASSUME NEW a, NEW b, OppositeFlows(a, b), NEW c, NEW d, OppositeFlows(c, d)
  PROVE  OppositeFlows(a \o c, b \o d)
  <1>1. /\ a \in Seq(FlowSet) /\ b \in Seq(FlowSet) /\ c \in Seq(FlowSet) /\ d \in Seq(FlowSet)
        /\ Len(a) \in Nat /\ Len(b) \in Nat /\ Len(c) \in Nat /\ Len(d) \in Nat
        /\ DOMAIN a = 1..Len(a) /\ DOMAIN b = 1..Len(b)
        /\ DOMAIN c = 1..Len(c) /\ DOMAIN d = 1..Len(d)
    BY LenProperties DEF OppositeFlows
  <1>2. DOMAIN a = DOMAIN b /\ DOMAIN c = DOMAIN d
    BY DEF OppositeFlows
  <1>3. Len(a) = Len(b) /\ Len(c) = Len(d)
    <2>1. 1..Len(a) = 1..Len(b) /\ Len(a) \in Nat /\ Len(b) \in Nat
      BY <1>1, <1>2
    <2>2. 1..Len(c) = 1..Len(d) /\ Len(c) \in Nat /\ Len(d) \in Nat
      BY <1>1, <1>2
    <2>3. Len(a) = Len(b)
      BY ONLY <2>1
    <2>4. Len(c) = Len(d)
      BY ONLY <2>2
    <2> QED
      BY <2>3, <2>4
  <1>4. /\ a \o c \in Seq(FlowSet) /\ b \o d \in Seq(FlowSet)
        /\ Len(a \o c) = Len(a) + Len(c) /\ Len(b \o d) = Len(b) + Len(d)
        /\ \A k \in 1..(Len(a) + Len(c)) :
             (a \o c)[k] = IF k <= Len(a) THEN a[k] ELSE c[k - Len(a)]
        /\ \A k \in 1..(Len(b) + Len(d)) :
             (b \o d)[k] = IF k <= Len(b) THEN b[k] ELSE d[k - Len(b)]
    BY <1>1, ConcatProperties
  <1>5. DOMAIN (a \o c) = 1..(Len(a) + Len(c)) /\ DOMAIN (b \o d) = 1..(Len(a) + Len(c))
    BY <1>3, <1>4, LenProperties
  <1>6. ASSUME NEW k \in 1..(Len(a) + Len(c)) PROVE Opposite((a \o c)[k], (b \o d)[k])
    <2>1. CASE k <= Len(a)
      <3>1. k \in DOMAIN a /\ (a \o c)[k] = a[k] /\ (b \o d)[k] = b[k]
        BY <1>1, <1>3, <1>4, <2>1
      <3> QED
        BY <3>1 DEF OppositeFlows
    <2>2. CASE ~(k <= Len(a))
      <3>1. /\ k - Len(a) \in DOMAIN c
            /\ (a \o c)[k] = c[k - Len(a)] /\ (b \o d)[k] = d[k - Len(a)]
        BY <1>1, <1>3, <1>4, <2>2
      <3> QED
        BY <3>1 DEF OppositeFlows
    <2> QED
      BY <2>1, <2>2
  <1> QED
    BY <1>4, <1>5, <1>6 DEF OppositeFlows

LEMMA MirroredSwaps ==
  ASSUME NEW t, t.currency \in DOMAIN DayCount, t.notional \in Nat, t.rate \in Nat,
         t.payer \in BOOLEAN,
         NEW u, u.currency = t.currency, u.notional = t.notional, u.rate = t.rate,
         u.payer = ~t.payer
  PROVE  \A k \in 1..2 : MirroredLegs(Swap(t)[k], Swap(u)[k])
  <1> DEFINE p == PayDirection(t.payer)
             q == PayDirection(u.payer)
  <1>1. q = -p /\ -q = p
    <2>1. (t.payer /\ p = -1 /\ q = 1) \/ (~t.payer /\ p = 1 /\ q = -1)
      BY Zenon DEF PayDirection
    <2> QED
      BY <2>1
  <1>2. /\ Swap(t) = <<FixedLeg(t.currency, t.notional, t.rate, p),
                       FloatingLeg(t.currency, t.notional, 0, -p)>>
        /\ Swap(t) \in [1..2 -> LegSet]
    BY SwapTypes
  <1>3. /\ Swap(u) = <<FixedLeg(t.currency, t.notional, t.rate, q),
                       FloatingLeg(t.currency, t.notional, 0, -q)>>
        /\ Swap(u) \in [1..2 -> LegSet]
    BY SwapTypes
  <1> HIDE DEF p, q
  <1>4. MirroredLegs(Swap(t)[1], Swap(u)[1])
    <2>1. Swap(t)[1] \in LegSet /\ Swap(u)[1] \in LegSet
      BY <1>2, <1>3
    <2>2. /\ Swap(t)[1] = FixedLeg(t.currency, t.notional, t.rate, p)
          /\ Swap(u)[1] = FixedLeg(t.currency, t.notional, t.rate, q)
      BY <1>2, <1>3
    <2> QED
      BY <1>1, <2>1, <2>2 DEF FixedLeg, SimpleLeg, MirroredLegs
  <1>5. MirroredLegs(Swap(t)[2], Swap(u)[2])
    <2>1. Swap(t)[2] \in LegSet /\ Swap(u)[2] \in LegSet
      BY <1>2, <1>3
    <2>2. /\ Swap(t)[2] = FloatingLeg(t.currency, t.notional, 0, -p)
          /\ Swap(u)[2] = FloatingLeg(t.currency, t.notional, 0, -q)
      BY <1>2, <1>3
    <2>3. -q = -(-p)
      BY <1>1
    <2> QED
      BY <2>1, <2>2, <2>3 DEF FloatingLeg, SimpleLeg, MirroredLegs
  <1> QED
    BY <1>4, <1>5

\* The products whose sides are chosen.
Mirrored(t, u) ==
  /\ t.product \in {"irs", "amortizing_irs", "zero_coupon_swap"}
  /\ u = [t EXCEPT !.payer = ~@]

LEMMA MirroredTrades ==
  ASSUME NEW t \in Trades, NEW u \in Trades, Mirrored(t, u), HasInitial(t)
  PROVE  /\ TermOf(u) = TermOf(t)
         /\ LegsOf(t) \in [1..2 -> LegSet] /\ LegsOf(u) \in [1..2 -> LegSet]
         /\ \A k \in 1..2 : MirroredLegs(LegsOf(t)[k], LegsOf(u)[k])
  <1>1. /\ t \in [product : Products, currency : DOMAIN DayCount, other : DOMAIN DayCount,
                  notional : Nat, notionals : Seq(Nat), rate : Int,
                  payer : BOOLEAN, start : Nat, end : Nat, frequency : PaymentsPerYear]
        /\ t.product \in {"irs", "amortizing_irs", "zero_coupon_swap"}
        /\ u = [t EXCEPT !.payer = ~t.payer]
    BY TradeTypes DEF Mirrored
  <1>2. /\ u.product = t.product /\ u.currency = t.currency /\ u.notional = t.notional
        /\ u.notionals = t.notionals /\ u.rate = t.rate /\ u.payer = ~t.payer
        /\ u.start = t.start /\ u.end = t.end /\ u.frequency = t.frequency
    BY <1>1
  <1>3. /\ t.currency \in DOMAIN DayCount /\ t.notional \in Nat /\ t.payer \in BOOLEAN
        /\ t.notionals \in Seq(Nat)
    BY <1>1
  <1>4. t.rate \in Nat /\ (t.product = "amortizing_irs" => t.notionals[1] \in Nat)
    BY <1>1, TradeTypes
  <1>5. TermOf(u) = TermOf(t)
    BY <1>2 DEF TermOf, FrequencyOf
  <1>6. CASE t.product \in {"irs", "zero_coupon_swap"}
    <2>1. LegsOf(t) = Swap(t) /\ LegsOf(u) = Swap(u)
      BY <1>2, <1>6 DEF LegsOf
    <2>2. Swap(t) \in [1..2 -> LegSet] /\ Swap(u) \in [1..2 -> LegSet]
      BY <1>2, <1>3, <1>4, SwapTypes
    <2> QED
      BY <1>2, <1>3, <1>4, <1>5, <2>1, <2>2, MirroredSwaps
  <1>7. CASE t.product = "amortizing_irs"
    <2> DEFINE v == [t EXCEPT !.notional = t.notionals[1]]
               w == [u EXCEPT !.notional = u.notionals[1]]
    <2>1. /\ LegsOf(t) = [k \in 1..2 |-> [Swap(v)[k] EXCEPT !.notional_schedule = t.notionals]]
          /\ LegsOf(u) = [k \in 1..2 |-> [Swap(w)[k] EXCEPT !.notional_schedule = t.notionals]]
      BY <1>2, <1>7 DEF LegsOf, amortizing_irs
    <2>2. /\ v.currency = t.currency /\ v.notional = t.notionals[1] /\ v.rate = t.rate
          /\ v.payer = t.payer
      BY <1>1
    <2>3. /\ w.currency = t.currency /\ w.notional = t.notionals[1] /\ w.rate = t.rate
          /\ w.payer = ~t.payer
      <3>1. /\ u \in [product : Products, currency : DOMAIN DayCount, other : DOMAIN DayCount,
                      notional : Nat, notionals : Seq(Nat), rate : Int,
                      payer : BOOLEAN, start : Nat, end : Nat, frequency : PaymentsPerYear]
        BY TradeTypes
      <3> QED
        BY <1>2, <3>1
    <2> HIDE DEF v, w
    <2>4. \A k \in 1..2 : MirroredLegs(Swap(v)[k], Swap(w)[k])
      BY <1>3, <1>4, <1>7, <2>2, <2>3, MirroredSwaps
    <2>5. ASSUME NEW leg, NEW other, MirroredLegs(leg, other)
          PROVE  MirroredLegs([leg EXCEPT !.notional_schedule = t.notionals],
                              [other EXCEPT !.notional_schedule = t.notionals])
      BY <1>3, <2>5 DEF MirroredLegs, LegSet
    <2>6. \A k \in 1..2 : MirroredLegs(LegsOf(t)[k], LegsOf(u)[k])
      BY <2>1, <2>4, <2>5
    <2>7. \A k \in 1..2 : LegsOf(t)[k] \in LegSet /\ LegsOf(u)[k] \in LegSet
      BY <2>6 DEF MirroredLegs
    <2> QED
      BY <1>5, <2>1, <2>6, <2>7
  <1> QED
    BY <1>1, <1>6, <1>7

\* Both sides of a swap, off the same dates.
LEMMA MirroredFlows ==
  ASSUME NEW t \in Trades, NEW u \in Trades, Mirrored(t, u), HasInitial(t),
         NEW dates \in Seq(Int)
  PROVE  OppositeFlows(build_trade(LegsOf(t), TermOf(t), dates),
                       build_trade(LegsOf(u), TermOf(u), dates))
  <1> DEFINE a == [k \in 1..2 |-> build_leg(LegsOf(t)[k], TermOf(t), dates)]
             b == [k \in 1..2 |-> build_leg(LegsOf(u)[k], TermOf(t), dates)]
  <1>1. /\ TermOf(u) = TermOf(t) /\ IsTerm(TermOf(t))
        /\ LegsOf(t) \in [1..2 -> LegSet] /\ LegsOf(u) \in [1..2 -> LegSet]
        /\ \A k \in 1..2 : MirroredLegs(LegsOf(t)[k], LegsOf(u)[k])
    BY MirroredTrades, TermTypes
  <1>2. /\ build_trade(LegsOf(t), TermOf(t), dates) = FlattenSeq(a)
        /\ build_trade(LegsOf(u), TermOf(u), dates) = FlattenSeq(b)
    BY <1>1 DEF build_trade
  <1>3. \A k \in 1..2 : OppositeFlows(a[k], b[k])
    BY <1>1, MirroredBuilds
  <1>4. a \in [1..2 -> Seq(FlowSet)] /\ b \in [1..2 -> Seq(FlowSet)]
    BY <1>3 DEF OppositeFlows
  <1> HIDE DEF a, b
  <1>5. FlattenSeq(a) = a[1] \o a[2] /\ FlattenSeq(b) = b[1] \o b[2]
    <2>1. 2 \in {1, 2} /\ 2 # 1
      OBVIOUS
    <2> QED
      BY <1>4, <2>1, FlattenShort
  <1> QED
    BY <1>2, <1>3, <1>5, OppositeJoined

LEMMA WholeValueIsOdd ==
  ASSUME NEW flows, NEW others, OppositeFlows(flows, others), NEW r, IsMarket(r),
         NEW day \in Int
  PROVE  /\ PresentValue(flows, r, day, CurveDates) \in Int
         /\ PresentValue(others, r, day, CurveDates)
              = -PresentValue(flows, r, day, CurveDates)
  <1>1. DOMAIN others = DOMAIN flows /\ DOMAIN flows \in SUBSET (DOMAIN flows)
    BY DEF OppositeFlows
  <1> QED
    BY <1>1, PresentValueIsOdd DEF PresentValue

LEMMA CentralDifferenceIsOdd ==
  ASSUME NEW up \in Int, NEW down \in Int
  PROVE  /\ CentralDifference(up, down) \in Int
         /\ CentralDifference(-up, -down) = -CentralDifference(up, down)
  <1>1. up - down \in Int /\ (-up) - (-down) = -(up - down) /\ 2 \in Nat \ {0}
    OBVIOUS
  <1> QED
    BY <1>1, QuotientIsOdd DEF CentralDifference

\* Every measure of the one side is that of the other, negated.
LEMMA MeasuresAreOdd ==
  ASSUME NEW flows, NEW others, OppositeFlows(flows, others), NEW r, IsMeasurable(r),
         NEW day \in Int
  PROVE  LET mine == Measures(flows, r, day, CurveDates)
             yours == Measures(others, r, day, CurveDates)
         IN /\ mine.pv = -yours.pv /\ mine.dv01 = -yours.dv01
            /\ mine.gamma = -yours.gamma /\ mine.theta = -yours.theta
            /\ \A k \in DOMAIN r : mine.buckets[k] = -yours.buckets[k]
            /\ \A s \in Scenarios : mine.stress[s] = -yours.stress[s]
  <1> DEFINE mine == Measures(flows, r, day, CurveDates)
             yours == Measures(others, r, day, CurveDates)
             pv(q) == PresentValue(flows, q, day, CurveDates)
             other(q) == PresentValue(others, q, day, CurveDates)
             up == Parallel(r, ONE_BP)
             down == Parallel(r, -ONE_BP)
  <1>1. \A q : IsMarket(q) => pv(q) \in Int /\ other(q) = -pv(q)
    BY WholeValueIsOdd
  <1>2. IsMarket(r) /\ IsMarket(up) /\ IsMarket(down)
    BY DEF IsMeasurable
  <1>3. /\ pv(r) \in Int /\ other(r) = -pv(r)
        /\ pv(up) \in Int /\ other(up) = -pv(up)
        /\ pv(down) \in Int /\ other(down) = -pv(down)
    BY <1>1, <1>2
  <1>4. mine.pv = -yours.pv
    <2>1. mine.pv = pv(r) /\ yours.pv = other(r)
      BY DEF Measures
    <2> HIDE DEF pv, other, mine, yours
    <2> QED
      BY <1>3, <2>1
  <1>5. mine.dv01 = -yours.dv01
    <2>1. /\ mine.dv01 = CentralDifference(pv(up), pv(down))
          /\ yours.dv01 = CentralDifference(other(up), other(down))
      BY DEF Measures, dv01
    <2> HIDE DEF pv, other, mine, yours
    <2>2. /\ CentralDifference(pv(up), pv(down)) \in Int
          /\ CentralDifference(-pv(up), -pv(down)) = -CentralDifference(pv(up), pv(down))
      BY <1>3, CentralDifferenceIsOdd
    <2> QED
      BY <1>3, <2>1, <2>2
  <1>6. mine.gamma = -yours.gamma
    <2>1. /\ mine.gamma = pv(up) + pv(down) - 2 * pv(r)
          /\ yours.gamma = other(up) + other(down) - 2 * other(r)
      BY DEF Measures, gamma
    <2> HIDE DEF pv, other, mine, yours
    <2> QED
      BY <1>3, <2>1
  <1>7. mine.theta = -yours.theta
    <2> DEFINE left == Outstanding(flows, day + DAY)
               carried == PresentValueAt(left, flows, r, day + DAY, CurveDates)
               given == PresentValueAt(left, others, r, day + DAY, CurveDates)
    <2>1. /\ DOMAIN others = DOMAIN flows
          /\ \A k \in DOMAIN flows : others[k].payment_date = flows[k].payment_date
      BY DEF OppositeFlows, Opposite
    <2>2. left = Outstanding(others, day + DAY) /\ left \in SUBSET (DOMAIN flows)
      BY <2>1 DEF Outstanding
    <2>3. day + DAY \in Int
      BY DayAssumption
    <2> HIDE DEF left
    <2>4. carried \in Int /\ given = -carried
      BY <1>2, <2>2, <2>3, PresentValueIsOdd
    <2>5. mine.theta = carried - pv(r) /\ yours.theta = given - other(r)
      BY <2>2 DEF Measures, theta, left
    <2> HIDE DEF pv, other, mine, yours, carried, given
    <2> QED
      BY <1>3, <2>4, <2>5
  <1>8. ASSUME NEW k \in DOMAIN r PROVE mine.buckets[k] = -yours.buckets[k]
    <2> DEFINE higher == Bucket(r, k, ONE_BP)
               lower == Bucket(r, k, -ONE_BP)
    <2>1. IsMarket(higher) /\ IsMarket(lower)
      BY DEF IsMeasurable
    <2>2. /\ mine.buckets[k] = CentralDifference(pv(higher), pv(lower))
          /\ yours.buckets[k] = CentralDifference(other(higher), other(lower))
      BY DEF Measures, bucket_dv01
    <2>3. /\ pv(higher) \in Int /\ other(higher) = -pv(higher)
          /\ pv(lower) \in Int /\ other(lower) = -pv(lower)
      BY <1>1, <2>1
    <2> HIDE DEF pv, other, mine, yours, higher, lower
    <2>4. /\ CentralDifference(pv(higher), pv(lower)) \in Int
          /\ CentralDifference(-pv(higher), -pv(lower))
               = -CentralDifference(pv(higher), pv(lower))
      BY <2>3, CentralDifferenceIsOdd
    <2> QED
      BY <2>2, <2>3, <2>4
  <1>9. ASSUME NEW s \in Scenarios PROVE mine.stress[s] = -yours.stress[s]
    <2> DEFINE q == apply_scenario(r, s)
    <2>1. pv(q) \in Int /\ other(q) = -pv(q)
      BY <1>1 DEF IsMeasurable
    <2>2. mine.stress[s] = pv(q) - pv(r) /\ yours.stress[s] = other(q) - other(r)
      BY DEF Measures, run_stress
    <2> HIDE DEF pv, other, mine, yours, q
    <2> QED
      BY <1>3, <2>1, <2>2
  <1> QED
    BY <1>4, <1>5, <1>6, <1>7, <1>8, <1>9

LEMMA WholeValueIsInt ==
  ASSUME NEW flows \in Seq(FlowSet), NEW r, IsMarket(r), NEW day \in Int
  PROVE  PresentValue(flows, r, day, CurveDates) \in Int
  BY PresentValueIsInt DEF PresentValue

-----------------------------------------------------------------------------
(* Buckets. *)

\* All dates a cashflow is valued at are up to a day.
PaysBy(cf, day) ==
  cf.payment_date <= day /\ cf.accrual_start <= day /\ cf.accrual_end <= day

\* The value of a cashflow up to a node depends on no factor after it.
LEMMA ValueBefore ==
  ASSUME NEW cf \in FlowSet, NEW day \in Int, NEW m \in 1..Len(CurveDates),
         PaysBy(cf, CurveDates[m]),
         NEW dfs, NEW others, \A j \in 1..m : others[j] = dfs[j]
  PROVE  value_cashflow(cf, day, CurveDates, others) = value_cashflow(cf, day, CurveDates, dfs)
  <1> DEFINE df(t) == interpolate_df(t, day, CurveDates, dfs)
             of(t) == interpolate_df(t, day, CurveDates, others)
  <1>1. cf.payment_date \in Int /\ cf.accrual_start \in Int /\ cf.accrual_end \in Int
    BY DEF FlowSet
  <1>2. ASSUME NEW t \in Int, t <= CurveDates[m] PROVE of(t) = df(t)
    BY <1>2, DatesAreSeq, InterpolatedBefore
  <1>3. /\ of(cf.payment_date) = df(cf.payment_date)
        /\ of(cf.accrual_start) = df(cf.accrual_start)
        /\ of(cf.accrual_end) = df(cf.accrual_end)
    BY <1>1, <1>2 DEF PaysBy
  <1> QED
    BY <1>3 DEF value_cashflow

\* Cashflows up to a node are worth the same on two curves whose rates are
\* the same up to that node.
LEMMA PresentValueBefore ==
  ASSUME NEW flows \in Seq(FlowSet), NEW day \in Int, NEW m \in 1..Len(CurveDates),
         \A f \in DOMAIN flows : PaysBy(flows[f], CurveDates[m]),
         NEW r, IsMarket(r), NEW q, IsMarket(q), \A j \in 1..m : q[j] = r[j]
  PROVE  PresentValue(flows, q, day, CurveDates) = PresentValue(flows, r, day, CurveDates)
  <1> DEFINE d == bootstrap_annual(r).dfs
             e == bootstrap_annual(q).dfs
  <1>1. \A f \in DOMAIN flows : flows[f] \in FlowSet
    BY LenProperties, ElementOfSeq
  <1>2. \A j \in 1..m : e[j] = d[j]
    <2>1. /\ r \in Seq(Nat) /\ bootstrap_annual(r).outcome = "Ok" /\ Len(q) = Len(r)
          /\ q \in Seq(Nat) /\ bootstrap_annual(q).outcome = "Ok"
      BY DEF IsMarket, Usable
    <2>2. m \in 0..Len(r)
      BY DEF IsMarket
    <2> QED
      BY ONLY <2>1, <2>2, \A j \in 1..m : q[j] = r[j], FactorsBefore
  <1> HIDE DEF d, e
  <1>3. ASSUME NEW f \in DOMAIN flows
        PROVE  value_cashflow(flows[f], day, CurveDates, e)
                 = value_cashflow(flows[f], day, CurveDates, d)
    BY <1>1, <1>2, ValueBefore
  <1>4. FlowValues(flows, day, CurveDates, e) = FlowValues(flows, day, CurveDates, d)
    BY <1>3 DEF FlowValues
  <1> QED
    BY <1>4 DEF PresentValue, PresentValueAt, value_cashflows, d, e

\* A bucket is worth nothing to cashflows that are all before it.
LEMMA BucketBefore ==
  ASSUME NEW flows \in Seq(FlowSet), NEW day \in Int, NEW r, IsMeasurable(r),
         NEW k \in 2..Len(r),
         \A f \in DOMAIN flows : PaysBy(flows[f], CurveDates[k - 1])
  PROVE  bucket_dv01(flows, r, day, CurveDates)[k] = 0
  <1> DEFINE up == Bucket(r, k, ONE_BP)
             down == Bucket(r, k, -ONE_BP)
             pv(q) == PresentValue(flows, q, day, CurveDates)
  <1>1. r \in Seq(Nat) /\ Len(r) = Len(CurveDates) /\ Len(r) \in Nat /\ DOMAIN r = 1..Len(r)
    BY LenProperties DEF IsMeasurable, IsMarket
  <1>2. k \in DOMAIN r /\ k - 1 \in 1..Len(CurveDates)
    BY <1>1
  <1>3. IsMarket(up) /\ IsMarket(down)
    BY <1>2 DEF IsMeasurable
  <1>4. ASSUME NEW j \in 1..(k - 1) PROVE up[j] = down[j]
    <2>1. j \in DOMAIN r /\ j # k
      BY <1>1
    <2> QED
      BY <2>1 DEF Bucket
  <1>5. bucket_dv01(flows, r, day, CurveDates)[k] = CentralDifference(pv(up), pv(down))
    BY <1>2 DEF bucket_dv01
  <1> HIDE DEF up, down
  <1>6. pv(up) = pv(down)
    BY <1>2, <1>3, <1>4, PresentValueBefore
  <1>7. pv(down) \in Int
    BY <1>3, WholeValueIsInt
  <1> HIDE DEF pv
  <1> QED
    BY <1>5, <1>6, <1>7 DEF CentralDifference, Quotient

-----------------------------------------------------------------------------
(* Portfolios. *)

LEMMA CentralDifferenceIsHalf ==
  ASSUME NEW up \in Int, NEW down \in Int
  PROVE  /\ CentralDifference(up, down) \in Int
         /\ 2 * CentralDifference(up, down) - (up - down) \in -1..1
  <1> DEFINE x == up - down
  <1>1. x \in Int
    OBVIOUS
  <1> HIDE DEF x
  <1>2. Quotient(x, 2) \in Int /\ 2 * Quotient(x, 2) - x \in -1..1
    BY <1>1 DEF Quotient
  <1> QED
    BY <1>2 DEF x, CentralDifference

\* The parts of a portfolio's sensitivity lose half a unit each, and so does
\* the whole.
LEMMA PartsAddUp ==
  ASSUME NEW n \in Nat, NEW flows \in [1..n -> Seq(FlowSet)], NEW r, IsMeasurable(r),
         NEW day \in Int
  PROVE  LET parts == [i \in 1..n |-> dv01(flows[i], r, day, CurveDates)]
         IN Within(2 * (PortfolioDv01(flows, r, day, CurveDates) - SumFunction(parts)), n + 1)
  <1> DEFINE S == 1..n
             up == Parallel(r, ONE_BP)
             down == Parallel(r, -ONE_BP)
             U == [i \in S |-> PresentValue(flows[i], up, day, CurveDates)]
             D == [i \in S |-> PresentValue(flows[i], down, day, CurveDates)]
             V == [i \in S |-> dv01(flows[i], r, day, CurveDates)]
             total == PortfolioDv01(flows, r, day, CurveDates)
  <1>1. IsFiniteSet(S) /\ Cardinality(S) = n
    BY FS_Interval
  <1>2. IsMarket(up) /\ IsMarket(down)
    BY DEF IsMeasurable
  <1>3. ASSUME NEW i \in S
        PROVE  /\ U[i] \in Int /\ D[i] \in Int
               /\ V[i] = CentralDifference(U[i], D[i])
    <2>1. flows[i] \in Seq(FlowSet)
      OBVIOUS
    <2>2. U[i] \in Int /\ D[i] \in Int
      BY <1>2, <2>1, WholeValueIsInt
    <2> QED
      BY <2>2 DEF dv01
  <1>4. total = CentralDifference(SumFunctionOnSet(U, S), SumFunctionOnSet(D, S))
    BY DEF PortfolioDv01, SumFunction
  <1>5. SumFunction(V) = SumFunctionOnSet(V, S)
    BY DEF SumFunction
  <1> HIDE DEF S, U, D, V, total, up, down
  <1>6. ASSUME NEW i \in S
        PROVE  V[i] \in Int /\ 2 * V[i] - (U[i] - D[i]) \in -1..1
    BY <1>3, CentralDifferenceIsHalf
  <1>7. Summable(U, S) /\ Summable(D, S) /\ Summable(V, S)
    BY <1>1, <1>3, <1>6 DEF Summable
  <1> DEFINE u == SumFunctionOnSet(U, S)
             d == SumFunctionOnSet(D, S)
             v == SumFunctionOnSet(V, S)
  <1>8. u \in Int /\ d \in Int /\ v \in Int
    BY <1>7, SumRules
  <1>9. 2 * v - (u - d) \in (-n)..n
    <2>1. 2 * v - (u - d) \in (-Cardinality(S))..Cardinality(S)
      BY ONLY <1>6, <1>7, SumHalves
    <2> QED
      BY <1>1, <2>1
  <1>10. total \in Int /\ 2 * total - (u - d) \in -1..1
    BY <1>4, <1>8, CentralDifferenceIsHalf
  <1> HIDE DEF u, d, v
  <1>11. Within(2 * (total - v), n + 1)
    BY <1>8, <1>9, <1>10 DEF Within
  <1> QED
    BY <1>5, <1>11 DEF v, V, S, total

-----------------------------------------------------------------------------
(* The tilts. *)

\* From one quantity to a larger one the quotient does not fall, and rises by
\* no more than they differ, but for a unit.
LEMMA QuotientRises ==
  ASSUME NEW x \in Int, NEW y \in Int, NEW b \in Nat \ {0}, x <= y
  PROVE  /\ 0 <= Quotient(y, b) - Quotient(x, b)
         /\ b * (Quotient(y, b) - Quotient(x, b)) <= y - x + b
  <1> DEFINE Cut(z, q) == /\ q \in Int
                          /\ z >= 0 => 0 <= q /\ b * q <= z /\ z < b * q + b
                          /\ z < 0 => q <= 0 /\ z <= b * q /\ b * q - b < z
  <1>1. ASSUME NEW z \in Int PROVE Cut(z, Quotient(z, b))
    <2>1. CASE z >= 0
      <3>1. /\ z \div b \in Int /\ b * (z \div b) <= z /\ z < b * (z \div b) + b
            /\ 0 <= z \div b
        BY <2>1, DivBounds, DivBetween
      <3> QED
        BY <2>1, <3>1 DEF Quotient
    <2>2. CASE z < 0
      <3>1. -z \in Int /\ 0 <= -z
        BY <2>2
      <3>2. PICK q \in Int : q = (-z) \div b /\ b * q <= -z /\ -z < b * q + b /\ 0 <= q
        BY <3>1, DivBounds, DivBetween
      <3>3. Quotient(z, b) = -q /\ b * (-q) = -(b * q)
        BY <2>2, <3>2 DEF Quotient
      <3> QED
        BY <2>2, <3>2, <3>3
    <2> QED
      BY <2>1, <2>2
  <1>2. PICK p, q : p = Quotient(x, b) /\ q = Quotient(y, b) /\ Cut(x, p) /\ Cut(y, q)
    BY <1>1
  <1>3. /\ p \in Int /\ q \in Int /\ b * p \in Int /\ b * q \in Int
        /\ b * (q - p) = b * q - b * p
    BY <1>2
  <1>4. b * (q - p) <= y - x + b
    BY <1>2, <1>3
  <1>5. p <= q
    <2>1. SUFFICES ASSUME q + 1 <= p PROVE FALSE
      BY <1>3
    <2>2. b * (q + 1) <= b * p /\ b * (q + 1) = b * q + b
      BY <1>3, <2>1
    <2> QED
      BY <1>2, <1>3, <2>1, <2>2
  <1> QED
    BY <1>2, <1>3, <1>4, <1>5

\* The steepener rises from a tenor to the next, at its slope.
LEMMA SteepenerRises ==
  ASSUME NEW t \in Nat
  PROVE  LET step == Steepener(t + 1) - Steepener(t)
         IN 0 <= step /\ (8 * YEAR) * step <= 100 * ONE_BP + 8 * YEAR
  <1>1. ONE_BP \in Nat /\ YEAR \in Nat \ {0} /\ 8 * YEAR \in Nat \ {0} /\ t + 1 \in Nat
    BY RiskAssumption
  <1>2. Along(t) \in Nat /\ (Along(t + 1) = Along(t) \/ Along(t + 1) = Along(t) + 1)
    BY <1>1 DEF Along
  <1>3. Tilt(t) \in Int /\ Tilt(t + 1) \in Int
        /\ Tilt(t) <= Tilt(t + 1) /\ Tilt(t + 1) - Tilt(t) <= 100 * ONE_BP
    <2>1. PICK m \in Nat, n \in Nat : m = Along(t) /\ n = Along(t + 1) /\ (n = m \/ n = m + 1)
      BY <1>2
    <2>2. m * ONE_BP \in Int /\ (n * ONE_BP = m * ONE_BP \/ n * ONE_BP = m * ONE_BP + ONE_BP)
      BY <1>1, <2>1
    <2>3. YEAR * ONE_BP \in Int
      BY <1>1
    <2> QED
      BY <1>1, <2>1, <2>2, <2>3 DEF Tilt
  <1>4. PICK x \in Int, y \in Int : x = Tilt(t) /\ y = Tilt(t + 1) /\ x <= y /\ y - x <= 100 * ONE_BP
    BY <1>3
  <1>5. Steepener(t) = Quotient(x, 8 * YEAR) /\ Steepener(t + 1) = Quotient(y, 8 * YEAR)
    BY <1>1, <1>4, TiltIs
  <1>6. /\ 0 <= Quotient(y, 8 * YEAR) - Quotient(x, 8 * YEAR)
        /\ (8 * YEAR) * (Quotient(y, 8 * YEAR) - Quotient(x, 8 * YEAR)) <= y - x + 8 * YEAR
    BY <1>1, <1>4, QuotientRises
  <1>7. Quotient(x, 8 * YEAR) \in Int /\ Quotient(y, 8 * YEAR) \in Int
    BY <1>1, QuotientIsOdd
  <1>8. PICK z \in Int : z = Quotient(y, 8 * YEAR) - Quotient(x, 8 * YEAR)
    BY <1>7
  <1>9. (8 * YEAR) * z \in Int
    BY <1>1
  <1> QED
    BY <1>1, <1>4, <1>5, <1>6, <1>8, <1>9

LEMMA TiltsMirror == rates \in Curves => TwistsMirror
  <1> SUFFICES ASSUME rates \in Curves, NEW k \in DOMAIN rates, NEW t \in 0..(12 * YEAR)
               PROVE  Tilted(rates[k],
                             Shifted(rates[k], Bump("Steepening", t)),
                             Shifted(rates[k], Bump("Flattening", t)),
                             Shifted(rates[k], Bump("Steepening", t + 1)))
    BY DEF TwistsMirror
  <1>1. PICK r \in Nat : r = rates[k]
    BY RatesFit, LenProperties, ElementOfSeq DEF FitsCurve
  <1>2. /\ t \in Nat /\ t + 1 \in Nat /\ ONE_BP \in Nat /\ 50 * ONE_BP \in Nat
        /\ 8 * YEAR \in Nat \ {0}
    BY RiskAssumption
  <1>3. PICK a \in Int, b \in Int :
          /\ a = Steepener(t) /\ b = Steepener(t + 1) /\ Flattener(t) = -a
          /\ -(50 * ONE_BP) <= a /\ a <= 50 * ONE_BP
          /\ 0 <= b - a /\ (8 * YEAR) * (b - a) <= 100 * ONE_BP + 8 * YEAR
    BY <1>2, TiltIsInt, SteepenerRises
  <1>4. /\ Bump("Steepening", t) = a /\ Bump("Flattening", t) = -a
        /\ Bump("Steepening", t + 1) = b
    BY <1>3 DEF Bump
  <1>5. PICK up \in Nat, down \in Nat, next \in Nat :
          up = Shifted(r, a) /\ down = Shifted(r, -a) /\ next = Shifted(r, b)
    <2>1. -a \in Int
      OBVIOUS
    <2>2. Shifted(r, a) \in Nat /\ Shifted(r, -a) \in Nat /\ Shifted(r, b) \in Nat
      BY <2>1, ShiftedIsNat
    <2> QED
      BY <2>2
  <1>6. /\ up + down >= 2 * r
        /\ (up > 0 /\ down > 0) => up + down = 2 * r
    BY <1>5 DEF Shifted
  <1>7. 0 <= next - up /\ next - up <= b - a
    BY <1>3, <1>5 DEF Shifted
  <1>8. 8 * YEAR * (next - up) <= 100 * ONE_BP + 8 * YEAR
    <2>1. \A m, x, y \in Int : (0 <= m /\ x <= y) => m * x <= m * y /\ m * x \in Int /\ m * y \in Int
      OBVIOUS
    <2>2. (8 * YEAR) * (next - up) <= (8 * YEAR) * (b - a)
          /\ (8 * YEAR) * (next - up) \in Int /\ (8 * YEAR) * (b - a) \in Int
      BY <1>2, <1>7, <2>1
    <2> QED
      BY <1>2, <1>3, <2>2
  <1>9. AbsoluteOf(up - r) <= 50 * ONE_BP
    BY <1>2, <1>3, <1>5 DEF Shifted, AbsoluteOf
  <1>10. /\ Shifted(rates[k], Bump("Steepening", t)) = up
         /\ Shifted(rates[k], Bump("Flattening", t)) = down
         /\ Shifted(rates[k], Bump("Steepening", t + 1)) = next
    BY <1>1, <1>4, <1>5
  <1>11. Tilted(r, up, down, next)
    BY <1>6, <1>7, <1>8, <1>9 DEF Tilted
  <1> QED
    BY <1>1, <1>10, <1>11

-----------------------------------------------------------------------------
(* Why the dates of a trade fail it. *)

\* A period that ends before it starts is the only one of its term, which is
\* over before the first midnight after its start.
LEMMA ShortTerm ==
  ASSUME NEW t, IsTerm(t), NEW dates, IsScheduleOf(t, dates), NEW i \in DOMAIN dates,
         ~(dates[i] >= AccrualStart(t, dates, i))
  PROVE  Midnight(t.end) < t.start
  <1>1. /\ t.start \in Int /\ t.end \in Int
        /\ dates \in Seq(Int) /\ DOMAIN dates = 1..Len(dates) /\ Len(dates) \in Nat
    BY LenProperties DEF IsTerm, IsScheduleOf
  <1>2. Midnight(t.end) \in Int /\ Midnight(t.end) <= t.end
    BY <1>1, InstantsRoundTrip
  <1>3. i \in 1..Len(dates) /\ dates[i] \in Int
    BY <1>1, ElementOfSeq
  <1>4. CASE t.frequency = 0
    <2>1. dates = <<t.end>>
      BY <1>4 DEF IsScheduleOf
    <2>2. i = 1 /\ dates[i] = t.end /\ AccrualStart(t, dates, i) = t.start
      BY <2>1 DEF AccrualStart
    <2> QED
      BY <1>1, <1>2, <2>2
  <1>5. CASE t.frequency # 0 /\ i = 1
    <2>1. AccrualStart(t, dates, i) = t.start
      BY <1>5 DEF AccrualStart
    <2>2. dates[1] < t.start
      BY <1>1, <1>3, <1>5, <2>1
    <2>3. ~(1 \in 1..(Len(dates) - 1))
      BY <1>1, <1>3, <1>5, <2>2 DEF IsScheduleOf
    <2>4. Len(dates) = 1
      BY <1>1, <1>3, <2>3
    <2> QED
      BY <1>5, <2>2, <2>4 DEF IsScheduleOf
  <1>6. CASE t.frequency # 0 /\ i # 1
    <2>1. i \in 2..Len(dates) /\ AccrualStart(t, dates, i) = dates[i - 1]
      BY <1>1, <1>3, <1>6 DEF AccrualStart
    <2>2. i - 1 \in 1..Len(dates)
      BY <1>1, <2>1
    <2>3. dates[i - 1] \in Int /\ dates[i - 1] < dates[i]
      BY <1>1, <2>1, <2>2, ElementOfSeq DEF IsScheduleOf
    <2> QED
      BY <1>3, <2>1, <2>3
  <1> QED
    BY <1>4, <1>5, <1>6

LEMMA ShortTermPanics ==
  ASSUME ScheduleInv, stage = "returned", NEW legs, ~Accruable(legs)
  PROVE  Midnight(term.end) < term.start
  <1>1. PICK i \in DOMAIN schedule : ~(schedule[i] >= AccrualStart(term, schedule, i))
    BY DEF Accruable
  <1>2. IsTerm(term) /\ IsScheduleOf(term, schedule)
    BY ReturnedIsSchedule DEF ScheduleInv
  <1> QED
    BY <1>1, <1>2, ShortTerm

\* Only a note has a leg with a spread.
LEMMA SpreadLegs ==
  ASSUME NEW t \in Trades, NEW k \in DOMAIN LegsOf(t), LegsOf(t)[k].spread # 0
  PROVE  t.product = "frn" /\ t.rate # 0
  <1> DEFINE Plain(leg) == leg.spread = 0
  <1>1. ASSUME NEW u, NEW j \in 1..2 PROVE Swap(u)[j].spread = 0
    BY DEF Swap, FixedLeg, FloatingLeg, SimpleLeg
  <1>2. DOMAIN Swap(t) = 1..2 /\ DOMAIN Swap([t EXCEPT !.payer = TRUE]) = 1..2
    BY DEF Swap
  <1>3. t.product \in Products
    BY TradeTypes
  <1>4. CASE t.product \in {"irs", "zero_coupon_swap"}
    <2>1. LegsOf(t) = Swap(t)
      BY <1>4 DEF LegsOf
    <2> QED
      BY <1>1, <1>2, <2>1
  <1>5. CASE t.product = "fra"
    <2>1. LegsOf(t) = Swap([t EXCEPT !.payer = TRUE])
      BY <1>5 DEF LegsOf
    <2> QED
      BY <1>1, <1>2, <2>1
  <1>6. CASE t.product = "amortizing_irs"
    <2> DEFINE u == [t EXCEPT !.notional = t.notionals[1]]
    <2>1. LegsOf(t) = [j \in 1..2 |-> [Swap(u)[j] EXCEPT !.notional_schedule = t.notionals]]
      BY <1>6 DEF LegsOf, amortizing_irs
    <2> HIDE DEF u
    <2>2. ASSUME NEW j \in 1..2
          PROVE  [Swap(u)[j] EXCEPT !.notional_schedule = t.notionals].spread = 0
      BY DEF Swap, FixedLeg, FloatingLeg, SimpleLeg
    <2> QED
      BY <2>1, <2>2
  <1>7. CASE t.product = "xccy_swap"
    <2>1. LegsOf(t) = xccy_swap(t)
      BY <1>7 DEF LegsOf
    <2>2. /\ ExchangingBoth(FixedLeg(t.currency, t.notional, t.rate, -1)).spread = 0
          /\ ExchangingBoth(FloatingLeg(t.other, t.notionals[1], 0, 1)).spread = 0
      BY DEF ExchangingBoth, ExchangingEnd, FixedLeg, FloatingLeg, SimpleLeg
    <2>3. k = 1 \/ k = 2
      BY <2>1 DEF xccy_swap
    <2>4. LegsOf(t)[k].spread = 0
      BY <2>1, <2>2, <2>3 DEF xccy_swap
    <2> QED
      BY <2>4
  <1>8. CASE t.product = "fixed_rate_bond"
    <2>1. LegsOf(t) = <<ExchangingEnd(FixedLeg(t.currency, t.notional, t.rate, 1))>>
      BY <1>8 DEF LegsOf
    <2>2. LegsOf(t)[k].spread = 0
      BY <2>1 DEF ExchangingEnd, FixedLeg, SimpleLeg
    <2> QED
      BY <2>2
  <1>9. CASE t.product = "frn"
    <2>1. LegsOf(t) = <<ExchangingEnd(FloatingLeg(t.currency, t.notional, t.rate, 1))>>
      BY <1>9 DEF LegsOf
    <2>2. LegsOf(t)[k].spread = t.rate
      BY <2>1 DEF ExchangingEnd, FloatingLeg, SimpleLeg
    <2> QED
      BY <1>9, <2>2
  <1> QED
    BY <1>3, <1>4, <1>5, <1>6, <1>7, <1>8, <1>9 DEF Products

\* A spread that does not accrue is that of a note over a short term.
LEMMA ShortNote ==
  ASSUME NEW t \in Trades, HasInitial(t), NEW dates, IsScheduleOf(TermOf(t), dates),
         NEW f \in DOMAIN build_trade(LegsOf(t), TermOf(t), dates),
         ~Accrues(build_trade(LegsOf(t), TermOf(t), dates)[f])
  PROVE  t.product = "frn" /\ t.rate # 0 /\ Midnight(t.end) < t.start
  <1> DEFINE short == t.product = "frn" /\ t.rate # 0 /\ Midnight(t.end) < t.start
             S == {cf \in FlowSet : Accrues(cf) \/ short}
             u == TermOf(t)
  <1>1. dates \in Seq(Int) /\ IsTerm(u) /\ u.start = t.start /\ u.end = t.end
    BY TermTypes DEF IsScheduleOf, TermOf
  <1>2. DOMAIN dates = 1..Len(dates)
    BY <1>1, LenProperties
  <1>3. PICK n \in {1, 2} : LegsOf(t) \in [1..n -> LegSet]
    BY LegsTypes
  <1>4. ASSUME NEW k \in DOMAIN LegsOf(t), NEW i \in 1..Len(dates)
        PROVE  PeriodFlow(LegsOf(t)[k], u, dates, i) \in S
    <2>1. PICK leg \in LegSet : leg = LegsOf(t)[k]
      BY <1>3
    <2>2. PICK cf : cf = PeriodFlow(leg, u, dates, i)
      OBVIOUS
    <2>3. cf \in FlowSet /\ AccrualStart(u, dates, i) \in Int /\ dates[i] \in Int
      BY <1>1, <2>2, PeriodFlowTypes
    <2>4. /\ cf.accrual_start = AccrualStart(u, dates, i) /\ cf.accrual_end = dates[i]
          /\ cf.cf_type = leg.leg_type
          /\ cf.spread = IF leg.leg_type = "Fixed" THEN 0 ELSE leg.spread
      BY <2>2, PeriodFlowIs
    <2>5. ASSUME ~Accrues(cf) PROVE short
      <3>1. leg.spread # 0 /\ ~(dates[i] >= AccrualStart(u, dates, i))
        BY <2>3, <2>4, <2>5 DEF Accrues
      <3>2. t.product = "frn" /\ t.rate # 0
        BY <2>1, <3>1, SpreadLegs
      <3>3. Midnight(u.end) < u.start
        BY <1>1, <1>2, <3>1, ShortTerm
      <3> QED
        BY <1>1, <3>2, <3>3
    <2> QED
      BY <2>1, <2>2, <2>3, <2>5
  <1>5. ASSUME NEW k \in DOMAIN LegsOf(t)
        PROVE  build_leg(LegsOf(t)[k], u, dates) \in Seq(S)
    <2>1. PICK leg \in LegSet : leg = LegsOf(t)[k]
      BY <1>3
    <2>2. ASSUME NEW date \in {u.start, u.end}
          PROVE  Flow("NotionalExchange", leg.direction, date, leg.notional) \in S
      <3>1. Flow("NotionalExchange", leg.direction, date, leg.notional) \in FlowSet
        BY <1>1, ExchangeTypes DEF IsTerm
      <3>2. Accrues(Flow("NotionalExchange", leg.direction, date, leg.notional))
        BY DEF Accrues, Flow
      <3> QED
        BY <3>1, <3>2
    <2>3. \A i \in 1..Len(dates) : PeriodFlow(leg, u, dates, i) \in S
      BY <1>4, <2>1
    <2> HIDE DEF S, u
    <2>4. FlowsAreIn(S, leg, u, dates)
      BY <2>2, <2>3 DEF FlowsAreIn
    <2>5. build_leg(leg, u, dates) \in Seq(S)
      BY <1>1, <2>4, LegIsLaid
    <2> QED
      BY <2>1, <2>5
  <1> HIDE DEF S
  <1>6. build_trade(LegsOf(t), u, dates) \in Seq(S)
    BY <1>1, <1>5, TradeIsLaid
  <1>7. build_trade(LegsOf(t), u, dates)[f] \in S
    BY <1>6, LenProperties, ElementOfSeq
  <1> QED
    BY <1>7 DEF S

-----------------------------------------------------------------------------
(* Swaps at the rates of the curve. *)

\* The legs of a plain swap, flat over their periods.
LEMMA PlainLegs ==
  ASSUME NEW t \in Trades, t.product = "irs", NEW i \in Nat \ {0}
  PROVE  LET fixed == LegsOf(t)[1]
             floating == LegsOf(t)[2]
             s == PayDirection(t.payer)
         IN /\ s \in {-1, 1} /\ LegsOf(t) \in [1..2 -> LegSet]
            /\ fixed.leg_type = "Fixed" /\ fixed.direction = s
            /\ fixed.day_count = DayCount[t.currency]
            /\ Stepped(fixed.notional_schedule, i, fixed.notional) = t.notional
            /\ Stepped(fixed.rate_schedule, i, fixed.fixed_rate) = t.rate
            /\ floating.leg_type = "Floating" /\ floating.direction = -s /\ floating.spread = 0
            /\ Stepped(floating.notional_schedule, i, floating.notional) = t.notional
            /\ \A k \in 1..2 : /\ LegsOf(t)[k].exchange_notional_start = FALSE
                               /\ LegsOf(t)[k].exchange_notional_end = FALSE
  <1>1. /\ t.currency \in DOMAIN DayCount /\ t.notional \in Nat /\ t.rate \in Nat
        /\ t.payer \in BOOLEAN
    BY TradeTypes
  <1>2. LegsOf(t) = Swap(t)
    BY DEF LegsOf
  <1>3. /\ Swap(t) = << FixedLeg(t.currency, t.notional, t.rate, PayDirection(t.payer)),
                        FloatingLeg(t.currency, t.notional, 0, -PayDirection(t.payer)) >>
        /\ Swap(t) \in [1..2 -> LegSet]
    BY <1>1, SwapTypes
  <1>4. Swap(t)[1].direction = PayDirection(t.payer) /\ Swap(t)[1] \in LegSet
    <2>1. Swap(t)[1] \in LegSet
      BY <1>3
    <2>2. Swap(t)[1] = FixedLeg(t.currency, t.notional, t.rate, PayDirection(t.payer))
      BY <1>3
    <2> QED
      BY <2>1, <2>2 DEF FixedLeg, SimpleLeg
  <1>5. PayDirection(t.payer) \in {-1, 1}
    BY <1>4 DEF LegSet
  <1>6. \A steps : steps = <<>> => \A flat : Stepped(steps, i, flat) = flat
    BY EmptySeq DEF Stepped
  <1> QED
    BY <1>2, <1>3, <1>5, <1>6 DEF FixedLeg, FloatingLeg, SimpleLeg

\* The cashflows of a plain swap: the fixed leg's, then the floating leg's.
PlainFlows(flows, t, dates) ==
  LET n == Len(dates)
      s == PayDirection(t.payer)
      from(k) == AccrualStart(TermOf(t), dates, k)
  IN /\ Len(flows) = n + n
     /\ \A k \in 1..n :
          /\ flows[k].cf_type = "Fixed"
          /\ flows[k].payment_date = dates[k]
          /\ flows[k].fixed_amount
               = s * ray_mul(ray_mul(t.notional, t.rate),
                             year_fraction(DayCount[t.currency], from(k), dates[k]))
          /\ flows[n + k].cf_type = "Floating"
          /\ flows[n + k].direction = -s
          /\ flows[n + k].notional = t.notional
          /\ flows[n + k].spread = 0
          /\ flows[n + k].payment_date = dates[k]
          /\ flows[n + k].accrual_start = from(k)
          /\ flows[n + k].accrual_end = dates[k]

LEMMA SwapFlows ==
  ASSUME NEW t \in Trades, t.product = "irs", NEW dates \in Seq(Int)
  PROVE  PlainFlows(build_trade(LegsOf(t), TermOf(t), dates), t, dates)
  <1> DEFINE n == Len(dates)
             a == PeriodFlows(LegsOf(t)[1], TermOf(t), dates)
             b == PeriodFlows(LegsOf(t)[2], TermOf(t), dates)
             c == [k \in 1..2 |-> build_leg(LegsOf(t)[k], TermOf(t), dates)]
             flows == build_trade(LegsOf(t), TermOf(t), dates)
  <1>1. /\ LegsOf(t) \in [1..2 -> LegSet] /\ IsTerm(TermOf(t))
        /\ \A k \in 1..2 : /\ LegsOf(t)[k].exchange_notional_start = FALSE
                           /\ LegsOf(t)[k].exchange_notional_end = FALSE
    <2>1. 1 \in Nat \ {0}
      OBVIOUS
    <2> QED
      BY <2>1, PlainLegs, TermTypes
  <1>2. /\ c[1] = a /\ c[2] = b /\ a \in Seq(FlowSet) /\ b \in Seq(FlowSet)
        /\ Len(a) = n /\ Len(b) = n
    <2>1. LegsOf(t)[1] \in LegSet /\ LegsOf(t)[2] \in LegSet
      BY <1>1
    <2>2. ASSUME NEW k \in 1..2
          PROVE  LET flows_k == PeriodFlows(LegsOf(t)[k], TermOf(t), dates)
                 IN c[k] = flows_k /\ flows_k \in Seq(FlowSet) /\ Len(flows_k) = n
      <3>1. PICK leg \in LegSet : leg = LegsOf(t)[k]
        BY <1>1
      <3>2. leg.exchange_notional_start = FALSE /\ leg.exchange_notional_end = FALSE
        BY <1>1, <3>1
      <3>3. /\ build_leg(leg, TermOf(t), dates) = PeriodFlows(leg, TermOf(t), dates)
            /\ PeriodFlows(leg, TermOf(t), dates) \in Seq(FlowSet)
            /\ Len(PeriodFlows(leg, TermOf(t), dates)) = n
        BY <1>1, <3>2, BuildLegTypes
      <3> QED
        BY <3>1, <3>3
    <2>3. 1 \in 1..2 /\ 2 \in 1..2
      OBVIOUS
    <2> HIDE DEF c
    <2> QED
      BY <2>2, <2>3
  <1>3. flows = FlattenSeq(c)
    BY <1>1 DEF build_trade
  <1>4. c \in [1..2 -> Seq(FlowSet)]
    BY <1>2
  <1>5. n \in Nat /\ DOMAIN dates = 1..n
    BY LenProperties
  <1>6. \A k \in 1..n : /\ a[k] = PeriodFlow(LegsOf(t)[1], TermOf(t), dates, k)
                        /\ b[k] = PeriodFlow(LegsOf(t)[2], TermOf(t), dates, k)
    BY <1>5 DEF PeriodFlows
  <1> HIDE DEF a, b, c, flows
  <1>7. flows = a \o b
    <2>1. 2 \in {1, 2} /\ 2 # 1
      OBVIOUS
    <2>2. FlattenSeq(c) = c[1] \o c[2]
      BY <1>4, <2>1, FlattenShort
    <2> QED
      BY <1>2, <1>3, <2>2
  <1>8. Len(flows) = n + n /\ \A k \in 1..n : flows[k] = a[k] /\ flows[n + k] = b[k]
    <2>1. /\ Len(a \o b) = n + n
          /\ \A k \in 1..(n + n) : (a \o b)[k] = IF k <= n THEN a[k] ELSE b[k - n]
      <3>1. /\ Len(a \o b) = Len(a) + Len(b)
            /\ \A k \in 1..(Len(a) + Len(b)) :
                 (a \o b)[k] = IF k <= Len(a) THEN a[k] ELSE b[k - Len(a)]
        <4>1. a \in Seq(FlowSet) /\ b \in Seq(FlowSet)
          BY <1>2
        <4> QED
          BY ONLY <4>1, ConcatProperties
      <3> QED
        BY <1>2, <3>1
    <2>2. ASSUME NEW k \in 1..n
          PROVE  /\ k \in 1..(n + n) /\ n + k \in 1..(n + n)
                 /\ k <= n /\ ~(n + k <= n) /\ n + k - n = k
      BY <1>5
    <2>3. ASSUME NEW k \in 1..n PROVE flows[k] = a[k] /\ flows[n + k] = b[k]
      <3>1. /\ (a \o b)[k] = IF k <= n THEN a[k] ELSE b[k - n]
            /\ (a \o b)[n + k] = IF n + k <= n THEN a[n + k] ELSE b[n + k - n]
        BY <2>1, <2>2
      <3> QED
        BY <1>7, <2>2, <3>1
    <2> QED
      BY <1>7, <2>1, <2>3
  <1>9. ASSUME NEW k \in 1..n
        PROVE  LET from == AccrualStart(TermOf(t), dates, k)
                   s == PayDirection(t.payer)
               IN /\ a[k].cf_type = "Fixed"
                  /\ a[k].payment_date = dates[k]
                  /\ a[k].fixed_amount
                       = s * ray_mul(ray_mul(t.notional, t.rate),
                                     year_fraction(DayCount[t.currency], from, dates[k]))
                  /\ b[k].cf_type = "Floating"
                  /\ b[k].direction = -s
                  /\ b[k].notional = t.notional
                  /\ b[k].spread = 0
                  /\ b[k].payment_date = dates[k]
                  /\ b[k].accrual_start = from
                  /\ b[k].accrual_end = dates[k]
    <2>1. k \in Nat \ {0}
      BY <1>5
    <2>2. LegsOf(t)[1] \in LegSet /\ LegsOf(t)[2] \in LegSet
      BY <1>1
    <2>3. PICK f : f = LegsOf(t)[1]
      OBVIOUS
    <2>4. PICK g : g = LegsOf(t)[2]
      OBVIOUS
    <2>5. /\ f.leg_type = "Fixed" /\ f.direction = PayDirection(t.payer)
          /\ f.day_count = DayCount[t.currency]
          /\ Stepped(f.notional_schedule, k, f.notional) = t.notional
          /\ Stepped(f.rate_schedule, k, f.fixed_rate) = t.rate
          /\ g.leg_type = "Floating" /\ g.direction = -PayDirection(t.payer) /\ g.spread = 0
          /\ Stepped(g.notional_schedule, k, g.notional) = t.notional
      BY <2>1, <2>3, <2>4, PlainLegs
    <2>6. a[k] = PeriodFlow(f, TermOf(t), dates, k) /\ b[k] = PeriodFlow(g, TermOf(t), dates, k)
      BY <1>6, <2>3, <2>4
    <2>7. f \in LegSet /\ g \in LegSet
      BY <2>2, <2>3, <2>4
    <2>8. "Floating" # "Fixed"
      OBVIOUS
    <2> QED
      BY <2>5, <2>6, <2>7, <2>8, PeriodFlowIs DEF FixedAmount
  <1> QED
    BY <1>8, <1>9 DEF flows, PlainFlows

\* A value near its target is near it with both signs turned.
LEMMA SignedNear ==
  ASSUME NEW s \in {-1, 1}, NEW m \in Int, NEW w \in Int, NEW x \in Int, NEW e \in Int,
         m * w - x <= e, -e <= m * w - x
  PROVE  s * w \in Int /\ s * x \in Int /\ m * (s * w) - s * x <= e /\ -e <= m * (s * w) - s * x
  <1>1. m * w \in Int
    OBVIOUS
  <1>2. CASE s = 1
    <2>1. s * w = w /\ s * x = x
      BY <1>2
    <2> QED
      BY <2>1
  <1>3. CASE s = -1
    <2>1. s * w = -w /\ s * x = -x
      BY <1>3
    <2>2. m * (-w) = -(m * w)
      OBVIOUS
    <2> QED
      BY <1>1, <2>1, <2>2
  <1> QED
    BY <1>2, <1>3

\* The value of a fixed payment over a whole year, but for its two roundings.
LEMMA FixedNear ==
  ASSUME NEW N \in Nat, NEW r \in Nat, NEW d \in 1..RAY, N * r + HALF_RAY < RAY * WORD
  PROVE  LET c == ray_mul(N, r)
             w == ray_mul(c, d)
             m == 2 * (RAY * RAY)
         IN /\ c \in Nat /\ w \in Int
            /\ m * w - (2 * (N * r)) * d <= m /\ -m <= m * w - (2 * (N * r)) * d
  <1> DEFINE c == ray_mul(N, r)
             w == ray_mul(c, d)
  <1>1. RAY \in Nat \ {0} /\ RAY \in Int /\ N \in Int /\ r \in Int /\ d \in Int /\ N * r \in Nat
    BY RayAssumption
  <1>2. HALF_RAY \in Nat \ {0} /\ HALF_RAY + HALF_RAY = RAY
    BY HalfRay
  <1>3. c \in Int /\ RAY * c <= N * r + HALF_RAY /\ N * r - HALF_RAY < RAY * c
    BY <1>1, RayMulNearest
  <1>4. c \in Nat /\ c < WORD
    BY <1>1, RayMulWord
  <1> HIDE DEF c
  <1>5. w \in Int /\ RAY * w <= c * d + HALF_RAY /\ c * d - HALF_RAY < RAY * w
    <2>1. d \in 0..RAY /\ d \in Nat /\ c * d = d * c
      BY <1>1, <1>4
    <2>2. d * c + HALF_RAY < RAY * WORD
      BY <1>4, <2>1, ShareFits
    <2>3. c * d + HALF_RAY < RAY * WORD
      BY <2>1, <2>2
    <2>4. w \in Nat /\ RAY * w <= c * d + HALF_RAY /\ c * d - HALF_RAY < RAY * w
      BY <1>4, <2>1, <2>3, RayMulNearest
    <2> QED
      BY <2>4
  <1> HIDE DEF w
  <1>6. PICK P \in Int : P = N * r
    BY <1>1
  <1>7. PICK H \in Nat : H = HALF_RAY
    BY <1>2
  <1>8. /\ (RAY * c) * d <= (P + H) * d /\ (P - H) * d <= (RAY * c) * d
        /\ (RAY * c) * d \in Int
    <2>1. PICK y \in Int : y = RAY * c
      BY <1>1, <1>3
    <2>2. y <= P + H /\ P - H <= y /\ P + H \in Int /\ P - H \in Int /\ d \in Nat
      BY <1>3, <1>6, <1>7, <2>1
    <2>3. y * d <= (P + H) * d /\ (P - H) * d <= y * d /\ y * d \in Int
      BY ONLY <2>2, y \in Int, SMT
    <2> QED
      BY <2>1, <2>3
  <1>9. /\ (P + H) * d = P * d + H * d /\ (P - H) * d = P * d - H * d
        /\ P * d \in Int /\ H * d \in Int
    BY ONLY P \in Int, H \in Nat, d \in Int, <1>1, SMT
  <1>10. /\ RAY * (RAY * w) <= RAY * (c * d) + RAY * H
         /\ RAY * (c * d) - RAY * H <= RAY * (RAY * w)
         /\ RAY * (RAY * w) \in Int /\ RAY * H \in Int
    <2>1. PICK y \in Int : y = RAY * w
      BY <1>1, <1>5
    <2>2. PICK z \in Int : z = c * d
      BY <1>1, <1>3
    <2>3. y <= z + H /\ z - H <= y
      BY <1>5, <1>7, <2>1, <2>2
    <2>4. RAY * y <= RAY * (z + H) /\ RAY * (z - H) <= RAY * y
      BY ONLY <2>3, <1>1, y \in Int, z \in Int, H \in Nat, SMT
    <2>5. /\ RAY * (z + H) = RAY * z + RAY * H /\ RAY * (z - H) = RAY * z - RAY * H
          /\ RAY * y \in Int /\ RAY * H \in Int
      BY ONLY <1>1, y \in Int, z \in Int, H \in Nat, SMT
    <2> QED
      BY <2>1, <2>2, <2>4, <2>5
  <1>11. RAY * (c * d) = (RAY * c) * d
    BY ONLY <1>1, <1>3, SMT
  <1>12. H * d <= H * RAY /\ H * RAY = RAY * H /\ RAY * H + RAY * H = RAY * RAY
    <2>1. H + H = RAY /\ d <= RAY
      BY <1>2, <1>7
    <2>2. H * d <= H * RAY /\ H * RAY = RAY * H
      BY ONLY <2>1, <1>1, H \in Nat, SMT
    <2>3. RAY * (H + H) = RAY * H + RAY * H
      BY ONLY <1>1, H \in Nat, SMT
    <2> QED
      BY <2>1, <2>2, <2>3
  <1>13. (2 * (RAY * RAY)) * w = 2 * (RAY * (RAY * w)) /\ (2 * (N * r)) * d = 2 * (P * d)
    <2>1. (2 * (RAY * RAY)) * w = 2 * (RAY * (RAY * w))
      BY ONLY <1>1, <1>5, SMT
    <2>2. (2 * P) * d = 2 * (P * d)
      BY ONLY <1>1, P \in Int, SMT
    <2> QED
      BY <1>6, <2>1, <2>2
  <1>14. RAY * RAY \in Int
    BY <1>1
  <1>15. /\ (2 * (RAY * RAY)) * w - (2 * (N * r)) * d <= 2 * (RAY * RAY)
         /\ -(2 * (RAY * RAY)) <= (2 * (RAY * RAY)) * w - (2 * (N * r)) * d
    BY <1>8, <1>9, <1>10, <1>11, <1>12, <1>13, <1>14
  <1> QED
    BY <1>4, <1>5, <1>15 DEF c, w

\* A quotient cut toward zero is within one of the quantity.
LEMMA QuotientNear ==
  ASSUME NEW x \in Int, NEW b \in Nat \ {0}
  PROVE  /\ Quotient(x, b) \in Int
         /\ b * Quotient(x, b) - x <= b /\ -b <= b * Quotient(x, b) - x
  <1>1. -x \in Int
    OBVIOUS
  <1>2. /\ x \div b \in Int /\ b * (x \div b) <= x /\ x < b * (x \div b) + b
        /\ (-x) \div b \in Int /\ b * ((-x) \div b) <= -x /\ -x < b * ((-x) \div b) + b
    BY <1>1, DivBounds
  <1>3. CASE x >= 0
    <2>1. Quotient(x, b) = x \div b
      BY <1>3 DEF Quotient
    <2> QED
      BY <1>2, <2>1
  <1>4. CASE ~(x >= 0)
    <2>1. PICK q \in Int : q = (-x) \div b
      BY <1>2
    <2>2. Quotient(x, b) = -q
      BY <1>4, <2>1 DEF Quotient
    <2>3. b * (-q) = -(b * q) /\ b * q \in Int
      OBVIOUS
    <2> QED
      BY <1>2, <2>1, <2>2, <2>3
  <1> QED
    BY <1>3, <1>4

\* The factor before the factor of a year: one, for the first year.
Previous(d, k) == IF k = 1 THEN RAY ELSE d[k - 1]

\* What the flows of a swap over the first years of a curve are worth: the
\* fixed ones, and then the floating ones.
ParValues(V, d, n, N, r, s) ==
  \A k \in 1..n :
    /\ V[k] = ray_mul_signed(s * ray_mul(N, r), d[k])
    /\ V[n + k] = Quotient((-s) * (Previous(d, k) - d[k]) * N, RAY)

LEMMA FixedStep ==
  ASSUME NEW N \in Nat, NEW r \in Nat, NEW s \in {-1, 1}, NEW d \in 1..RAY,
         N * r + HALF_RAY < RAY * WORD,
         NEW v, v = ray_mul_signed(s * ray_mul(N, r), d)
  PROVE  LET m == 2 * (RAY * RAY)
             x == s * ((2 * (N * r)) * d)
         IN v \in Int /\ x \in Int /\ m * v - x <= m /\ -m <= m * v - x
  <1> DEFINE c == ray_mul(N, r)
             w == ray_mul(c, d)
             m == 2 * (RAY * RAY)
             y == (2 * (N * r)) * d
  <1>1. c \in Nat /\ w \in Int /\ m * w - y <= m /\ -m <= m * w - y
    BY FixedNear
  <1>2. m \in Int /\ y \in Int /\ d \in Int
    BY RayAssumption
  <1>3. v = s * w
    <2>1. v = ray_mul_signed(s * c, d)
      OBVIOUS
    <2> HIDE DEF c
    <2>2. ray_mul_signed(c, d) = w
      BY <1>1 DEF ray_mul_signed
    <2>3. c \in Int
      BY <1>1
    <2>4. ray_mul_signed(-c, d) = -ray_mul_signed(c, d)
      BY <1>2, <2>3, RayMulSignedIsOdd
    <2> HIDE DEF w
    <2>5. CASE s = 1
      <3>1. s * c = c /\ s * w = w
        BY <1>1, <2>3, <2>5
      <3> QED
        BY <2>1, <2>2, <3>1
    <2>6. CASE s = -1
      <3>1. s * c = -c /\ s * w = -w
        BY <1>1, <2>3, <2>6
      <3> QED
        BY <2>1, <2>2, <2>4, <3>1
    <2> QED
      BY <2>5, <2>6
  <1> HIDE DEF w, m, y
  <1>4. s * w \in Int /\ s * y \in Int /\ m * (s * w) - s * y <= m /\ -m <= m * (s * w) - s * y
    BY <1>1, <1>2, SignedNear
  <1> QED
    BY <1>3, <1>4 DEF m, y

LEMMA FloatingStep ==
  ASSUME NEW N \in Nat, NEW s \in {-1, 1}, NEW d \in Int, NEW e \in Int,
         NEW v, v = Quotient((-s) * (d - e) * N, RAY)
  PROVE  LET m == 2 * (RAY * RAY)
             x == s * ((2 * RAY * N) * (e - d))
         IN v \in Int /\ x \in Int /\ m * v - x <= m /\ -m <= m * v - x
  <1> DEFINE y == (-s) * (d - e) * N
             m == 2 * (RAY * RAY)
  <1>1. s \in Int /\ d - e \in Int /\ e - d \in Int /\ RAY \in Nat \ {0} /\ RAY \in Int /\ N \in Int
    BY RayAssumption
  <1>2. y \in Int
    BY <1>1
  <1>3. (2 * RAY) * y = s * ((2 * RAY * N) * (e - d))
    <2>1. PICK p \in Int : p = e - d
      BY <1>1
    <2>2. d - e = -p
      BY <2>1
    <2>3. (-s) * (-p) * N = s * p * N
      BY ONLY <1>1, p \in Int, SMT
    <2>4. (2 * RAY) * (s * p * N) = s * ((2 * RAY * N) * p)
      BY ONLY <1>1, p \in Int, SMT
    <2> QED
      BY <2>1, <2>2, <2>3, <2>4
  <1> HIDE DEF y
  <1>4. /\ v \in Int /\ RAY * v - y <= RAY /\ -RAY <= RAY * v - y
    BY <1>1, <1>2, QuotientNear DEF y
  <1>5. /\ (2 * RAY) * (RAY * v - y) <= (2 * RAY) * RAY
        /\ -((2 * RAY) * RAY) <= (2 * RAY) * (RAY * v - y)
    <2>1. PICK z \in Int : z = RAY * v - y
      BY <1>1, <1>2, <1>4
    <2>2. z <= RAY /\ -RAY <= z
      BY <1>4, <2>1
    <2>3. (2 * RAY) * z <= (2 * RAY) * RAY /\ -((2 * RAY) * RAY) <= (2 * RAY) * z
      BY ONLY <1>1, <2>2, z \in Int, SMT
    <2> QED
      BY <2>1, <2>3
  <1>6. /\ (2 * RAY) * (RAY * v - y) = (2 * (RAY * RAY)) * v - (2 * RAY) * y
        /\ (2 * RAY) * RAY = 2 * (RAY * RAY)
    BY ONLY <1>1, <1>2, <1>4, SMT
  <1>7. (2 * RAY) * y \in Int
    BY <1>1, <1>2
  <1> QED
    BY <1>3, <1>4, <1>5, <1>6, <1>7

\* The end of the chain of values: what the last year leaves of one.
LEMMA ParIsFlat ==
  ASSUME NEW par \in Seq(Nat), NEW d, NEW a, Discounts(d, a, par),
         NEW n \in 1..Len(par), \A k \in 1..n : d[k] \in 1..RAY,
         NEW N \in Nat, NEW s \in {-1, 1}, N * par[n] + HALF_RAY < RAY * WORD,
         par[n] * Len(par) < WORD,
         NEW V, ParValues(V, d, n, N, par[n], s)
  PROVE  Within(2 * (RAY * SumFunctionOnSet(V, 1..(n + n))),
                (2 * RAY + par[n]) * (N \div RAY + 1) + 4 * (n * RAY))
  <1> DEFINE r == par[n]
             m == 2 * (RAY * RAY)
             A == 2 * (N * r)
             B == 2 * RAY * N
             h(j) == IF j <= n THEN A * a[j] ELSE A * a[n] - B * (RAY - d[j - n])
             g == [j \in 0..(n + n) |-> s * h(j)]
             pv == SumFunctionOnSet(V, 1..(n + n))
  <1>1. /\ n \in Nat \ {0} /\ n \in Int /\ r \in Nat /\ r \in Int
        /\ RAY \in Nat \ {0} /\ RAY \in Int /\ N \in Int
    <2>1. Len(par) \in Nat
      BY LenProperties
    <2> QED
      BY <2>1, ElementOfSeq, RayAssumption
  <1>fits. N * r + HALF_RAY < RAY * WORD
    OBVIOUS
  <1> HIDE DEF r
  <1>2. m \in Int /\ A \in Int /\ B \in Int
    BY <1>1
  <1>3. /\ a[0] = 0
        /\ \A k \in 1..n : /\ d[k] \in Int /\ a[k - 1] \in Int /\ a[k] \in Int
                           /\ a[k] = a[k - 1] + d[k]
    <2>1. a[0] = 0
      BY DEF Discounts
    <2> SUFFICES ASSUME NEW k \in 1..n
                 PROVE  /\ d[k] \in Int /\ a[k - 1] \in Int /\ a[k] \in Int
                        /\ a[k] = a[k - 1] + d[k]
      BY <2>1
    <2>2. k \in 1..Len(par) /\ (k - 1) * RAY \in Int
      BY <1>1, LenProperties
    <2>3. a[k - 1] \in 0..((k - 1) * RAY) /\ a[k] \in Nat /\ a[k] = a[k - 1] + d[k]
      BY <2>2 DEF Discounts
    <2>4. a[k - 1] \in Int /\ a[k] \in Int
      BY <2>2, <2>3
    <2>5. d[k] \in Int
      BY <1>1
    <2> QED
      BY <2>3, <2>4, <2>5
  <1> HIDE DEF m, A, B
  <1>4. \A k \in 0..n : a[k] \in Int
    <2>1. \A k \in 0..n : k = 0 \/ k \in 1..n
      BY <1>1
    <2> QED
      BY <1>3, <2>1
  <1>5. ASSUME NEW j \in 0..(n + n)
        PROVE  h(j) \in Int /\ g[j] = s * h(j) /\ g[j] \in Int
    <2>1. CASE j <= n
      BY <1>1, <1>2, <1>4, <2>1
    <2>2. CASE ~(j <= n)
      <3>1. j - n \in 1..n /\ n \in 0..n
        BY <1>1, <2>2
      <3>2. d[j - n] \in Int /\ a[n] \in Int
        BY <1>3, <1>4, <3>1
      <3>3. h(j) = A * a[n] - B * (RAY - d[j - n])
        BY <2>2
      <3>4. A * a[n] \in Int /\ B * (RAY - d[j - n]) \in Int
        BY <1>1, <1>2, <3>2
      <3>5. h(j) \in Int
        BY <3>3, <3>4
      <3> HIDE DEF h
      <3> QED
        BY <3>5
    <2> QED
      BY <2>1, <2>2
  <1>6. ASSUME NEW k \in 1..n
        PROVE  /\ h(k) - h(k - 1) = A * d[k]
               /\ h(n + k) - h(n + k - 1) = B * (d[k] - Previous(d, k))
               /\ Previous(d, k) \in Int
    <2>1. h(k) = A * a[k] /\ h(k - 1) = A * a[k - 1]
      BY <1>1
    <2>2. PICK p \in Int, q \in Int : p = a[k - 1] /\ q = d[k] /\ a[k] = p + q
      BY <1>3
    <2>3. h(k) - h(k - 1) = A * d[k]
      <3>1. A * (p + q) - A * p = A * q
        BY ONLY <1>2, p \in Int, q \in Int, SMT
      <3> HIDE DEF h
      <3> QED
        BY <2>1, <2>2, <3>1
    <2>4. h(n + k) = A * a[n] - B * (RAY - d[k])
      <3>1. ~(n + k <= n) /\ n + k - n = k
        BY <1>1
      <3> QED
        BY <3>1
    <2>5. Previous(d, k) \in Int /\ h(n + k - 1) = A * a[n] - B * (RAY - Previous(d, k))
      <3>1. CASE k = 1
        <4>1. n + k - 1 = n /\ n <= n /\ Previous(d, k) = RAY /\ B * (RAY - RAY) = 0
          BY <1>1, <1>2, <3>1 DEF Previous
        <4>2. A * a[n] \in Int
          BY <1>1, <1>2, <1>4
        <4> QED
          BY <1>1, <4>1, <4>2
      <3>2. CASE k # 1
        <4>1. ~(n + k - 1 <= n) /\ n + k - 1 - n = k - 1 /\ k - 1 \in 1..n
          BY <1>1, <3>2
        <4> QED
          BY <1>3, <3>2, <4>1 DEF Previous
      <3> QED
        BY <3>1, <3>2
    <2> HIDE DEF h
    <2>6. h(n + k) - h(n + k - 1) = B * (d[k] - Previous(d, k))
      <3>1. PICK x \in Int : x = Previous(d, k)
        BY <2>5
      <3>2. PICK y \in Int : y = d[k]
        BY <1>3
      <3>3. PICK z \in Int : z = A * a[n]
        <4>1. PICK w \in Int : w = a[n]
          <5>1. n \in 0..n
            BY <1>1
          <5>2. a[n] \in Int
            BY <1>4, <5>1
          <5> QED
            BY <5>2
        <4> QED
          BY <1>2, <4>1
      <3>4. (z - B * (RAY - y)) - (z - B * (RAY - x)) = B * (y - x)
        BY ONLY <1>1, <1>2, x \in Int, y \in Int, z \in Int, SMT
      <3> QED
        BY <2>4, <2>5, <3>1, <3>2, <3>3, <3>4
    <2> QED
      BY <2>3, <2>5, <2>6
  <1>7. ASSUME NEW j \in 1..(n + n)
        PROVE  /\ V[j] \in Int
               /\ m * V[j] - (g[j] - g[j - 1]) <= m
               /\ -m <= m * V[j] - (g[j] - g[j - 1])
    <2>1. /\ h(j) \in Int /\ h(j - 1) \in Int
          /\ g[j] - g[j - 1] = s * (h(j) - h(j - 1))
      <3>1. j \in 0..(n + n) /\ j - 1 \in 0..(n + n)
        BY <1>1
      <3>2. PICK p \in Int, q \in Int : p = h(j) /\ q = h(j - 1) /\ g[j] = s * p /\ g[j - 1] = s * q
        BY <1>5, <3>1
      <3>3. s * p - s * q = s * (p - q)
        OBVIOUS
      <3> QED
        BY <3>2, <3>3
    <2> HIDE DEF g
    <2>2. CASE j <= n
      <3>1. j \in 1..n /\ d[j] \in 1..RAY
        BY <2>2
      <3>2. V[j] = ray_mul_signed(s * ray_mul(N, r), d[j])
        BY <3>1 DEF ParValues, r
      <3>3. /\ V[j] \in Int /\ m * V[j] - s * (A * d[j]) <= m
            /\ -m <= m * V[j] - s * (A * d[j])
        BY <1>1, <1>fits, <3>1, <3>2, FixedStep DEF m, A
      <3>4. h(j) - h(j - 1) = A * d[j]
        BY <1>6, <3>1
      <3> HIDE DEF h
      <3> QED
        BY <2>1, <3>3, <3>4
    <2>3. CASE ~(j <= n)
      <3>1. PICK k \in 1..n : j = n + k
        <4>1. j - n \in 1..n /\ j = n + (j - n)
          BY <1>1, <2>3
        <4> QED
          BY <4>1
      <3>2. V[j] = Quotient((-s) * (Previous(d, k) - d[k]) * N, RAY)
        BY <3>1 DEF ParValues
      <3>3. Previous(d, k) \in Int /\ d[k] \in Int
            /\ h(j) - h(j - 1) = B * (d[k] - Previous(d, k))
        BY <1>3, <1>6, <3>1
      <3> HIDE DEF h
      <3>4. /\ V[j] \in Int /\ m * V[j] - s * (B * (d[k] - Previous(d, k))) <= m
            /\ -m <= m * V[j] - s * (B * (d[k] - Previous(d, k)))
        BY <3>2, <3>3, FloatingStep DEF m, B
      <3> QED
        BY <2>1, <3>3, <3>4
    <2> QED
      BY <2>2, <2>3
  <1> HIDE DEF g
  <1>8. /\ pv \in Int
        /\ m * pv - (g[n + n] - g[0]) <= (n + n) * m
        /\ -((n + n) * m) <= m * pv - (g[n + n] - g[0])
    <2>1. n + n \in Nat /\ \A j \in 0..(n + n) : g[j] \in Int
      BY <1>1, <1>5
    <2> QED
      BY <1>2, <1>7, <2>1, SumTelescopes
  <1> HIDE DEF pv
  <1> DEFINE off == RAY * RAY - RAY * d[n] - r * a[n]
  <1>9. /\ d[n] \in Int /\ a[n] \in Int /\ off \in Int
        /\ 2 * off <= 2 * RAY + r /\ -(2 * RAY + r) <= 2 * off
    <2>1. d[n] \in Int /\ a[n] \in Int
      BY <1>1, <1>3
    <2> QED
      BY <2>1, RatesArePar DEF r
  <1>10. g[n + n] - g[0] = (-s) * (N * (2 * off))
    <2>1. h(0) = 0 /\ h(n + n) = A * a[n] - B * (RAY - d[n])
      <3>1. 0 <= n /\ ~(n + n <= n) /\ n + n - n = n
        BY <1>1
      <3> QED
        BY <1>2, <1>3, <3>1
    <2>2. 0 \in 0..(n + n) /\ n + n \in 0..(n + n)
      BY <1>1
    <2>3. g[n + n] = s * (A * a[n] - B * (RAY - d[n])) /\ g[0] = 0
      <3>1. g[n + n] = s * h(n + n) /\ g[0] = s * h(0)
        BY <1>5, <2>2
      <3> HIDE DEF h
      <3> QED
        BY <2>1, <3>1
    <2>4. A * a[n] - B * (RAY - d[n]) = -(N * (2 * off))
      <3>1. PICK p \in Int, q \in Int : p = a[n] /\ q = d[n]
        BY <1>9
      <3>2. (2 * (N * r)) * p - (2 * RAY * N) * (RAY - q)
              = -(N * (2 * (RAY * RAY - RAY * q - r * p)))
        BY ONLY <1>1, p \in Int, q \in Int, SMT
      <3> QED
        BY <3>1, <3>2 DEF A, B
    <2> HIDE DEF off
    <2>5. PICK z \in Int : z = N * (2 * off)
      BY <1>1, <1>9
    <2>6. s * (-z) = (-s) * z
      OBVIOUS
    <2>7. (-s) * z \in Int
      OBVIOUS
    <2> QED
      BY <2>3, <2>4, <2>5, <2>6, <2>7
  <1> HIDE DEF off
  <1> DEFINE U == N \div RAY + 1
             w == 2 * RAY + r
  <1>11. U \in Nat /\ w \in Nat /\ N <= RAY * U
    <2>1. PICK q \in Int : q = N \div RAY /\ RAY * q <= N /\ N < RAY * q + RAY
      BY <1>1, DivBounds
    <2>2. RAY * (q + 1) = RAY * q + RAY /\ RAY * (q + 1) \in Int
      BY ONLY <1>1, q \in Int, SMT
    <2>3. 0 <= q
      BY <1>1, <2>1, DivBetween
    <2>4. U = q + 1
      BY <2>1
    <2> HIDE DEF U
    <2> QED
      BY <1>1, <2>1, <2>2, <2>3, <2>4
  <1> HIDE DEF U, w
  <1>12. /\ g[n + n] - g[0] \in Int
         /\ g[n + n] - g[0] <= RAY * (w * U)
         /\ -(RAY * (w * U)) <= g[n + n] - g[0]
    <2>1. PICK z \in Int : z = 2 * off /\ z <= w /\ -w <= z
      BY <1>9 DEF w
    <2>2. N * z <= N * w /\ -(N * w) <= N * z /\ N * z \in Int
      BY ONLY <1>1, <1>11, <2>1, z \in Int, N \in Nat, SMT
    <2>3. N * w <= (RAY * U) * w
      BY ONLY <1>1, <1>11, N \in Nat, SMT
    <2>4. (RAY * U) * w = RAY * (w * U)
      BY ONLY <1>1, <1>11, SMT
    <2>5. (-s) * (N * z) = N * z \/ (-s) * (N * z) = -(N * z)
      <3>1. PICK y \in Int : y = N * z
        BY <2>2
      <3>2. (-s) * y = y \/ (-s) * y = -y
        OBVIOUS
      <3> QED
        BY <3>1, <3>2
    <2>6. PICK x \in Int : x = RAY * (w * U)
      BY <1>1, <1>11
    <2>7. PICK y \in Int : y = N * z
      BY <2>2
    <2>8. y <= x /\ -x <= y
      <3>1. N * w \in Int
        BY <1>1, <1>11
      <3> QED
        BY <2>2, <2>3, <2>4, <2>6, <2>7, <3>1
    <2>9. g[n + n] - g[0] = y \/ g[n + n] - g[0] = -y
      BY <1>10, <2>1, <2>5, <2>7
    <2> QED
      BY <2>6, <2>8, <2>9
  <1>13. /\ m * pv <= RAY * (w * U) + (n + n) * m
         /\ -(RAY * (w * U) + (n + n) * m) <= m * pv
    <2>1. m * pv \in Int /\ (n + n) * m \in Int /\ RAY * (w * U) \in Int
      BY <1>1, <1>2, <1>8, <1>11
    <2> QED
      BY <1>8, <1>12, <2>1
  <1> DEFINE total == 2 * (RAY * pv)
             bound == w * U + 4 * (n * RAY)
  <1>14. total \in Int /\ bound \in Int
    BY <1>1, <1>8, <1>11
  <1>15. m * pv = RAY * total /\ RAY * (w * U) + (n + n) * m = RAY * bound
    <2>1. (2 * (RAY * RAY)) * pv = RAY * (2 * (RAY * pv))
      BY ONLY <1>1, <1>8, SMT
    <2>2. PICK x \in Int : x = w * U
      BY <1>11
    <2>3. RAY * x + (n + n) * (2 * (RAY * RAY)) = RAY * (x + 4 * (n * RAY))
      BY ONLY <1>1, x \in Int, SMT
    <2> QED
      BY <2>1, <2>2, <2>3 DEF m
  <1> HIDE DEF total, bound
  <1>16. total <= bound /\ -bound <= total
    <2>1. RAY * total <= RAY * bound /\ -(RAY * bound) <= RAY * total
      BY <1>13, <1>15
    <2>2. ASSUME NEW x \in Int, NEW y \in Int, RAY * x <= RAY * y PROVE x <= y
      BY ONLY <1>1, <2>2, SMT
    <2>3. RAY * (-bound) = -(RAY * bound) /\ -bound \in Int
      BY ONLY <1>1, <1>14, SMT
    <2> QED
      BY <1>14, <2>1, <2>2, <2>3
  <1> QED
    BY <1>16 DEF Within, total, bound, w, U, r, pv

\* A floating flow without a spread is worth the difference of the factors.
LEMMA NoSpread ==
  ASSUME NEW cf, cf.spread = 0, cf.direction \in {-1, 1}, cf.notional \in Nat,
         cf.accrual_start \in Int, cf.accrual_end \in Int, NEW df \in Int
  PROVE  SpreadValue(cf, df) = 0
  <1> DEFINE tau == ActualFraction(365 * DAY, cf.accrual_start, cf.accrual_end)
  <1>1. Quotient(0, RAY) = 0
    <2>1. 0 \div RAY = 0
      BY DivIs, RayAssumption
    <2> QED
      BY <2>1 DEF Quotient
  <1>2. tau \in Int
    <2>1. 365 * DAY \in Nat \ {0} /\ (cf.accrual_end - cf.accrual_start) * RAY \in Int
      BY DayAssumption, RayAssumption
    <2> QED
      BY <2>1, DivBounds DEF ActualFraction
  <1> HIDE DEF tau
  <1>3. cf.direction * cf.spread * cf.notional = 0
    BY SignedProduct
  <1>4. 0 * tau = 0 /\ 0 * df = 0
    BY <1>2
  <1> QED
    BY <1>1, <1>3, <1>4 DEF SpreadValue, tau

\* A swap along the dates of the curve, in periods of a whole year.
OnCurve(t, dates, n) ==
  /\ t.product = "irs" /\ t.start = Settlement /\ Settlement < CurveDates[1]
  /\ dates \in Seq(Int) /\ Len(dates) = n
  /\ \A k \in 1..n :
       /\ dates[k] = CurveDates[k]
       /\ year_fraction(DayCount[t.currency],
                        IF k = 1 THEN Settlement ELSE CurveDates[k - 1],
                        CurveDates[k]) = RAY

LEMMA ParFlowsAreWorth ==
  ASSUME NEW t \in Trades, NEW dates, NEW n, NEW r, IsMarket(r), n \in 1..Len(r),
         OnCurve(t, dates, n)
  PROVE  LET flows == build_trade(LegsOf(t), TermOf(t), dates)
         IN ParValues(ValuesOn(flows, r, Settlement), bootstrap_annual(r).dfs, n,
                      t.notional, t.rate, PayDirection(t.payer))
  <1> DEFINE flows == build_trade(LegsOf(t), TermOf(t), dates)
             dfs == bootstrap_annual(r).dfs
             s == PayDirection(t.payer)
             V == ValuesOn(flows, r, Settlement)
             df(x) == interpolate_df(x, Settlement, CurveDates, dfs)
             last == Len(CurveDates)
  <1>1. /\ last \in Nat /\ n \in 1..last /\ Settlement \in Int
        /\ \A k \in 1..last : CurveDates[k] \in Int
        /\ CurveDates \in Seq(Int) /\ dfs \in Seq(0..RAY) /\ Len(dfs) = last
        /\ \A k \in 1..last : dfs[k] \in Int
    <2>1. dfs \in Seq(0..RAY) /\ Len(dfs) = last /\ CurveDates \in Seq(Int)
      <3>1. dfs \in Seq(1..RAY) /\ Len(dfs) = last
        BY AnnualFactors DEF IsMarket, Usable
      <3>2. 1..RAY \subseteq 0..RAY
        OBVIOUS
      <3> HIDE DEF dfs
      <3> QED
        BY <3>1, <3>2, SeqMonotonic, DatesAreSeq
    <2> HIDE DEF dfs
    <2>2. \A k \in 1..last : dfs[k] \in Int /\ CurveDates[k] \in Int
      <3>1. \A k \in 1..last : dfs[k] \in 0..RAY /\ CurveDates[k] \in Int
        BY <2>1, LenProperties, ElementOfSeq
      <3> QED
        BY <3>1, RayAssumption
    <2> QED
      BY <2>1, <2>2, LenProperties, PricingAssumption DEF IsMarket
  <1>2. \A k \in 1..last : df(CurveDates[k]) = dfs[k] /\ dfs[k] \in Int
    <2>1. \A j \in 2..Len(CurveDates) : CurveDates[j - 1] < CurveDates[j]
      BY PricingAssumption
    <2>2. Settlement < CurveDates[1]
      BY DEF OnCurve
    <2> HIDE DEF dfs
    <2> QED
      BY <1>1, <2>1, <2>2, NodeIsQuoted, ElementOfSeq
  <1>3. df(Settlement) = RAY
    BY <1>1 DEF interpolate_df
  <1>4. /\ Len(flows) = n + n /\ flows \in Seq(FlowSet)
        /\ \A k \in 1..n :
             /\ flows[k].cf_type = "Fixed"
             /\ flows[k].payment_date = dates[k]
             /\ flows[k].fixed_amount
                  = s * ray_mul(ray_mul(t.notional, t.rate),
                                year_fraction(DayCount[t.currency],
                                              AccrualStart(TermOf(t), dates, k), dates[k]))
             /\ flows[n + k].cf_type = "Floating"
             /\ flows[n + k].direction = -s
             /\ flows[n + k].notional = t.notional
             /\ flows[n + k].spread = 0
             /\ flows[n + k].payment_date = dates[k]
             /\ flows[n + k].accrual_start = AccrualStart(TermOf(t), dates, k)
             /\ flows[n + k].accrual_end = dates[k]
    <2>1. t.product = "irs" /\ dates \in Seq(Int) /\ Len(dates) = n
      BY DEF OnCurve
    <2>2. flows \in Seq(FlowSet)
      BY <2>1, TradeFlowTypes DEF HasInitial
    <2>3. PlainFlows(flows, t, dates)
      BY <2>1, SwapFlows
    <2> HIDE DEF flows
    <2> QED
      BY <2>1, <2>2, <2>3 DEF PlainFlows
  <1>5. \A j \in 1..(n + n) : V[j] = value_cashflow(flows[j], Settlement, CurveDates, dfs)
                              /\ flows[j] \in FlowSet
    BY <1>4, LenProperties, ElementOfSeq DEF ValuesOn, FlowValues
  <1> HIDE DEF flows, V
  <1>6. /\ t.notional \in Nat /\ t.rate \in Nat /\ s \in {-1, 1}
        /\ ray_mul(ray_mul(t.notional, t.rate), RAY) = ray_mul(t.notional, t.rate)
    <2>1. t.notional \in Nat /\ t.rate \in Nat /\ t.product = "irs"
      BY TradeTypes DEF OnCurve
    <2>2. ray_mul(t.notional, t.rate) \in Nat /\ ray_mul(t.notional, t.rate) < WORD
      <3>1. t.notional \in Int /\ t.rate \in Int
        BY <2>1
      <3> QED
        BY <3>1, RayMulWord
    <2>3. 1 \in Nat \ {0}
      OBVIOUS
    <2> QED
      BY <2>1, <2>2, <2>3, PlainLegs, RayMulOne
  <1> HIDE DEF s
  <1>7. ASSUME NEW k \in 1..n
        PROVE  /\ dates[k] = CurveDates[k] /\ k \in 1..last
               /\ LET from == AccrualStart(TermOf(t), dates, k)
                  IN /\ from = IF k = 1 THEN Settlement ELSE CurveDates[k - 1]
                     /\ from \in Int
                     /\ df(from) = Previous(dfs, k)
                     /\ year_fraction(DayCount[t.currency], from, dates[k]) = RAY
    <2> DEFINE from == AccrualStart(TermOf(t), dates, k)
    <2>1. k \in 1..last /\ dates[k] = CurveDates[k]
      BY <1>1 DEF OnCurve
    <2>2. CASE k = 1
      <3>1. from = Settlement
        BY <2>2 DEF AccrualStart, TermOf, OnCurve
      <3>2. df(from) = Previous(dfs, k)
        BY <1>3, <2>2, <3>1 DEF Previous
      <3> QED
        BY <1>1, <2>1, <2>2, <3>1, <3>2 DEF OnCurve
    <2>3. CASE k # 1
      <3>1. k - 1 \in 1..n /\ k - 1 \in 1..last
        BY <1>1, <2>3
      <3>2. from = CurveDates[k - 1]
        BY <2>3, <3>1 DEF AccrualStart, OnCurve
      <3>3. df(from) = Previous(dfs, k)
        BY <1>2, <2>3, <3>1, <3>2 DEF Previous
      <3> QED
        BY <1>1, <2>1, <2>3, <3>1, <3>2, <3>3 DEF OnCurve
    <2> QED
      BY <2>2, <2>3
  <1>8. ASSUME NEW k \in 1..n
        PROVE  V[k] = ray_mul_signed(s * ray_mul(t.notional, t.rate), dfs[k])
    <2>1. V[k] = value_cashflow(flows[k], Settlement, CurveDates, dfs)
      BY <1>1, <1>5
    <2>2. V[k] = ray_mul_signed(flows[k].fixed_amount, df(flows[k].payment_date))
      BY <1>4, <2>1 DEF value_cashflow
    <2>3. flows[k].fixed_amount = s * ray_mul(t.notional, t.rate)
      BY <1>4, <1>6, <1>7
    <2>4. df(flows[k].payment_date) = dfs[k]
      BY <1>2, <1>4, <1>7
    <2> QED
      BY <2>2, <2>3, <2>4
  <1>9. ASSUME NEW k \in 1..n
        PROVE  V[n + k] = Quotient((-s) * (Previous(dfs, k) - dfs[k]) * t.notional, RAY)
    <2>1. PICK cf : cf = flows[n + k]
      OBVIOUS
    <2>2. n + k \in 1..(n + n)
      BY <1>1
    <2>3. V[n + k] = value_cashflow(cf, Settlement, CurveDates, dfs) /\ cf \in FlowSet
      BY <1>5, <2>1, <2>2
    <2>4. /\ cf.cf_type = "Floating" /\ cf.direction = -s /\ cf.notional = t.notional
          /\ cf.spread = 0 /\ cf.payment_date = dates[k]
          /\ cf.accrual_start = AccrualStart(TermOf(t), dates, k) /\ cf.accrual_end = dates[k]
      BY <1>4, <2>1
    <2>5. V[n + k]
            = Quotient(cf.direction * (df(cf.accrual_start) - df(cf.accrual_end)) * cf.notional, RAY)
                + SpreadValue(cf, df(cf.payment_date))
      BY <2>3, <2>4 DEF value_cashflow
    <2>6. df(cf.accrual_start) = Previous(dfs, k)
          /\ df(cf.accrual_end) = dfs[k] /\ df(cf.payment_date) = dfs[k] /\ dfs[k] \in Int
      BY <1>2, <1>7, <2>4
    <2>7. SpreadValue(cf, dfs[k]) = 0
      <3>1. /\ cf.direction \in {-1, 1} /\ cf.notional \in Nat
            /\ cf.accrual_start \in Int /\ cf.accrual_end \in Int
        BY <2>3 DEF FlowSet
      <3> QED
        BY <2>4, <2>6, <3>1, NoSpread
    <2>8. Quotient((-s) * (Previous(dfs, k) - dfs[k]) * t.notional, RAY) \in Int
      <3>1. Previous(dfs, k) \in Int
        <4>1. k = 1 \/ k - 1 \in 1..last
          BY <1>1
        <4> QED
          BY <1>2, <4>1, RayAssumption DEF Previous
      <3>2. (-s) * (Previous(dfs, k) - dfs[k]) * t.notional \in Int
        <4>1. PICK x \in Int : x = Previous(dfs, k) - dfs[k]
          BY <2>6, <3>1
        <4>2. (-s) * x * t.notional \in Int
          BY <1>6
        <4> QED
          BY <4>1, <4>2
      <3> QED
        BY <3>2, QuotientNear, RayAssumption
    <2>9. V[n + k] = Quotient((-s) * (Previous(dfs, k) - dfs[k]) * t.notional, RAY) + 0
      BY <2>4, <2>5, <2>6, <2>7
    <2> QED
      BY <2>8, <2>9
  <1> QED
    BY <1>8, <1>9 DEF ParValues, V, flows, s

-----------------------------------------------------------------------------
(* The inductive invariant. *)

\* A trade with the cashflows of its schedule.
IsEntry(e) ==
  /\ e.trade \in Trades /\ HasInitial(e.trade)
  /\ \E dates : /\ IsScheduleOf(TermOf(e.trade), dates)
                /\ e.flows = build_trade(LegsOf(e.trade), TermOf(e.trade), dates)

Entries == {e \in [trade : Trades, flows : Seq(FlowSet)] : IsEntry(e)}

MarketInv == rates \in Curves /\ today \in Settlement..LastDay

\* The trade on its way is the one the schedule is of, its legs could be
\* filled in, it has a place in the book, and no report stands.
TakingInv ==
  /\ trade \in Trades \union {NoTrade}
  /\ (stage = "idle") = (trade = NoTrade)
  /\ stage # "idle" =>
       term = TermOf(trade) /\ HasInitial(trade) /\ Len(book) < MaxTrades /\ ~Reported

BookInv == book \in Seq(Entries) /\ Len(book) <= MaxTrades

\* What a report said of the next day is what is then outstanding.
IsForetold(f, b, r, day) ==
  /\ DOMAIN f \subseteq DOMAIN b
  /\ \A i \in DOMAIN f :
       f[i] = PresentValueAt(Outstanding(b[i].flows, day), b[i].flows, r, day, CurveDates)

ReportInv ==
  /\ Reported => report = Measured /\ IsMeasurable(rates)
  /\ IsForetold(foretold, book, rates, today)

\* A note over a short term is in the book.
ShortNoteIn(b) ==
  \E i \in DOMAIN b :
    LET t == b[i].trade
    IN t.product = "frn" /\ t.rate # 0 /\ Midnight(t.end) < t.start

OutcomeInv ==
  /\ outcome \in {"running", "NoInitial", "BadTerm", "NoCurve", "BadAccrual"}
  /\ outcome = "BadTerm" => stage = "returned" /\ Midnight(term.end) < term.start
  /\ outcome = "BadAccrual" => ShortNoteIn(book)

PricingInv == ScheduleInv /\ MarketInv /\ TakingInv /\ BookInv /\ ReportInv /\ OutcomeInv

LEMMA BuiltIsEntry ==
  ASSUME NEW t \in Trades, HasInitial(t), NEW dates, IsScheduleOf(TermOf(t), dates)
  PROVE  [trade |-> t, flows |-> build_trade(LegsOf(t), TermOf(t), dates)] \in Entries
  <1>1. build_trade(LegsOf(t), TermOf(t), dates) \in Seq(FlowSet)
    BY TradeFlowTypes DEF IsScheduleOf
  <1> QED
    BY <1>1 DEF Entries, IsEntry

\* What stands in a book.
LEMMA BookIs ==
  ASSUME BookInv
  PROVE  /\ Len(book) \in Nat /\ DOMAIN book = 1..Len(book)
         /\ \A i \in DOMAIN book : /\ IsEntry(book[i])
                                  /\ book[i].trade \in Trades
                                  /\ HasInitial(book[i].trade)
                                  /\ book[i].flows \in Seq(FlowSet)
  <1>1. Len(book) \in Nat /\ DOMAIN book = 1..Len(book)
    BY LenProperties DEF BookInv
  <1>2. \A i \in DOMAIN book : book[i] \in Entries
    BY <1>1, ElementOfSeq DEF BookInv
  <1> QED
    BY <1>1, <1>2 DEF Entries, IsEntry

LEMMA SameReport ==
  ASSUME UNCHANGED <<marketVars, book, reportVars>>, ReportInv PROVE ReportInv'
  <1>1. /\ rates' = rates /\ today' = today /\ book' = book
        /\ report' = report /\ foretold' = foretold
    BY DEF marketVars, reportVars
  <1>2. Measured' = Measured
    BY <1>1 DEF Measured
  <1>3. Reported' = Reported
    BY <1>1 DEF Reported
  <1> QED
    BY <1>1, <1>2, <1>3 DEF ReportInv

LEMMA SameBook == ASSUME book' = book, BookInv PROVE BookInv'
  BY DEF BookInv

LEMMA PricingInitInv == PricingInit => PricingInv
  <1> SUFFICES ASSUME PricingInit PROVE PricingInv
    OBVIOUS
  <1>1. ScheduleInv
    BY ScheduleInitInv DEF PricingInit
  <1>2. MarketInv
    BY PricingAssumption DEF PricingInit, MarketInv
  <1>3. stage = "idle" /\ trade = NoTrade /\ outcome = "running" /\ report = NoReport
    BY DEF PricingInit, ScheduleInit
  <1>4. book = <<>> /\ Len(<<>>) = 0 /\ DOMAIN <<>> = 1..0 /\ foretold = <<>>
    BY EmptySeq DEF PricingInit
  <1>5. BookInv
    <2>1. <<>> \in Seq(Entries)
      BY EmptySeq
    <2> QED
      BY <1>4, <2>1, PricingAssumption DEF BookInv
  <1>6. ReportInv
    <2>1. DOMAIN foretold = {}
      BY <1>4
    <2> QED
      BY <1>3, <2>1 DEF ReportInv, Reported, IsForetold
  <1> QED
    BY <1>1, <1>2, <1>3, <1>5, <1>6 DEF TakingInv, OutcomeInv, PricingInv

LEMMA BookKeepsInv ==
  ASSUME PricingInv, NEW t \in Trades, Book(t) PROVE PricingInv'
  <1>1. /\ outcome = "running" /\ stage = "idle" /\ report = NoReport
        /\ Len(book) < MaxTrades
        /\ UNCHANGED <<marketVars, book, reportVars>>
    BY DEF Book
  <1>2. ReportInv' /\ BookInv' /\ MarketInv'
    BY <1>1, SameReport, SameBook DEF PricingInv, MarketInv, marketVars
  <1>3. ~Reported'
    BY <1>1 DEF reportVars, Reported, NoReport
  <1>4. CASE HasInitial(t) /\ Generate(TermOf(t)) /\ trade' = t /\ UNCHANGED outcome
    <2>1. ScheduleInv'
      BY <1>4, TermTypes, GenerateKeepsInv DEF PricingInv
    <2>2. stage' = "rolling" /\ term' = TermOf(t)
      BY <1>4 DEF Generate
    <2>3. TakingInv'
      <3>1. t # NoTrade
        BY TradeTypes
      <3> QED
        BY <1>1, <1>3, <1>4, <2>2, <3>1 DEF TakingInv, HasInitial
    <2>4. OutcomeInv'
      BY <1>1, <1>4 DEF OutcomeInv
    <2> QED
      BY <1>2, <2>1, <2>3, <2>4 DEF PricingInv
  <1>5. CASE outcome' = "NoInitial" /\ UNCHANGED <<scheduleVars, trade>>
    <2>1. ScheduleInv' /\ stage' = "idle"
      BY <1>1, <1>5, IdleKeepsInv DEF PricingInv, scheduleVars
    <2>2. TakingInv'
      BY <1>1, <1>5, <2>1 DEF PricingInv, TakingInv
    <2>3. OutcomeInv'
      BY <1>5 DEF OutcomeInv
    <2> QED
      BY <1>2, <2>1, <2>2, <2>3 DEF PricingInv
  <1> QED
    BY <1>4, <1>5 DEF Book

LEMMA RollOnKeepsInv == ASSUME PricingInv, RollOn PROVE PricingInv'
  <1>1. Rolling /\ UNCHANGED <<marketVars, bookVars, reportVars, outcome>>
    BY DEF RollOn
  <1>2. ScheduleInv'
    BY <1>1, RollingKeepsInv DEF PricingInv
  <1>3. stage = "rolling" /\ stage' \in {"rolling", "returned", "overflowed"} /\ term' = term
    BY <1>1 DEF Rolling, ReturnEnd, Overflow, Roll, ReturnRolled, ReturnDates
  <1>4. trade' = trade /\ book' = book /\ outcome' = outcome /\ Reported' = Reported
    BY <1>1 DEF bookVars, reportVars, Reported, NoReport
  <1>5. TakingInv'
    BY <1>3, <1>4 DEF PricingInv, TakingInv, HasInitial
  <1>6. ReportInv'
    BY <1>1, <1>4, SameReport DEF PricingInv
  <1>7. OutcomeInv'
    BY <1>3, <1>4 DEF PricingInv, OutcomeInv, ShortNoteIn, Midnight
  <1>8. BookInv' /\ MarketInv'
    BY <1>1, <1>4, SameBook DEF PricingInv, MarketInv, marketVars
  <1> QED
    BY <1>2, <1>5, <1>6, <1>7, <1>8 DEF PricingInv

\* A trade at the end of a book leaves what stood there.
LEMMA BookGrows ==
  ASSUME BookInv, NEW e \in Entries, book' = Append(book, e)
  PROVE  /\ book' \in Seq(Entries) /\ Len(book') = Len(book) + 1
         /\ DOMAIN book \subseteq DOMAIN book'
         /\ \A i \in DOMAIN book : book'[i] = book[i]
  <1>1. book \in Seq(Entries) /\ Len(book) \in Nat /\ DOMAIN book = 1..Len(book)
    BY BookIs DEF BookInv
  <1> DEFINE after == Append(book, e)
  <1>2. /\ after \in Seq(Entries) /\ Len(after) = Len(book) + 1
        /\ \A i \in 1..Len(book) : after[i] = book[i]
    BY <1>1, AppendProperties
  <1>3. DOMAIN after = 1..Len(after)
    BY <1>2, LenProperties
  <1> HIDE DEF after
  <1>4. DOMAIN book \subseteq DOMAIN after
    BY <1>1, <1>2, <1>3
  <1> QED
    BY <1>1, <1>2, <1>4 DEF after

LEMMA BuildKeepsInv == ASSUME PricingInv, Build PROVE PricingInv'
  <1>1. stage = "returned" /\ outcome = "running"
    BY DEF Build
  <1>2. /\ trade \in Trades /\ term = TermOf(trade) /\ HasInitial(trade)
        /\ ~Reported /\ Len(book) < MaxTrades
    BY <1>1 DEF PricingInv, TakingInv
  <1> DEFINE e == [trade |-> trade, flows |-> build_trade(LegsOf(trade), term, schedule)]
  <1>3. CASE /\ Taken
             /\ trade' = NoTrade
             /\ book' = Append(book, e)
             /\ UNCHANGED <<marketVars, reportVars, outcome>>
    <2>1. ScheduleInv'
      BY <1>3, TakenKeepsInv
    <2>2. stage' = "idle"
      BY <1>3 DEF Taken
    <2>3. rates' = rates /\ today' = today /\ report' = report /\ foretold' = foretold
      BY <1>3 DEF marketVars, reportVars
    <2>4. e \in Entries
      BY <1>1, <1>2, ReturnedIsSchedule, BuiltIsEntry DEF PricingInv
    <2>5. book' = Append(book, e)
      BY <1>3
    <2> HIDE DEF e
    <2>6. /\ book' \in Seq(Entries) /\ Len(book') = Len(book) + 1
          /\ DOMAIN book \subseteq DOMAIN book'
          /\ \A i \in DOMAIN book : book'[i] = book[i]
      BY <2>4, <2>5, BookGrows DEF PricingInv
    <2>7. BookInv'
      <3>1. Len(book) \in Nat /\ MaxTrades \in Nat
        BY BookIs, PricingAssumption DEF PricingInv
      <3> QED
        BY <1>2, <2>6, <3>1 DEF BookInv
    <2>8. TakingInv'
      BY <1>3, <2>2 DEF TakingInv
    <2>9. ReportInv'
      <3>1. ~Reported'
        BY <1>2, <2>3 DEF Reported
      <3>2. IsForetold(foretold, book', rates, today)
        BY <2>6 DEF PricingInv, ReportInv, IsForetold
      <3> QED
        BY <2>3, <3>1, <3>2 DEF ReportInv
    <2>10. MarketInv' /\ OutcomeInv'
      BY <1>1, <1>3, <2>3 DEF PricingInv, MarketInv, OutcomeInv
    <2> QED
      BY <2>1, <2>7, <2>8, <2>9, <2>10 DEF PricingInv
  <1>4. CASE /\ ~Accruable(LegsOf(trade))
             /\ outcome' = "BadTerm"
             /\ UNCHANGED <<scheduleVars, marketVars, bookVars, reportVars>>
    <2>1. ScheduleInv'
      BY <1>4, IdleKeepsInv DEF PricingInv
    <2>2. /\ stage' = stage /\ term' = term /\ trade' = trade /\ book' = book
          /\ rates' = rates /\ today' = today /\ report' = report
      BY <1>4 DEF scheduleVars, bookVars, marketVars, reportVars
    <2>3. ReportInv'
      BY <1>4, <2>2, SameReport DEF PricingInv
    <2>4. OutcomeInv'
      <3>1. Midnight(term.end) < term.start
        BY <1>1, <1>4, ShortTermPanics DEF PricingInv
      <3>2. Midnight(term.end)' = Midnight(term.end)
        BY <2>2 DEF Midnight
      <3> QED
        BY <1>1, <1>4, <2>2, <3>1, <3>2 DEF OutcomeInv
    <2>5. BookInv' /\ MarketInv' /\ TakingInv'
      BY <2>2, SameBook DEF PricingInv, MarketInv, TakingInv, HasInitial, Reported, NoReport
    <2> QED
      BY <2>1, <2>3, <2>4, <2>5 DEF PricingInv
  <1> QED
    BY <1>3, <1>4 DEF Build

LEMMA ValueKeepsInv == ASSUME PricingInv, Value PROVE PricingInv'
  <1>1. /\ outcome = "running" /\ stage = "idle"
        /\ UNCHANGED <<scheduleVars, marketVars, bookVars, foretold>>
    BY DEF Value
  <1>2. ScheduleInv'
    BY <1>1, IdleKeepsInv DEF PricingInv
  <1>3. /\ stage' = "idle" /\ trade' = trade /\ book' = book
        /\ rates' = rates /\ today' = today /\ foretold' = foretold
    BY <1>1 DEF scheduleVars, bookVars, marketVars
  <1>4. OutcomeInv'
    <2>1. \/ outcome' \in {"running", "NoCurve"}
          \/ outcome' = "BadAccrual" /\ ~SpreadsAccrue
      BY <1>1 DEF Value
    <2>2. ASSUME ~SpreadsAccrue PROVE ShortNoteIn(book)'
      <3>1. PICK i \in DOMAIN book : \E f \in DOMAIN book[i].flows : ~Accrues(book[i].flows[f])
        BY <2>2 DEF SpreadsAccrue
      <3>2. PICK t, dates :
              /\ t \in Trades /\ t = book[i].trade /\ HasInitial(t)
              /\ IsScheduleOf(TermOf(t), dates)
              /\ book[i].flows = build_trade(LegsOf(t), TermOf(t), dates)
        BY <3>1, BookIs DEF PricingInv, IsEntry
      <3>3. t.product = "frn" /\ t.rate # 0 /\ Midnight(t.end) < t.start
        BY <3>1, <3>2, ShortNote
      <3>4. ShortNoteIn(book)
        BY <3>1, <3>2, <3>3 DEF ShortNoteIn
      <3> QED
        BY <1>3, <3>4 DEF ShortNoteIn, Midnight
    <2> QED
      BY <2>1, <2>2 DEF OutcomeInv
  <1>5. TakingInv' /\ BookInv' /\ MarketInv'
    BY <1>1, <1>3, SameBook DEF PricingInv, MarketInv, TakingInv
  <1>6. IsForetold(foretold, book, rates, today)'
    BY <1>3 DEF PricingInv, ReportInv
  <1>7. CASE (\A r \in ShiftedCurves : Usable(r)) /\ report' = Measured
    <2>1. Measured' = Measured
      BY <1>3 DEF Measured
    <2>2. IsMeasurable(rates)
      BY <1>7, UsableIsMeasurable DEF PricingInv, MarketInv
    <2> QED
      BY <1>2, <1>3, <1>4, <1>5, <1>6, <1>7, <2>1, <2>2 DEF PricingInv, ReportInv
  <1>8. CASE UNCHANGED report
    <2>1. ReportInv'
      BY <1>1, <1>3, <1>8, SameReport DEF PricingInv, reportVars
    <2> QED
      BY <1>2, <1>4, <1>5, <2>1 DEF PricingInv
  <1> QED
    BY <1>7, <1>8 DEF Value

\* Value and theta of a trade are tomorrow's value of what is then outstanding.
LEMMA ThetaCarries ==
  ASSUME NEW flows \in Seq(FlowSet), NEW r, IsMarket(r), NEW day \in Int
  PROVE  LET m == Measures(flows, r, day, CurveDates)
         IN m.pv + m.theta
              = PresentValueAt(Outstanding(flows, day + DAY), flows, r, day + DAY, CurveDates)
  <1> DEFINE pv == PresentValue(flows, r, day, CurveDates)
             left == Outstanding(flows, day + DAY)
             carried == PresentValueAt(left, flows, r, day + DAY, CurveDates)
             m == Measures(flows, r, day, CurveDates)
  <1>1. m.pv = pv /\ m.theta = carried - pv
    BY DEF Measures, theta
  <1>2. left \in SUBSET (DOMAIN flows)
    BY DEF Outstanding
  <1>3. day + DAY \in Int
    BY DayAssumption
  <1> HIDE DEF left
  <1>4. pv \in Int /\ carried \in Int
    BY <1>2, <1>3, WholeValueIsInt, PresentValueIsInt
  <1> HIDE DEF pv, carried, m
  <1>5. m.pv + m.theta = carried
    BY <1>1, <1>4
  <1> QED
    BY <1>5 DEF m, carried, left

LEMMA NextDayKeepsInv == ASSUME PricingInv, NextDay PROVE PricingInv'
  <1>1. /\ Reported /\ today + DAY <= LastDay /\ today' = today + DAY
        /\ foretold' = [i \in DOMAIN book |-> report.trades[i].pv + report.trades[i].theta]
        /\ report' = NoReport
        /\ UNCHANGED <<scheduleVars, rates, bookVars, outcome>>
    BY DEF NextDay, Reported
  <1>2. ScheduleInv'
    BY <1>1, IdleKeepsInv DEF PricingInv
  <1>3. /\ stage' = stage /\ term' = term /\ trade' = trade /\ book' = book
        /\ rates' = rates /\ outcome' = outcome
    BY <1>1 DEF scheduleVars, bookVars
  <1>4. stage = "idle" /\ ~Reported'
    BY <1>1 DEF PricingInv, TakingInv, Reported, NoReport
  <1>5. MarketInv'
    <2>1. /\ today \in Settlement..LastDay /\ rates \in Curves
          /\ Settlement \in Nat /\ LastDay \in Nat /\ DAY \in Nat
      BY PricingAssumption, DayAssumption DEF PricingInv, MarketInv
    <2>2. today + DAY \in Settlement..LastDay
      BY <1>1, <2>1
    <2> QED
      BY <1>1, <1>3, <2>1, <2>2 DEF MarketInv
  <1>6. TakingInv' /\ OutcomeInv' /\ BookInv'
    <2>1. outcome # "BadTerm"
      BY <1>4 DEF PricingInv, OutcomeInv
    <2> QED
      BY <1>3, <1>4, <2>1, SameBook DEF PricingInv, TakingInv, OutcomeInv, ShortNoteIn, Midnight
  <1>7. IsForetold(foretold', book, rates, today')
    <2>1. report = Measured /\ IsMarket(rates) /\ today \in Int
      BY <1>1, PricingAssumption DEF PricingInv, ReportInv, IsMeasurable, MarketInv
    <2>2. ASSUME NEW i \in DOMAIN book
          PROVE  foretold'[i]
                   = PresentValueAt(Outstanding(book[i].flows, today'),
                                    book[i].flows, rates, today', CurveDates)
      <3>1. report.trades[i] = Measures(book[i].flows, rates, today, CurveDates)
        BY <2>1 DEF Measured
      <3>2. book[i].flows \in Seq(FlowSet)
        BY BookIs DEF PricingInv
      <3>3. LET m == Measures(book[i].flows, rates, today, CurveDates)
            IN m.pv + m.theta
                 = PresentValueAt(Outstanding(book[i].flows, today + DAY), book[i].flows,
                                  rates, today + DAY, CurveDates)
        BY <2>1, <3>2, ThetaCarries
      <3>4. foretold'[i] = report.trades[i].pv + report.trades[i].theta
        BY <1>1
      <3> QED
        BY <1>1, <3>1, <3>3, <3>4
    <2>3. DOMAIN foretold' = DOMAIN book
      BY <1>1
    <2> QED
      BY <2>2, <2>3 DEF IsForetold
  <1>8. ReportInv'
    BY <1>3, <1>4, <1>7 DEF ReportInv
  <1> QED
    BY <1>2, <1>5, <1>6, <1>8 DEF PricingInv

LEMMA PricingStutters == ASSUME PricingInv, UNCHANGED pricingVars PROVE PricingInv'
  <1>1. UNCHANGED <<scheduleVars, marketVars, bookVars, reportVars, outcome>>
    BY DEF pricingVars
  <1>2. ScheduleInv'
    BY <1>1, IdleKeepsInv DEF PricingInv
  <1>3. /\ stage' = stage /\ term' = term /\ trade' = trade /\ book' = book
        /\ rates' = rates /\ today' = today /\ report' = report /\ outcome' = outcome
    BY <1>1 DEF scheduleVars, bookVars, marketVars, reportVars
  <1>4. ReportInv'
    BY <1>1, <1>3, SameReport DEF PricingInv
  <1>5. OutcomeInv'
    BY <1>3 DEF PricingInv, OutcomeInv, ShortNoteIn, Midnight
  <1>6. BookInv' /\ MarketInv' /\ TakingInv'
    BY <1>3, SameBook DEF PricingInv, MarketInv, TakingInv, HasInitial, Reported, NoReport
  <1> QED
    BY <1>2, <1>4, <1>5, <1>6 DEF PricingInv

-----------------------------------------------------------------------------
(* What the invariant says. *)

LEMMA InvTypes == PricingInv => PricingTypeOK
  <1> SUFFICES ASSUME PricingInv PROVE PricingTypeOK
    OBVIOUS
  <1>1. /\ rates \in Curves /\ today \in Settlement..LastDay
        /\ trade \in Trades \union {NoTrade} /\ (stage = "idle") = (trade = NoTrade)
        /\ stage \in {"idle", "rolling", "returned", "overflowed"} /\ Len(book) <= MaxTrades
        /\ outcome \in {"running", "NoInitial", "BadTerm", "NoCurve", "BadAccrual"}
    BY DEF PricingInv, MarketInv, TakingInv, BookInv, OutcomeInv, ScheduleInv
  <1>2. ASSUME NEW i \in DOMAIN book
        PROVE  /\ book[i].trade \in Trades
               /\ \A f \in DOMAIN book[i].flows :
                    /\ book[i].flows[f].direction \in {-1, 1}
                    /\ book[i].flows[f].notional \in Nat
                    /\ book[i].flows[f].fixed_amount \in Int
    <2>1. book[i].trade \in Trades /\ book[i].flows \in Seq(FlowSet)
      BY BookIs DEF PricingInv
    <2>2. \A f \in DOMAIN book[i].flows : book[i].flows[f] \in FlowSet
      BY <2>1, LenProperties, ElementOfSeq
    <2> QED
      BY <2>1, <2>2 DEF FlowSet
  <1>3. Reported => DOMAIN report.trades = DOMAIN book
    BY DEF PricingInv, ReportInv, Measured
  <1> QED
    BY <1>1, <1>2, <1>3 DEF PricingTypeOK

LEMMA InvMirrors == PricingInv => MirrorCancels
  <1> SUFFICES ASSUME PricingInv, Reported, NEW i \in DOMAIN book, NEW j \in DOMAIN book,
                      Mirrored(book[i].trade, book[j].trade)
               PROVE  LET mine == report.trades[i]
                          yours == report.trades[j]
                      IN /\ \A part \in {"pv", "dv01", "gamma", "theta"} :
                              mine[part] = -yours[part]
                         /\ \A k \in DOMAIN rates : mine.buckets[k] = -yours.buckets[k]
                         /\ \A s \in Scenarios : mine.stress[s] = -yours.stress[s]
    BY DEF MirrorCancels, Mirrored
  <1> DEFINE t == book[i].trade
             u == book[j].trade
  <1>1. t \in Trades /\ u \in Trades /\ IsEntry(book[i]) /\ IsEntry(book[j]) /\ HasInitial(t)
    BY BookIs DEF PricingInv
  <1>2. PICK a : IsScheduleOf(TermOf(t), a) /\ book[i].flows = build_trade(LegsOf(t), TermOf(t), a)
    BY <1>1 DEF IsEntry
  <1>3. PICK b : IsScheduleOf(TermOf(u), b) /\ book[j].flows = build_trade(LegsOf(u), TermOf(u), b)
    BY <1>1 DEF IsEntry
  <1>4. a = b
    <2>1. TermOf(u) = TermOf(t) /\ IsTerm(TermOf(t))
      BY <1>1, MirroredTrades, TermTypes
    <2> QED
      BY <1>2, <1>3, <2>1, OneSchedule
  <1>5. OppositeFlows(book[i].flows, book[j].flows)
    <2>1. a \in Seq(Int)
      BY <1>2 DEF IsScheduleOf
    <2> QED
      BY <1>1, <1>2, <1>3, <1>4, <2>1, MirroredFlows
  <1>6. report = Measured /\ IsMeasurable(rates) /\ today \in Int
    BY PricingAssumption DEF PricingInv, ReportInv, MarketInv
  <1>7. /\ report.trades[i] = Measures(book[i].flows, rates, today, CurveDates)
        /\ report.trades[j] = Measures(book[j].flows, rates, today, CurveDates)
    BY <1>6 DEF Measured
  <1> QED
    BY <1>5, <1>6, <1>7, MeasuresAreOdd

LEMMA InvAddsUp == PricingInv => PortfolioAddsUp
  <1> SUFFICES ASSUME PricingInv, Reported
               PROVE  LET parts == [i \in DOMAIN book |-> report.trades[i].dv01]
                      IN Within(2 * (report.portfolio.total_dv01 - SumFunction(parts)),
                                Len(book) + 1)
    BY DEF PortfolioAddsUp
  <1> DEFINE flows == [i \in DOMAIN book |-> book[i].flows]
             parts == [i \in DOMAIN book |-> dv01(flows[i], rates, today, CurveDates)]
  <1>1. report = Measured /\ IsMeasurable(rates) /\ today \in Int
    BY PricingAssumption DEF PricingInv, ReportInv, MarketInv
  <1>2. Len(book) \in Nat /\ DOMAIN book = 1..Len(book)
        /\ \A i \in DOMAIN book : book[i].flows \in Seq(FlowSet)
    BY BookIs DEF PricingInv
  <1>3. flows \in [1..Len(book) -> Seq(FlowSet)]
    BY <1>2
  <1>4. /\ report.portfolio.total_dv01 = PortfolioDv01(flows, rates, today, CurveDates)
        /\ [i \in DOMAIN book |-> report.trades[i].dv01] = parts
    BY <1>1 DEF Measured, value_portfolio, Measures
  <1> HIDE DEF flows
  <1>5. Within(2 * (PortfolioDv01(flows, rates, today, CurveDates) - SumFunction(parts)),
               Len(book) + 1)
    BY <1>1, <1>2, <1>3, PartsAddUp
  <1> QED
    BY <1>4, <1>5

LEMMA InvIsLocal == PricingInv => BucketsAreLocal
  <1> SUFFICES ASSUME PricingInv, Reported, NEW i \in DOMAIN book, NEW k \in 2..Len(rates),
                      \A f \in DOMAIN book[i].flows :
                        LET cf == book[i].flows[f]
                        IN \A date \in {cf.payment_date, cf.accrual_start, cf.accrual_end} :
                             date <= CurveDates[k - 1]
               PROVE  report.trades[i].buckets[k] = 0
    BY DEF BucketsAreLocal
  <1>1. report = Measured /\ IsMeasurable(rates) /\ today \in Int
    BY PricingAssumption DEF PricingInv, ReportInv, MarketInv
  <1>2. book[i].flows \in Seq(FlowSet)
    BY BookIs DEF PricingInv
  <1>3. \A f \in DOMAIN book[i].flows : PaysBy(book[i].flows[f], CurveDates[k - 1])
    BY DEF PaysBy
  <1>4. report.trades[i].buckets = bucket_dv01(book[i].flows, rates, today, CurveDates)
    BY <1>1 DEF Measured, value_portfolio, Measures
  <1> QED
    BY <1>1, <1>2, <1>3, <1>4, BucketBefore

LEMMA InvForetells == PricingInv => ThetaForetells
  <1> SUFFICES ASSUME PricingInv, Reported, NEW i \in DOMAIN foretold
               PROVE  LET flows == book[i].flows
                          paid == {k \in DOMAIN flows : flows[k].payment_date <= today}
                      IN report.trades[i].pv
                           - PresentValueAt(paid, flows, rates, today, CurveDates) = foretold[i]
    BY DEF ThetaForetells
  <1> DEFINE flows == book[i].flows
             paid == {k \in DOMAIN flows : flows[k].payment_date <= today}
             left == Outstanding(flows, today)
             value(places) == PresentValueAt(places, flows, rates, today, CurveDates)
  <1>1. report = Measured /\ IsMeasurable(rates) /\ IsMarket(rates) /\ today \in Int
    BY PricingAssumption DEF PricingInv, ReportInv, MarketInv, IsMeasurable
  <1>2. i \in DOMAIN book /\ foretold[i] = value(left)
    BY DEF PricingInv, ReportInv, IsForetold
  <1>3. flows \in Seq(FlowSet)
    BY <1>2, BookIs DEF PricingInv
  <1>4. report.trades[i].pv = PresentValue(flows, rates, today, CurveDates)
    BY <1>1, <1>2 DEF Measured, Measures
  <1>5. paid \in SUBSET (DOMAIN flows) /\ left = (DOMAIN flows) \ paid
    <2>1. \A k \in DOMAIN flows : flows[k] \in FlowSet
      BY <1>3, LenProperties, ElementOfSeq
    <2>2. \A k \in DOMAIN flows : flows[k].payment_date \in Int
      BY <2>1 DEF FlowSet
    <2> QED
      BY <1>1, <2>2 DEF Outstanding
  <1> HIDE DEF flows, paid, left
  <1>6. PresentValue(flows, rates, today, CurveDates) = value(paid) + value(left)
    BY <1>1, <1>3, <1>5, PresentValueSplits
  <1>7. value(paid) \in Int /\ value(left) \in Int
    BY <1>1, <1>3, <1>5, PresentValueIsInt
  <1> HIDE DEF value
  <1>8. PresentValue(flows, rates, today, CurveDates) - value(paid) = value(left)
    BY <1>6, <1>7
  <1> QED
    BY <1>2, <1>4, <1>8 DEF value, paid, flows

LEMMA InvParIsFlat == PricingInv => ParSwapIsFlat
  <1> SUFFICES ASSUME PricingInv, Reported, today = Settlement,
                      NEW i \in DOMAIN book, NEW n \in DOMAIN rates,
                      book[i].trade.product = "irs", book[i].trade.start = Settlement,
                      book[i].trade.rate = rates[n], Settlement < CurveDates[1],
                      Len(book[i].flows) = 2 * n,
                      \A k \in 1..n :
                        /\ book[i].flows[k].payment_date = CurveDates[k]
                        /\ year_fraction(DayCount[book[i].trade.currency],
                                         IF k = 1 THEN Settlement ELSE CurveDates[k - 1],
                                         CurveDates[k]) = RAY
               PROVE  Within(2 * (RAY * report.trades[i].pv),
                             (2 * RAY + book[i].trade.rate) * UnitValue(book[i].trade)
                               + 4 * (n * RAY))
    BY DEF ParSwapIsFlat
  <1> DEFINE t == book[i].trade
             flows == book[i].flows
             d == bootstrap_annual(rates).dfs
             V == ValuesOn(flows, rates, Settlement)
             s == PayDirection(t.payer)
  <1>1. report = Measured /\ IsMarket(rates) /\ today \in Int /\ Settlement \in Int
    BY PricingAssumption DEF PricingInv, ReportInv, MarketInv, IsMeasurable
  <1>2. t \in Trades /\ flows \in Seq(FlowSet) /\ IsEntry(book[i])
    BY BookIs DEF PricingInv
  <1>3. PICK dates : dates \in Seq(Int) /\ flows = build_trade(LegsOf(t), TermOf(t), dates)
    BY <1>2 DEF IsEntry, IsScheduleOf
  <1>4. rates \in Seq(Nat) /\ n \in 1..Len(rates) /\ n \in Nat /\ Usable(rates)
    BY <1>1, LenProperties DEF IsMarket
  <1>5. Len(dates) = n /\ \A k \in 1..n : flows[k].payment_date = dates[k]
    <2>1. Len(flows) = Len(dates) + Len(dates) /\ Len(dates) \in Nat
      BY <1>2, <1>3, SwapFlows, LenProperties DEF PlainFlows
    <2>2. Len(dates) = n
      BY <1>4, <2>1
    <2> QED
      BY <1>2, <1>3, <2>2, SwapFlows DEF PlainFlows
  <1>6. OnCurve(t, dates, n)
    BY <1>3, <1>5 DEF OnCurve
  <1>7. ParValues(V, d, n, t.notional, t.rate, s)
    BY <1>1, <1>2, <1>3, <1>4, <1>6, ParFlowsAreWorth
  <1>8. report.trades[i].pv = SumFunctionOnSet(V, 1..(n + n))
    <2>1. report.trades[i].pv = PresentValue(flows, rates, Settlement, CurveDates)
      BY <1>1 DEF Measured, Measures
    <2>2. DOMAIN flows = 1..(n + n)
      <3>1. DOMAIN flows = 1..Len(flows) /\ Len(flows) = n + n
        BY <1>2, <1>4, LenProperties
      <3> QED
        BY <3>1
    <2>3. PresentValueAt(DOMAIN flows, flows, rates, Settlement, CurveDates)
            = SumFunctionOnSet(V, DOMAIN flows)
      BY <1>1, <1>2, ValuesAreSummable
    <2> QED
      BY <2>1, <2>2, <2>3 DEF PresentValue
  <1>9. PICK a : Discounts(d, a, rates)
    BY <1>4, AnnualPeriods DEF Usable
  <1>10. \A k \in 1..n : d[k] \in 1..RAY
    <2>1. d \in Seq(1..RAY) /\ Len(d) = Len(rates)
      BY <1>4, AnnualFactors DEF Usable
    <2>2. \A k \in 1..n : k \in 1..Len(d)
      BY <1>4, <2>1
    <2> HIDE DEF d
    <2> QED
      BY <2>1, <2>2, ElementOfSeq
  <1>11. t.notional \in Nat /\ s \in {-1, 1}
    <2>1. 1 \in Nat \ {0}
      OBVIOUS
    <2> QED
      BY <1>2, <2>1, TradeTypes, PlainLegs
  <1>12. ParValues(V, d, n, t.notional, rates[n], s)
    BY <1>7
  <1> HIDE DEF V, d, s
  <1>13. t.notional * rates[n] + HALF_RAY < RAY * WORD
    <2>1. t.product = "irs" /\ t.rate = rates[n]
      OBVIOUS
    <2> QED
      BY <1>2, <2>1, TradesAssumption
  <1>14. rates[n] * Len(rates) < WORD
    BY PricingAssumption DEF PricingInv, MarketInv
  <1>15. Within(2 * (RAY * SumFunctionOnSet(V, 1..(n + n))),
                (2 * RAY + rates[n]) * (t.notional \div RAY + 1) + 4 * (n * RAY))
    BY <1>4, <1>9, <1>10, <1>11, <1>12, <1>13, <1>14, ParIsFlat
  <1> QED
    BY <1>8, <1>15 DEF UnitValue

-----------------------------------------------------------------------------
(* Theorems of the pricing run. *)

LEMMA StepKeepsInv == PricingInv /\ [PricingNext]_pricingVars => PricingInv'
  <1> SUFFICES ASSUME PricingInv, [PricingNext]_pricingVars PROVE PricingInv'
    OBVIOUS
  <1>1. ASSUME NEW t \in Trades, Book(t) PROVE PricingInv'
    BY <1>1, BookKeepsInv
  <1>2. CASE RollOn
    BY <1>2, RollOnKeepsInv
  <1>3. CASE Build
    BY <1>3, BuildKeepsInv
  <1>4. CASE Value
    BY <1>4, ValueKeepsInv
  <1>5. CASE NextDay
    BY <1>5, NextDayKeepsInv
  <1>6. CASE UNCHANGED pricingVars
    BY <1>6, PricingStutters
  <1> QED
    BY <1>1, <1>2, <1>3, <1>4, <1>5, <1>6 DEF PricingNext

\* The inductive invariant holds of every run.
THEOREM PricingInvariance == PricingSpec => []PricingInv
  BY PricingInitInv, StepKeepsInv, PTL DEF PricingSpec

\* The run keeps its types: every booked cashflow has a side, an unsigned
\* notional and a whole amount, and a report has a line for each trade.
THEOREM PricingTypeCorrect == PricingSpec => []PricingTypeOK
  BY PricingInvariance, InvTypes, PTL

\* The dates of every schedule returned tile its term up to the midnight that
\* opens its last day, whatever its start, its end and its frequency, over
\* leap years, short months and centuries.
THEOREM SchedulesTile == PricingSpec => []PeriodsTile
  <1>1. PricingInv => PeriodsTile
    BY ReturnedTiles DEF PricingInv
  <1> QED
    BY <1>1, PricingInvariance, PTL

\* Both 30/360 conventions count whole months alike between the dates of any
\* schedule.
THEOREM MonthsCountAlike == PricingSpec => []RegularPeriodsCountAlike
  <1>1. PricingInv => RegularPeriodsCountAlike
    BY PeriodsCountAlike DEF PricingInv
  <1> QED
    BY <1>1, PricingInvariance, PTL

\* The dates of a trade fail it for two reasons only: its term is over before
\* the first midnight after its start, and then its fixed accrual panics or
\* the spread of a note does, or a date of its term is in the epoch's year,
\* and its schedule rolls past the epoch.
THEOREM DatesFail == PricingSpec => []DatesFailOnlyAtTheEdges
  <1>1. PricingInv => DatesFailOnlyAtTheEdges
    BY DEF PricingInv, OutcomeInv, ShortNoteIn, ScheduleInv, DatesFailOnlyAtTheEdges
  <1> QED
    BY <1>1, PricingInvariance, PTL

\* Payer and receiver of one swap cancel in every measure, to the last unit,
\* on every curve.
THEOREM PayerIsReceiver == PricingSpec => []MirrorCancels
  BY PricingInvariance, InvMirrors, PTL

\* A book is as sensitive as its trades together, but for half a unit each.
THEOREM BookAddsUp == PricingSpec => []PortfolioAddsUp
  BY PricingInvariance, InvAddsUp, PTL

\* No bucket reaches back: a trade is not sensitive to the rates of years
\* that begin after its last date, whatever the curve and the trade.
THEOREM BucketsReachOn == PricingSpec => []BucketsAreLocal
  BY PricingInvariance, InvIsLocal, PTL

\* Value and theta foretell the next day's value, once what was paid is
\* taken out, on every curve and for every book.
THEOREM ThetaIsTomorrow == PricingSpec => []ThetaForetells
  BY PricingInvariance, InvForetells, PTL

\* A swap struck at the rate of the curve on its dates is worth nothing, but
\* for the roundings of the curve's last year and of its flows.
THEOREM ParSwapsAreFlat == PricingSpec => []ParSwapIsFlat
  BY PricingInvariance, InvParIsFlat, PTL

\* The two tilts mirror each other on every rate of every curve and turn
\* without a jump, at two and at ten years too, at every tenor there is in
\* any fraction of a year.
THEOREM TiltsAreMirrors == PricingSpec => []TwistsMirror
  <1>1. PricingInv => TwistsMirror
    BY TiltsMirror DEF PricingInv, MarketInv
  <1> QED
    BY <1>1, PricingInvariance, PTL

=============================================================================
