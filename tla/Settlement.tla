----------------------------- MODULE Settlement -----------------------------
(***************************************************************************)
(* Settlement instructions: core/src/settlement.rs.  The coupons of one    *)
(* payment date are computed off a curve and netted between every two      *)
(* banks.  Amounts count 1 / RAY^2 of a unit, and floating-point products  *)
(* are exact.  The order of the instructions is that of a hash map: they   *)
(* are a set here.                                                         *)
(***************************************************************************)
EXTENDS Fixings

CONSTANTS
  Banks,          \* indices of the banks
  Books,          \* sequences of swap terms
  RateCurves,     \* sequences of par rates
  PaymentDates,   \* dates instructions may be asked for
  YearOf          \* YearOf[c]: the length of a year of interest of currency c

DUST == (RAY * RAY) \div 100

\* What is asked about: nothing says that the dates ascend.
SwapTerms ==
  [id : Nat, payer : Banks, receiver : Banks, notional : Nat, fixed_rate : Nat,
   currency : DOMAIN YearOf, settlement : Nat, payment_dates : Seq(Nat)]

ASSUME SettlementAssumption ==
  /\ Banks \subseteq Nat
  /\ \A c \in DOMAIN YearOf : YearOf[c] \in Nat \ {0}
  /\ Books \subseteq Seq(SwapTerms)
  /\ RateCurves \subseteq Seq(Nat)
  /\ PaymentDates \subseteq Nat

VARIABLES
  asked,          \* the arguments of the last call: swaps, date and rates
  coupons,        \* the coupons of that date, by swap and period
  instructions,   \* what it returned
  result          \* "none", "settled", "no curve" or "panicked"

settlementVars == <<asked, coupons, instructions, result>>

SettlementInit ==
  /\ asked = [swaps |-> <<>>, date |-> 0, rates |-> <<>>]
  /\ coupons = <<>>
  /\ instructions = {}
  /\ result = "none"

-----------------------------------------------------------------------------
(* The coupon of period i of a swap.  Factor i - 1 stands for its start and *)
(* factor i for its end, whenever the swap began; the last one serves for   *)
(* all beyond.                                                              *)

StartFactor(i, dfs) ==
  CASE i = 1 -> RAY [] i > Len(dfs) -> dfs[Len(dfs)] [] OTHER -> dfs[i - 1]

EndFactor(i, dfs) == IF i > Len(dfs) THEN dfs[Len(dfs)] ELSE dfs[i]

StartOf(swap, i) == IF i = 1 THEN swap.settlement ELSE swap.payment_dates[i - 1]

TauOf(swap, i) ==
  ActualFraction(YearOf[swap.currency], StartOf(swap, i), swap.payment_dates[i])

Coupon(swap, i, dfs) ==
  LET tau == TauOf(swap, i)
      fixed == swap.notional * swap.fixed_rate * tau
      floating ==
        swap.notional * forward_rate(StartFactor(i, dfs), EndFactor(i, dfs), tau) * tau
  IN [swap_ref |-> swap.id, payer |-> swap.payer, receiver |-> swap.receiver,
      fixed_amount |-> fixed, floating_amount |-> floating, net |-> fixed - floating]

\* The periods that pay on a date: places of swaps with places of their dates.
DuePeriods(swaps, date) ==
  {p \in UNION {{k} \X DOMAIN swaps[k].payment_dates : k \in DOMAIN swaps} :
     swaps[p[1]].payment_dates[p[2]] = date}

CouponsDue(swaps, date, dfs) ==
  [p \in DuePeriods(swaps, date) |-> Coupon(swaps[p[1]], p[2], dfs)]

\* Some period of the date ends before it starts, which year_fraction asserts
\* it does not.
Disordered(swaps, date) ==
  \E p \in DuePeriods(swaps, date) : date < StartOf(swaps[p[1]], p[2])

\* Some forward rate of the date underflows.
AnyUnderflow(swaps, date, dfs) ==
  \E p \in DuePeriods(swaps, date) :
    Underflows(StartFactor(p[2], dfs), EndFactor(p[2], dfs), TauOf(swaps[p[1]], p[2]))

-----------------------------------------------------------------------------
(* Netting. *)

\* Mutated: each direction is netted by itself.
PairAsNamed(c) == <<c.payer, c.receiver>>

PairOf(c) == IF c.payer < c.receiver THEN <<c.payer, c.receiver>>
                                     ELSE <<c.receiver, c.payer>>

\* The one instruction of a pair.  Its currency is that of the first swap of
\* the call, whatever the pair's.
Instruction(pair, due, swaps) ==
  LET own == {p \in DOMAIN due : PairOf(due[p]) = pair}
      net == SumFunctionOnSet([p \in own |-> IF due[p].payer = pair[1] THEN due[p].net
                                                                     ELSE -due[p].net], own)
  IN [payer |-> IF net >= 0 THEN pair[1] ELSE pair[2],
      receiver |-> IF net >= 0 THEN pair[2] ELSE pair[1],
      currency |-> swaps[1].currency,
      net_amount |-> IF net >= 0 THEN net ELSE -net,
      fixed_gross |-> SumFunctionOnSet([p \in own |-> due[p].fixed_amount], own),
      floating_gross |-> SumFunctionOnSet([p \in own |-> due[p].floating_amount], own),
      swap_refs |-> [p \in own |-> due[p].swap_ref]]

\* Mutated: nothing is too little to be paid.
WorthAnything(instruction) == instruction.net_amount >= 0

WorthPaying(instruction) == instruction.net_amount > DUST

Netted(due, swaps) ==
  {x \in {Instruction(PairOf(due[p]), due, swaps) : p \in DOMAIN due} : WorthPaying(x)}

\* generate_settlement_instructions.  A disordered period panics; where a
\* forward rate underflows, a build with overflow checks panics and another
\* goes on with the wrapped rate.
Settle(swaps, date, rates) ==
  LET curve == bootstrap_annual(rates)
      due == CouponsDue(swaps, date, curve.dfs)
  IN
  /\ asked' = [swaps |-> swaps, date |-> date, rates |-> rates]
  /\ \/ /\ curve.outcome # "Ok"
        /\ result' = "no curve" /\ coupons' = <<>> /\ instructions' = {}
     \/ /\ curve.outcome = "Ok"
        /\ Disordered(swaps, date) \/ AnyUnderflow(swaps, date, curve.dfs)
        /\ result' = "panicked" /\ coupons' = <<>> /\ instructions' = {}
     \/ /\ curve.outcome = "Ok" /\ ~Disordered(swaps, date)
        /\ result' = "settled" /\ coupons' = due /\ instructions' = Netted(due, swaps)
  /\ UNCHANGED fixingVars

\* upcoming_payments, up to a date; sorted and each once, so a set here.
upcoming_payments(swaps, from, until) ==
  {d \in UNION {Range(swaps[k].payment_dates) : k \in DOMAIN swaps} : from < d /\ d <= until}

-----------------------------------------------------------------------------
(* The two together. *)

Publish(x, f) == AddFixing(x, f) /\ UNCHANGED settlementVars

CouponInit == FixingsInit /\ SettlementInit

CouponNext ==
  \/ \E x \in Indices, f \in Publications : Publish(x, f)
  \/ \E swaps \in Books, date \in PaymentDates, rates \in RateCurves :
       Settle(swaps, date, rates)

CouponSpec == CouponInit /\ [][CouponNext]_<<fixingVars, settlementVars>>

-----------------------------------------------------------------------------
(* Properties. *)

\* The types of the store and of what a call returned: fixed coupons are not
\* negative, amounts paid are positive, and they pass between the two sides of
\* a swap of the call.
CouponTypeOK ==
  /\ \A x \in Indices : Range(store[x]) \subseteq Publications
  /\ asked.swaps \in Books \union {<<>>}
  /\ \A p \in DOMAIN coupons :
       /\ coupons[p].fixed_amount \in Nat /\ coupons[p].floating_amount \in Nat
       /\ coupons[p].net \in Int
  /\ \A x \in instructions :
       /\ x.net_amount \in Nat \ {0}
       /\ \E k \in DOMAIN asked.swaps :
            {x.payer, x.receiver} = {asked.swaps[k].payer, asked.swaps[k].receiver}
  /\ result \in {"none", "settled", "no curve", "panicked"}

\* "Bilateral netting" (README.md:47): between any two banks at most one
\* instruction passes, in one direction, it pays what the coupons between
\* them come to, what is not paid is dust, its references are their swaps,
\* and coupons arise exactly on the days announced as upcoming.
NetsConserved ==
  result = "settled" =>
    /\ (DOMAIN coupons # {})
         <=> asked.date \in upcoming_payments(asked.swaps, asked.date - 1, asked.date)
    /\ \A a \in Banks : \A b \in Banks \ {a} :
         LET between == {p \in DOMAIN coupons : {coupons[p].payer, coupons[p].receiver} = {a, b}}
             owed == SumFunctionOnSet([p \in between |-> IF coupons[p].payer = a
                                                         THEN coupons[p].net
                                                         ELSE -coupons[p].net], between)
             paid == {x \in instructions : {x.payer, x.receiver} = {a, b}}
         IN /\ Cardinality(paid) <= 1
            /\ paid = {} => -DUST <= owed /\ owed <= DUST
            /\ \A x \in paid :
                 /\ owed = IF x.payer = a THEN x.net_amount ELSE -x.net_amount
                 /\ x.swap_refs = [p \in between |-> coupons[p].swap_ref]

\* "For OIS floating legs, the coupon is NOT a forward rate. It's the
\* compounded realized overnight rate over the accrual period"
\* (fixings.rs:3): where the fixings of a whole period are in, the floating
\* amount settled is their coupon, to one part in RAY of the notional.
CouponIsCompounded ==
  result = "settled" =>
    \A k \in DOMAIN asked.swaps :
      LET swap == asked.swaps[k]
          start == swap.settlement
          end == swap.payment_dates[1]
          fixings == get_fixings(swap.currency, start, end)
          days == SumFunctionOnSet([i \in fixings |-> StoreOf(swap.currency)[i].days], fixings)
          coupon == period_coupon(swap.currency, swap.notional, start, end)
      IN (end = asked.date /\ days = end - start) =>
           \A p \in DOMAIN coupons :
             coupons[p].swap_ref = swap.id =>
               LET gap == (coupons[p].floating_amount \div RAY) - (coupon.num * RAY) \div coupon.den
               IN -swap.notional <= gap /\ gap <= swap.notional

=============================================================================
