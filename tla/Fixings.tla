------------------------------- MODULE Fixings -------------------------------
(***************************************************************************)
(* Overnight fixings and the coupons compounded from them:                 *)
(* core/src/fixings.rs.  Rates may be negative.  A floating-point number is *)
(* an exact fraction here: the code's products agree up to their last bits. *)
(***************************************************************************)
EXTENDS CurveMath

CONSTANTS
  Publications,   \* fixings that may be added: date, rate and days covered
  MaxFixings,     \* bound on the fixings added
  DAY_BASIS       \* days of a year of interest, 360 in the code

Indices == {"SOFR", "ESTR"}

ASSUME FixingsAssumption ==
  /\ \A f \in Publications : f.date \in Nat /\ f.rate \in Int /\ f.days \in Nat
  /\ MaxFixings \in Nat
  /\ DAY_BASIS \in Nat \ {0}

VARIABLES
  store,   \* store[x]: the fixings of index x, by date
  added    \* history: added[x], the fixings in the order they were added

fixingVars == <<store, added>>

FixingsInit ==
  /\ store = [x \in Indices |-> <<>>]
  /\ added = [x \in Indices |-> <<>>]

-----------------------------------------------------------------------------
\* Mutated: the fixing stays where it was pushed.
Pushed(fixings, f) == Append(fixings, f)

\* Pushed and sorted by date: the sort is stable and the rest is sorted, so
\* the fixing ends up behind those of its date.
Inserted(fixings, f) ==
  InsertAt(fixings, Cardinality({i \in DOMAIN fixings : fixings[i].date <= f.date}) + 1, f)

\* add_sofr and add_estr: a fixing already there for the date stays there.
AddFixing(x, f) ==
  /\ Len(added["SOFR"]) + Len(added["ESTR"]) < MaxFixings
  /\ store' = [store EXCEPT ![x] = Inserted(@, f)]
  /\ added' = [added EXCEPT ![x] = Append(@, f)]

-----------------------------------------------------------------------------
(* Queries. *)

\* Mutated: the period holds its last day.
InClosedPeriod(f, start, end) == start <= f.date /\ f.date <= end

\* Periods are half open.
InPeriod(f, start, end) == start <= f.date /\ f.date < end

\* Only two indices are stored; other currencies have no fixings.
StoreOf(currency) ==
  CASE currency \in {"USD", "SOFR"} -> store["SOFR"]
    [] currency \in {"EUR", "ESTR"} -> store["ESTR"]
    [] OTHER -> <<>>

\* The fixings of a period, by their places in the store.
get_fixings(currency, start, end) ==
  {i \in DOMAIN StoreOf(currency) : InPeriod(StoreOf(currency)[i], start, end)}

ProductOnSet(values, places) == FoldFunctionOnSet(LAMBDA v, w : v * w, 1, values, places)

\* The product of the daily factors of some fixings, over its denominator.
Growth(fixings, places) ==
  LET one == RAY * DAY_BASIS
  IN [num |-> ProductOnSet([i \in DOMAIN fixings |-> one + fixings[i].rate * fixings[i].days],
                           places),
      den |-> ProductOnSet([i \in DOMAIN fixings |-> one], places)]

\* period_coupon: the notional times the growth less one.
period_coupon(currency, notional, start, end) ==
  LET growth == Growth(StoreOf(currency), get_fixings(currency, start, end))
  IN [num |-> notional * (growth.num - growth.den), den |-> growth.den]

-----------------------------------------------------------------------------
(* Properties. *)

\* "SOFR daily fixings, sorted by date ascending" (fixings.rs:72), and none
\* lost, added, moved to the other index or out of the order of its own date,
\* however the dates arrive: the store rearranges what was added to it.
FixingsKept ==
  \A x \in Indices :
    LET places == DOMAIN added[x]
        date(i) == added[x][i].date
    IN /\ \A i, j \in DOMAIN store[x] : i < j => store[x][i].date <= store[x][j].date
       /\ Len(store[x]) = Len(added[x])
       /\ \E place \in Bijection(places, places) :
            /\ \A i \in places : store[x][place[i]] = added[x][i]
            /\ \A i, j \in places : i < j /\ date(i) = date(j) => place[i] < place[j]

\* A notional of one together with its coupon of a period.
Reinvested(currency, start, end) ==
  LET coupon == period_coupon(currency, 1, start, end)
  IN [num |-> coupon.num + coupon.den, den |-> coupon.den]

Adjoin(first, second, both) ==
  first \intersect second = {} /\ first \union second = both

Compound(first, second, both) ==
  first.num * second.num = both.num /\ first.den * second.den = both.den

\* Periods that share an end share no fixing and leave none out; and
\* reinvesting the coupon of the first in the second earns the coupon of both
\* together, exactly in fractions, in the code up to the last bits.
PeriodsCompose ==
  LET dates == {f.date : f \in Publications}
  IN \A currency \in {"USD", "EUR", "GBP"}, start, middle, end \in dates :
       start <= middle /\ middle <= end =>
         /\ Adjoin(get_fixings(currency, start, middle), get_fixings(currency, middle, end),
                   get_fixings(currency, start, end))
         /\ Compound(Reinvested(currency, start, middle), Reinvested(currency, middle, end),
                     Reinvested(currency, start, end))

=============================================================================
