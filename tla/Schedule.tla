------------------------------ MODULE Schedule ------------------------------
(***************************************************************************)
(* generate_schedule of core/src/schedule.rs, one step per turn of its     *)
(* loop: payment dates are rolled back from the end of a term, a whole     *)
(* number of months at a time, until they reach its start.                 *)
(***************************************************************************)
EXTENDS Calendar

VARIABLES
  term,       \* arguments: start, end, and payments per year
  rolled,     \* the dates found so far, latest first
  schedule,   \* the payment dates returned
  stage       \* "idle", "rolling", "returned", "overflowed"

scheduleVars == <<term, rolled, schedule, stage>>

NoTerm == [start |-> 0, end |-> 0, frequency |-> 0]

ScheduleInit ==
  /\ term = NoTerm
  /\ rolled = <<>>
  /\ schedule = <<>>
  /\ stage = "idle"

-----------------------------------------------------------------------------
\* Frequency, in payments a year: none stands for ZeroCoupon.
PaymentsPerYear == {0, 1, 2, 4, 12}

\* Frequency::months; zero payments a year are one payment, at the end.
months(frequency) == 12 \div frequency

\* Mutated: rolls from the date before, whose day may be cut already.
RolledOnce(t, i) ==
  LET from == unix_to_ymd(IF i = 1 THEN t.end ELSE rolled[i - 1])
      total == from.y * 12 + from.m - 1 - months(t.frequency)
      y == total \div 12
      m == (total % 12) + 1
  IN ymd_to_unix(y, m, Lesser(from.d, days_in_month(y, m)))

\* The date i periods before the end of a term, on the day of the end or the
\* last of a shorter month.
RolledBack(t, i) ==
  LET end == unix_to_ymd(t.end)
      total == end.y * 12 + end.m - 1 - i * months(t.frequency)
      y == total \div 12
      m == (total % 12) + 1
  IN ymd_to_unix(y, m, Lesser(end.d, days_in_month(y, m)))

\* The midnight before a time.
Midnight(ts) == LET t == unix_to_ymd(ts) IN ymd_to_unix(t.y, t.m, t.d)

NextRoll == RolledBack(term, Len(rolled) + 1)

\* generate_schedule is called.
Generate(t) ==
  /\ stage = "idle"
  /\ term' = t
  /\ stage' = "rolling"
  /\ UNCHANGED <<rolled, schedule>>

ReturnDates(dates) ==
  /\ schedule' = dates
  /\ stage' = "returned"
  /\ UNCHANGED <<term, rolled>>

\* ZeroCoupon: the end as it was given.
ReturnEnd ==
  /\ stage = "rolling"
  /\ term.frequency = 0
  /\ ReturnDates(<<term.end>>)

\* A date before 1970 has no timestamp.  A build with overflow checks panics;
\* without them the product is later than every date, and so are those the
\* loop goes on to find, year after year, until memory ends.  No schedule is
\* returned.
Overflow ==
  /\ stage = "rolling"
  /\ term.frequency # 0
  /\ NextRoll < 0
  /\ stage' = "overflowed"
  /\ UNCHANGED <<term, rolled, schedule>>

\* One turn of the loop.
Roll ==
  /\ stage = "rolling"
  /\ term.frequency # 0
  /\ NextRoll > term.start
  /\ rolled' = Append(rolled, NextRoll)
  /\ UNCHANGED <<term, schedule, stage>>

\* Mutated: the loop is left only after a first date.
StartReachedLater == NextRoll <= term.start /\ rolled # <<>>

StartReached == NextRoll <= term.start

\* Mutated: the dates stay in the order they were found.
ReturnedUnreversed == Append(rolled, Midnight(term.end))

\* The dates in ascending order, closed by the midnight of the end.
Returned == Append(Reverse(rolled), Midnight(term.end))

\* The loop is left.
ReturnRolled ==
  /\ stage = "rolling"
  /\ term.frequency # 0
  /\ NextRoll >= 0
  /\ StartReached
  /\ ReturnDates(Returned)

Rolling == ReturnEnd \/ Overflow \/ Roll \/ ReturnRolled

\* The caller takes the dates and the next call starts anew.
Taken ==
  /\ stage = "returned"
  /\ term' = NoTerm
  /\ rolled' = <<>>
  /\ schedule' = <<>>
  /\ stage' = "idle"

-----------------------------------------------------------------------------
(* Properties. *)

\* "Payment dates by rolling backward from end to start" (schedule.rs:43):
\* the dates ascend from after the start, are a whole number of months apart,
\* fall on the day of the end wherever the month has one (a short February
\* does not pull the later ones back), leave no room for a further period
\* before the first, and end at the midnight that opens the last day of the
\* term.  (Where the term ends later on that day, schedule.rs:46 promises
\* otherwise: "the last payment is at `end`".)
PeriodsTile ==
  (stage = "returned" /\ term.frequency # 0) =>
    LET n == Len(schedule)
        end == unix_to_ymd(term.end)
        ymd == [i \in 1..n |-> unix_to_ymd(schedule[i])]
        month == [i \in 1..n |-> ymd[i].y * 12 + ymd[i].m]
    IN /\ ymd[n] = end /\ schedule[n] <= term.end
       /\ \A i \in 1..n :
            /\ schedule[i] % DAY = 0
            /\ ymd[i].d = Lesser(end.d, days_in_month(ymd[i].y, ymd[i].m))
            /\ i < n => schedule[i] > term.start
            /\ i > 1 => month[i] = month[i - 1] + months(term.frequency)
       /\ LET prior == month[1] - months(term.frequency)
              start == unix_to_ymd(term.start)
              first == start.y * 12 + start.m
          IN \/ prior < first
             \/ /\ prior = first
                /\ Lesser(end.d, days_in_month(start.y, start.m)) <= start.d

\* Between two dates of a schedule on one day of the month, both 30/360
\* conventions count the months and nothing else, whatever the months are.
RegularPeriodsCountAlike ==
  stage = "returned" =>
    \A i \in 2..Len(schedule) :
      LET a == unix_to_ymd(schedule[i - 1])
          b == unix_to_ymd(schedule[i])
          whole == (RAY * months(term.frequency)) \div 12
      IN Lesser(a.d, 30) = Lesser(b.d, 30) =>
           /\ year_fraction("Thirty360BondBasis", schedule[i - 1], schedule[i]) = whole
           /\ year_fraction("ThirtyE360", schedule[i - 1], schedule[i]) = whole

=============================================================================
