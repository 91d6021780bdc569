------------------------------ MODULE Calendar ------------------------------
(***************************************************************************)
(* Timestamps, civil dates and day counts: core/src/daycount.rs and the    *)
(* conversions of core/src/schedule.rs.  A timestamp counts DAY units a    *)
(* day from 1970-01-01; dates are those of the Gregorian calendar.  A date *)
(* before 1970 has no timestamp: ymd_to_unix gives a number below zero     *)
(* where the code overflows, and its caller, Schedule, tells them apart.   *)
(***************************************************************************)
EXTENDS CurveMath

CONSTANT DAY   \* SECONDS_PER_DAY

ASSUME DayAssumption == DAY \in Nat \ {0}

\* civil_from_days of an era of 400 years that starts on the first of March.
unix_to_ymd(ts) ==
  LET z == ts \div DAY + 719468
      doe == z % 146097
      yoe == (doe - doe \div 1460 + doe \div 36524 - doe \div 146096) \div 365
      doy == doe - (365 * yoe + yoe \div 4 - yoe \div 100)
      mp == (5 * doy + 2) \div 153
      m == IF mp < 10 THEN mp + 3 ELSE mp - 9
  IN [y |-> yoe + 400 * (z \div 146097) + (IF m <= 2 THEN 1 ELSE 0),
      m |-> m,
      d |-> doy - (153 * mp + 2) \div 5 + 1]

\* days_from_civil, at midnight; below zero where the unsigned product of the
\* code overflows.
ymd_to_unix(y, m, d) ==
  LET yy == IF m <= 2 THEN y - 1 ELSE y
      yoe == yy % 400
      doy == (153 * (IF m > 2 THEN m - 3 ELSE m + 9) + 2) \div 5 + d - 1
      doe == yoe * 365 + yoe \div 4 - yoe \div 100 + doy
  IN ((yy \div 400) * 146097 + doe - 719468) * DAY

days_in_month(y, m) ==
  CASE m = 2 -> IF y % 4 = 0 /\ (y % 100 # 0 \/ y % 400 = 0) THEN 29 ELSE 28
    [] m \in {4, 6, 9, 11} -> 30
    [] OTHER -> 31

-----------------------------------------------------------------------------
(* Day counts. *)

Lesser(a, b) == IF a < b THEN a ELSE b

AbsoluteOf(x) == IF x < 0 THEN -x ELSE x

\* The days between two dates of a year of twelve months of thirty days.
ThirtyDays(a, b, d1, d2) ==
  AbsoluteOf(360 * (b.y - a.y) + 30 * (b.m - a.m) + (d2 - d1))

\* Mutated: the last day of a month is not the thirtieth at the end.
thirty_e360_start(a, b) == (ThirtyDays(a, b, Lesser(a.d, 30), b.d) * RAY) \div 360

thirty_360_bond_basis(a, b) ==
  LET d1 == Lesser(a.d, 30)
  IN (ThirtyDays(a, b, d1, IF d1 = 30 THEN Lesser(b.d, 30) ELSE b.d) * RAY) \div 360

thirty_e360(a, b) ==
  (ThirtyDays(a, b, Lesser(a.d, 30), Lesser(b.d, 30)) * RAY) \div 360

Conventions == {"Act360", "Act365Fixed", "Thirty360BondBasis", "ThirtyE360"}

\* The code asserts that the end is not before the start.
year_fraction(convention, start, end) ==
  CASE convention = "Act360" -> ActualFraction(360 * DAY, start, end)
    [] convention = "Act365Fixed" -> ActualFraction(365 * DAY, start, end)
    [] convention = "Thirty360BondBasis" ->
         thirty_360_bond_basis(unix_to_ymd(start), unix_to_ymd(end))
    [] convention = "ThirtyE360" -> thirty_e360(unix_to_ymd(start), unix_to_ymd(end))

=============================================================================
