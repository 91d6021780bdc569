--------------------------- MODULE Schedule_proofs ---------------------------
(***************************************************************************)
(* The calendar of core/src/daycount.rs and the loop of generate_schedule, *)
(* for every length of a day and every term.                               *)
(***************************************************************************)
EXTENDS Schedule, SequenceTheorems, TLAPS

-----------------------------------------------------------------------------
(* Eras.  A year here starts on the first of March, and an era is the 400  *)
(* years after which the calendar repeats: the leap day, where a year has  *)
(* one, is its last.                                                       *)

\* The year of a day of the era, as unix_to_ymd computes it.
YearOfEra(doe) == (doe - doe \div 1460 + doe \div 36524 - doe \div 146096) \div 365

\* The first day of a year of the era.
StartOfYear(yoe) == 365 * yoe + yoe \div 4 - yoe \div 100

\* Whether a year of the era has a leap day.
LeapOfEra(yoe) == yoe % 4 = 3 /\ (yoe % 100 # 99 \/ yoe = 399)

YearLength(yoe) == IF LeapOfEra(yoe) THEN 366 ELSE 365

\* The rule of the leap years, and a year counted in eras.
IsLeap(y) == y % 4 = 0 /\ (y % 100 # 0 \/ y % 400 = 0)

EraOf(yy) == yy \div 400

YearInEra(yy) == yy % 400

\* A quotient is the one multiple that fits.
LEMMA QuotientIs ==
  ASSUME NEW a \in Int, NEW b \in Nat \ {0}, NEW k \in Int, b * k <= a, a < b * k + b
  PROVE  a \div b = k
  OBVIOUS

\* A year of the era in centuries, groups of four and single years.
LEMMA YearParts ==
  ASSUME NEW y \in 0..399
  PROVE  \E c \in 0..3, k \in 0..24, j \in 0..3 :
           /\ y = 100 * c + 4 * k + j
           /\ y \div 4 = 25 * c + k
           /\ y \div 100 = c
           /\ StartOfYear(y) = 36524 * c + 1461 * k + 365 * j
           /\ LeapOfEra(y) <=> j = 3 /\ (k # 24 \/ c = 3)
  <1> DEFINE c == y \div 100
             r == y - 100 * c
             k == r \div 4
             j == r - 4 * k
  <1>1. c \in 0..3 /\ r \in 0..99
    OBVIOUS
  <1> HIDE DEF c
  <1>2. k \in 0..24 /\ j \in 0..3
    BY <1>1
  <1>3. y = 100 * c + 4 * k + j
    BY <1>1, <1>2
  <1> HIDE DEF k, j
  <1>4. y \div 4 = 25 * c + k /\ y % 4 = j
    BY <1>1, <1>2, <1>3
  <1>5. y \div 100 = c /\ y % 100 = 4 * k + j
    BY <1>1, <1>2, <1>3
  <1>6. StartOfYear(y) = 36524 * c + 1461 * k + 365 * j
    BY <1>1, <1>2, <1>3, <1>4, <1>5 DEF StartOfYear
  <1>7. LeapOfEra(y) <=> j = 3 /\ (k # 24 \/ c = 3)
    BY <1>1, <1>2, <1>3, <1>4, <1>5 DEF LeapOfEra
  <1> QED
    BY <1>1, <1>2, <1>3, <1>4, <1>5, <1>6, <1>7

\* The computed year is the year the day lies in.
LEMMA YearOfEraIs ==
  ASSUME NEW y \in Int, 0 <= y, y <= 399, NEW doe \in Int,
         StartOfYear(y) <= doe, doe < StartOfYear(y) + YearLength(y)
  PROVE  0 <= doe /\ doe <= 146096 /\ YearOfEra(doe) = y
  <1>1. PICK c \in 0..3, k \in 0..24, j \in 0..3 :
           /\ y = 100 * c + 4 * k + j
           /\ StartOfYear(y) = 36524 * c + 1461 * k + 365 * j
           /\ LeapOfEra(y) <=> j = 3 /\ (k # 24 \/ c = 3)
    BY YearParts
  <1> DEFINE t == doe - StartOfYear(y)
  <1>2. t \in 0..365 /\ (t = 365 => j = 3 /\ (k # 24 \/ c = 3))
    <2>1. StartOfYear(y) \in Int
      BY <1>1
    <2>2. YearLength(y) \in {365, 366}
      BY DEF YearLength
    <2>3. t \in 0..365 /\ t < YearLength(y)
      BY <2>1, <2>2
    <2> QED
      BY <1>1, <2>2, <2>3 DEF YearLength
  <1>3. doe = StartOfYear(y) + t
    BY <1>1
  <1> HIDE DEF t
  <1>4. doe = 36524 * c + 1461 * k + 365 * j + t
    BY <1>1, <1>2, <1>3
  <1>5. 0 <= doe /\ doe <= 146096
    BY <1>1, <1>2, <1>4
  <1>6. 1461 * k + 365 * j + t <= 36524
        /\ (1461 * k + 365 * j + t = 36524 => c = 3)
    BY <1>1, <1>2
  <1>7. doe \div 36524 - doe \div 146096 = c
    <2>1. CASE 1461 * k + 365 * j + t < 36524
      <3>1. doe \div 36524 = c
        BY <1>1, <1>2, <1>4, <2>1, QuotientIs
      <3>2. doe < 146096
        BY <1>1, <1>2, <1>4, <2>1
      <3>3. doe \div 146096 = 0
        BY <1>5, <3>2
      <3> QED
        BY <3>1, <3>3
    <2>2. CASE 1461 * k + 365 * j + t = 36524
      BY <1>1, <1>2, <1>4, <1>6, <2>2
    <2> QED
      BY <1>1, <1>2, <1>6, <2>1, <2>2
  <1> DEFINE u == 24 * c + k + 365 * j + t
  <1>8. u \in 0..1556 /\ doe = 1460 * (25 * c + k) + u
    BY <1>1, <1>2, <1>4
  <1> HIDE DEF u
  <1>9. doe \div 1460 = 25 * c + k + (IF u >= 1460 THEN 1 ELSE 0)
    <2>1. CASE u < 1460
      <3> DEFINE q == 25 * c + k
      <3>1. q \in Int /\ 1460 * q <= doe /\ doe < 1460 * q + 1460
        BY <1>1, <1>8, <2>1
      <3> HIDE DEF q
      <3>2. doe \div 1460 = q
        BY <3>1
      <3> QED
        BY <1>1, <1>8, <2>1, <3>2 DEF q
    <2>2. CASE u >= 1460
      BY <1>1, <1>5, <1>8, <2>2, QuotientIs
    <2> QED
      BY <1>8, <2>1, <2>2
  <1> DEFINE s == t - (IF u >= 1460 THEN 1 ELSE 0)
  <1>10. s \in 0..364
    BY <1>1, <1>2 DEF u
  <1>11. doe - doe \div 1460 + doe \div 36524 - doe \div 146096 = 365 * y + s
    <2>1. doe \div 36524 \in Int /\ doe \div 146096 \in Int
      BY <1>5
    <2> QED
      BY <1>1, <1>2, <1>4, <1>7, <1>8, <1>9, <2>1
  <1> HIDE DEF s
  <1>12. (365 * y + s) \div 365 = y
    BY <1>10, QuotientIs
  <1> QED
    BY <1>5, <1>11, <1>12 DEF YearOfEra

-----------------------------------------------------------------------------
(* Months. *)

\* The year, from March to February, of a civil date.
ShiftedYear(y, m) == IF m <= 2 THEN y - 1 ELSE y

\* The months counted from March.
FromMarch(m) == IF m > 2 THEN m - 3 ELSE m + 9

\* The first day of a month in its year.
MonthStart(mp) == (153 * mp + 2) \div 5

\* The days before a date since the first day of 1970.
DayNumber(y, m, d) ==
  146097 * EraOf(ShiftedYear(y, m))
    + StartOfYear(YearInEra(ShiftedYear(y, m))) + MonthStart(FromMarch(m)) + d - 1 - 719468

ValidDate(y, m, d) == y \in Int /\ m \in 1..12 /\ d \in 1..days_in_month(y, m)

\* A year of the calendar in eras, and what the rules of a leap year say of
\* the year that February closes.
LEMMA EraParts ==
  ASSUME NEW yy \in Int
  PROVE  /\ YearInEra(yy) \in 0..399 /\ EraOf(yy) \in Int
         /\ yy = 400 * EraOf(yy) + YearInEra(yy)
         /\ LeapOfEra(YearInEra(yy)) <=> IsLeap(yy + 1)
  <1> DEFINE e == EraOf(yy)
             r == YearInEra(yy)
  <1>1. e \in Int /\ r \in 0..399 /\ yy = 400 * e + r
    BY DEF EraOf, YearInEra
  <1> HIDE DEF e, r
  <1>2. (yy + 1) % 4 = (r + 1) % 4 /\ (yy + 1) % 100 = (r + 1) % 100
        /\ (yy + 1) % 400 = (r + 1) % 400
    BY <1>1
  <1>3. (r + 1) % 4 = 0 <=> r % 4 = 3
    BY <1>1
  <1>4. (r + 1) % 100 = 0 <=> r % 100 = 99
    BY <1>1
  <1>5. (r + 1) % 400 = 0 <=> r = 399
    BY <1>1
  <1>6. LeapOfEra(r) <=> IsLeap(yy + 1)
    BY <1>2, <1>3, <1>4, <1>5 DEF LeapOfEra, IsLeap
  <1> QED
    BY <1>1, <1>6 DEF e, r

\* Where the months start, the last one closing the year.
LEMMA MonthStarts ==
  /\ MonthStart(0) = 0 /\ MonthStart(1) = 31 /\ MonthStart(2) = 61 /\ MonthStart(3) = 92
  /\ MonthStart(4) = 122 /\ MonthStart(5) = 153 /\ MonthStart(6) = 184 /\ MonthStart(7) = 214
  /\ MonthStart(8) = 245 /\ MonthStart(9) = 275 /\ MonthStart(10) = 306
  /\ MonthStart(11) = 337 /\ MonthStart(12) = 367
  BY DEF MonthStart

\* The month of a day of the year, as unix_to_ymd computes it.
LEMMA MonthIs ==
  ASSUME NEW mp \in 0..11, NEW doy \in Int,
         MonthStart(mp) <= doy, doy < MonthStart(mp + 1)
  PROVE  (5 * doy + 2) \div 153 = mp
  <1>1. 153 * mp <= 5 * doy + 2 /\ 5 * doy + 2 < 153 * mp + 153
    BY DEF MonthStart
  <1> QED
    BY <1>1, QuotientIs

\* A month is as long as days_in_month says: up to the next one, or to the
\* end of the year.
LEMMA MonthLength ==
  ASSUME NEW y \in Int, NEW m \in 1..12
  PROVE  LET mp == FromMarch(m)
             length == YearLength(YearInEra(ShiftedYear(y, m)))
         IN /\ mp \in 0..11
            /\ days_in_month(y, m) \in 28..31
            /\ MonthStart(mp) + days_in_month(y, m) =
                 IF mp = 11 THEN length ELSE MonthStart(mp + 1)
            /\ MonthStart(mp) + days_in_month(y, m) <= length
            /\ MonthStart(mp) + days_in_month(y, m) <= MonthStart(mp + 1)
            /\ 0 <= MonthStart(mp)
  <1>1. days_in_month(y, m) \in 28..31 /\ FromMarch(m) \in 0..11
    BY DEF days_in_month, FromMarch
  <1>2. CASE m = 2
    <2> DEFINE r == YearInEra(y - 1)
    <2>1. LeapOfEra(r) <=> IsLeap(y)
      <3>1. PICK x \in Int : x = y - 1 /\ x + 1 = y
        OBVIOUS
      <3> QED
        BY <3>1, EraParts
    <2>2. FromMarch(m) = 11 /\ ShiftedYear(y, m) = y - 1
      BY <1>2 DEF FromMarch, ShiftedYear
    <2> HIDE DEF r
    <2>3. days_in_month(y, m) = (IF LeapOfEra(r) THEN 29 ELSE 28)
      BY <1>2, <2>1 DEF days_in_month, IsLeap
    <2> QED
      BY <1>1, <2>2, <2>3, MonthStarts DEF YearLength, r
  <1>3. CASE m # 2
    <2>1. MonthStart(FromMarch(m)) + days_in_month(y, m) = MonthStart(FromMarch(m) + 1)
          /\ FromMarch(m) # 11 /\ MonthStart(FromMarch(m)) + days_in_month(y, m) <= 337
          /\ 0 <= MonthStart(FromMarch(m)) /\ MonthStart(FromMarch(m)) \in Int
      <3> USE DEF days_in_month, FromMarch
      <3>1. CASE m \in {1, 3, 4}
        BY <3>1, MonthStarts
      <3>2. CASE m \in {5, 6, 7, 8}
        BY <3>2, MonthStarts
      <3>3. CASE m \in {9, 10, 11, 12}
        BY <3>3, MonthStarts
      <3> QED
        BY <1>3, <3>1, <3>2, <3>3
    <2> QED
      BY <1>1, <2>1 DEF YearLength
  <1> QED
    BY <1>2, <1>3

-----------------------------------------------------------------------------
(* From dates to timestamps and back. *)

LEMMA Midnights ==
  ASSUME NEW y \in Int, NEW m \in Int, NEW d \in Int
  PROVE  /\ ymd_to_unix(y, m, d) = DayNumber(y, m, d) * DAY
         /\ DayNumber(y, m, d) \in Int
  <1> DEFINE yy == ShiftedYear(y, m)
             yoe == YearInEra(yy)
             doy == MonthStart(FromMarch(m)) + d - 1
  <1>1. ymd_to_unix(y, m, d)
          = (EraOf(yy) * 146097
               + (yoe * 365 + yoe \div 4 - yoe \div 100 + doy) - 719468) * DAY
    BY DEF ymd_to_unix, ShiftedYear, MonthStart, FromMarch, EraOf, YearInEra
  <1>2. EraOf(yy) \in Int /\ yoe \in Int
    <2>1. yy \in Int
      BY DEF ShiftedYear
    <2> HIDE DEF yy
    <2>2. yoe \in 0..399 /\ EraOf(yy) \in Int
      BY <2>1, EraParts
    <2> QED
      BY <2>2
  <1>3. MonthStart(FromMarch(m)) \in Int
    BY DEF MonthStart, FromMarch
  <1>4. doy \in Int
    BY <1>3
  <1>5. StartOfYear(yoe) \in Int
    BY <1>2 DEF StartOfYear
  <1>6. DayNumber(y, m, d) = 146097 * EraOf(yy) + StartOfYear(yoe) + doy - 719468
    BY <1>2, <1>3, <1>5 DEF DayNumber
  <1> HIDE DEF yy, yoe, doy
  <1>7. EraOf(yy) * 146097 + (yoe * 365 + yoe \div 4 - yoe \div 100 + doy) - 719468
          = 146097 * EraOf(yy) + StartOfYear(yoe) + doy - 719468
    BY <1>2, <1>4 DEF StartOfYear
  <1> QED
    BY <1>1, <1>2, <1>4, <1>5, <1>6, <1>7

\* A date is read back from every instant of its day.
LEMMA CivilIs ==
  ASSUME NEW y, NEW m, NEW d, ValidDate(y, m, d),
         NEW ts \in Int, ts \div DAY = DayNumber(y, m, d)
  PROVE  unix_to_ymd(ts) = [y |-> y, m |-> m, d |-> d]
  <1> DEFINE yy == ShiftedYear(y, m)
             e == EraOf(yy)
             r == YearInEra(yy)
             mp == FromMarch(m)
             t == MonthStart(mp) + d - 1
             doe == StartOfYear(r) + t
             z == ts \div DAY + 719468
  <1>1. y \in Int /\ m \in 1..12 /\ d \in Int /\ 1 <= d /\ d <= days_in_month(y, m)
        /\ days_in_month(y, m) \in Int
    BY MonthLength DEF ValidDate
  <1>2. yy \in Int
    BY <1>1 DEF ShiftedYear
  <1>3. e \in Int /\ r \in 0..399 /\ yy = 400 * e + r
    BY <1>2, EraParts
  <1>4. /\ mp \in 0..11 /\ MonthStart(mp) \in Int /\ 0 <= MonthStart(mp)
        /\ MonthStart(mp) + days_in_month(y, m) <= YearLength(r)
        /\ MonthStart(mp) + days_in_month(y, m) <= MonthStart(mp + 1)
        /\ MonthStart(mp + 1) \in Int
    <2>1. mp \in 0..11 /\ 0 <= MonthStart(mp)
          /\ MonthStart(mp) + days_in_month(y, m) <= YearLength(r)
          /\ MonthStart(mp) + days_in_month(y, m) <= MonthStart(mp + 1)
      BY <1>1, MonthLength
    <2>2. MonthStart(mp) \in Int /\ MonthStart(mp + 1) \in Int
      BY <2>1 DEF MonthStart
    <2> QED
      BY <2>1, <2>2
  <1>5. YearLength(r) \in {365, 366}
    BY DEF YearLength
  <1>6. t \in 0..365 /\ t < YearLength(r) /\ MonthStart(mp) <= t /\ t < MonthStart(mp + 1)
    BY <1>1, <1>4, <1>5
  <1>7. StartOfYear(r) \in Int
    BY <1>3 DEF StartOfYear
  <1>8. z = 146097 * e + doe /\ ts \div DAY \in Int /\ z \in Int
    BY <1>1, <1>3, <1>4, <1>7, DayAssumption DEF DayNumber
  <1> HIDE DEF e, r, mp, t, z, yy
  <1>9. doe \in Int /\ 0 <= doe /\ doe <= 146096 /\ YearOfEra(doe) = r
    <2>0. r \in Int /\ 0 <= r /\ r <= 399
      BY <1>3
    <2>1. PICK x \in Int : /\ x = StartOfYear(r) + t
                           /\ StartOfYear(r) <= x /\ x < StartOfYear(r) + YearLength(r)
      BY <1>5, <1>6, <1>7
    <2>2. 0 <= x /\ x <= 146096 /\ YearOfEra(x) = r
      BY ONLY <2>0, <2>1, YearOfEraIs
    <2> QED
      BY <2>1, <2>2
  <1> HIDE DEF doe
  <1>10. z \div 146097 = e /\ z % 146097 = doe
    BY <1>3, <1>8, <1>9
  <1>11. doe - StartOfYear(r) = t
    BY <1>6, <1>7 DEF doe
  <1>12. (5 * t + 2) \div 153 = mp
    BY <1>4, <1>6, MonthIs
  <1>13. unix_to_ymd(ts)
           = [y |-> YearOfEra(doe) + 400 * e + (IF m <= 2 THEN 1 ELSE 0),
              m |-> m,
              d |-> t - MonthStart(mp) + 1]
    <2>1. (IF mp < 10 THEN mp + 3 ELSE mp - 9) = m
      BY <1>1 DEF mp, FromMarch
    <2>2. unix_to_ymd(ts)
            = LET doy == (z % 146097) - StartOfYear(YearOfEra(z % 146097))
                  month == IF (5 * doy + 2) \div 153 < 10 THEN (5 * doy + 2) \div 153 + 3
                           ELSE (5 * doy + 2) \div 153 - 9
              IN [y |-> YearOfEra(z % 146097) + 400 * (z \div 146097)
                          + (IF month <= 2 THEN 1 ELSE 0),
                  m |-> month,
                  d |-> doy - MonthStart((5 * doy + 2) \div 153) + 1]
      BY DEF unix_to_ymd, YearOfEra, StartOfYear, MonthStart, z
    <2> QED
      BY <1>9, <1>10, <1>11, <1>12, <2>1, <2>2
  <1>14. r + 400 * e + (IF m <= 2 THEN 1 ELSE 0) = y
    BY <1>1, <1>3 DEF yy, ShiftedYear
  <1>15. t - MonthStart(mp) + 1 = d
    BY <1>1, <1>4 DEF t
  <1> QED
    BY <1>9, <1>13, <1>14, <1>15

\* Every day of an era lies in a year of it: centuries first, then groups of
\* four years, then single years, the last of each taking the leap day.
LEMMA YearOfEraExists ==
  ASSUME NEW doe \in Int, 0 <= doe, doe <= 146096
  PROVE  \E r \in Int : /\ 0 <= r /\ r <= 399
                        /\ StartOfYear(r) <= doe
                        /\ doe < StartOfYear(r) + YearLength(r)
  <1> DEFINE c == IF doe \div 36524 > 3 THEN 3 ELSE doe \div 36524
             rem == doe - 36524 * c
             k == rem \div 1461
             s == rem - 1461 * k
             j == IF s \div 365 > 3 THEN 3 ELSE s \div 365
             t == s - 365 * j
             r == 100 * c + 4 * k + j
  <1>1. c \in {0, 1, 2, 3} /\ 0 <= rem /\ rem <= 36524 /\ rem \in Int
        /\ (rem = 36524 => c = 3) /\ doe = 36524 * c + rem
    OBVIOUS
  <1> HIDE DEF c, rem
  <1>2. k \in Int /\ 0 <= k /\ k <= 24 /\ s \in Int /\ 0 <= s /\ s <= 1460
        /\ (k = 24 /\ s = 1460 => c = 3) /\ rem = 1461 * k + s
    BY <1>1
  <1> HIDE DEF k, s
  <1>3. j \in {0, 1, 2, 3} /\ t \in Int /\ 0 <= t /\ t <= 365
        /\ (t = 365 => s = 1460 /\ j = 3) /\ s = 365 * j + t
    BY <1>2
  <1> HIDE DEF j, t
  <1>4. r \in Int /\ 0 <= r /\ r <= 399
    BY <1>1, <1>2, <1>3
  <1>5. r \div 4 = 25 * c + k /\ r % 4 = j /\ r \div 100 = c /\ r % 100 = 4 * k + j
    BY <1>1, <1>2, <1>3
  <1>6. StartOfYear(r) = 36524 * c + 1461 * k + 365 * j
    BY <1>1, <1>2, <1>3, <1>5 DEF StartOfYear
  <1>7. t = 365 => LeapOfEra(r)
    BY <1>1, <1>2, <1>3, <1>5 DEF LeapOfEra
  <1>8. doe = StartOfYear(r) + t
    BY <1>1, <1>2, <1>3, <1>6
  <1>9. t < YearLength(r) /\ YearLength(r) \in Int
    BY <1>3, <1>7 DEF YearLength
  <1>10. StartOfYear(r) \in Int
    BY <1>1, <1>2, <1>3, <1>6
  <1> HIDE DEF r
  <1> QED
    BY <1>3, <1>4, <1>8, <1>9, <1>10

\* Every instant lies on a date of the calendar.
LEMMA CivilExists ==
  ASSUME NEW ts \in Int
  PROVE  \E y, m, d : ValidDate(y, m, d) /\ ts \div DAY = DayNumber(y, m, d)
  <1> DEFINE z == ts \div DAY + 719468
             e == z \div 146097
             doe == z % 146097
  <1>0. z = ts \div DAY + 719468
    OBVIOUS
  <1>1. ts \div DAY \in Int
    BY DayAssumption
  <1>2. e \in Int /\ doe \in Int /\ 0 <= doe /\ doe <= 146096 /\ z = 146097 * e + doe
        /\ z \in Int
    BY <1>1
  <1> HIDE DEF z, e, doe
  <1>3. PICK r \in Int : /\ 0 <= r /\ r <= 399
                         /\ StartOfYear(r) <= doe
                         /\ doe < StartOfYear(r) + YearLength(r)
    BY <1>2, YearOfEraExists
  <1>4. StartOfYear(r) \in Int /\ YearLength(r) \in {365, 366}
    BY <1>3 DEF StartOfYear, YearLength
  <1>5. PICK t \in Int : doe = StartOfYear(r) + t /\ 0 <= t /\ t < YearLength(r)
    <2>1. doe - StartOfYear(r) \in Int /\ doe = StartOfYear(r) + (doe - StartOfYear(r))
      BY <1>2, <1>4
    <2> QED
      BY <1>2, <1>3, <1>4, <2>1
  <1> DEFINE mp == (5 * t + 2) \div 153
             m == IF mp < 10 THEN mp + 3 ELSE mp - 9
             d == t - MonthStart(mp) + 1
             y == r + 400 * e + (IF m <= 2 THEN 1 ELSE 0)
  <1>6. mp \in 0..11 /\ MonthStart(mp) <= t /\ t < MonthStart(mp + 1)
        /\ MonthStart(mp) \in Int /\ MonthStart(mp + 1) \in Int
    BY <1>4, <1>5 DEF MonthStart
  <1> HIDE DEF mp
  <1>7. m \in 1..12 /\ FromMarch(m) = mp
    BY <1>6 DEF FromMarch
  <1> HIDE DEF m
  <1>8. y \in Int /\ ShiftedYear(y, m) = 400 * e + r
    BY <1>2, <1>3, <1>7 DEF ShiftedYear
  <1>9. EraOf(400 * e + r) = e /\ YearInEra(400 * e + r) = r
    BY <1>2, <1>3 DEF EraOf, YearInEra
  <1>10. d \in Int /\ 1 <= d /\ d <= days_in_month(y, m) /\ days_in_month(y, m) \in Int
    <2>1. /\ days_in_month(y, m) \in 28..31
          /\ MonthStart(mp) + days_in_month(y, m) =
               IF mp = 11 THEN YearLength(r) ELSE MonthStart(mp + 1)
      <3> HIDE DEF y
      <3> QED
        BY <1>7, <1>8, <1>9, MonthLength
    <2> HIDE DEF y
    <2> QED
      BY <1>4, <1>5, <1>6, <2>1
  <1>11. DayNumber(y, m, d) = ts \div DAY
    <2>1. DayNumber(y, m, d) = 146097 * e + StartOfYear(r) + MonthStart(mp) + d - 1 - 719468
      BY <1>7, <1>8, <1>9 DEF DayNumber
    <2>2. ts \div DAY = 146097 * e + StartOfYear(r) + t - 719468
      BY <1>0, <1>1, <1>2, <1>4, <1>5
    <2> QED
      BY <1>2, <1>4, <1>5, <1>6, <2>1, <2>2
  <1>12. ValidDate(y, m, d)
    BY <1>7, <1>8, <1>10 DEF ValidDate
  <1> QED
    BY <1>11, <1>12

-----------------------------------------------------------------------------
(* The order of dates. *)

\* A year of an era ends before any later one starts, and the last one with
\* the era.
LEMMA YearsOfEraAscend ==
  ASSUME NEW r \in Int, 0 <= r, r <= 399
  PROVE  /\ StartOfYear(r) \in Int /\ 0 <= StartOfYear(r)
         /\ YearLength(r) \in Int /\ 0 < YearLength(r)
         /\ StartOfYear(r) + YearLength(r) <= 146097
         /\ \A s \in Int : r < s /\ s <= 399 => StartOfYear(r) + YearLength(r) <= StartOfYear(s)
  <1>1. \A s \in Int : 0 <= s /\ s <= 399 => StartOfYear(s) \in Int
    BY DEF StartOfYear
  <1>2. YearLength(r) \in {365, 366}
    BY DEF YearLength
  <1>3. 0 <= StartOfYear(r)
    BY DEF StartOfYear
  <1>4. StartOfYear(r) + YearLength(r) <= 146097
    <2>1. PICK x \in Int : x = StartOfYear(r) + YearLength(r) - 1
      BY <1>1, <1>2
    <2>2. StartOfYear(r) <= x /\ x < StartOfYear(r) + YearLength(r)
      BY <1>1, <1>2, <2>1
    <2>3. x <= 146096
      BY <2>1, <2>2, YearOfEraIs
    <2> QED
      BY <1>1, <1>2, <2>1, <2>3
  <1>5. ASSUME NEW s \in Int, r < s, s <= 399
        PROVE  StartOfYear(r) + YearLength(r) <= StartOfYear(s)
    <2>0. 0 <= s /\ StartOfYear(s) \in Int /\ StartOfYear(r) \in Int
      BY <1>1, <1>5
    <2>1. StartOfYear(r) <= StartOfYear(s)
      BY <1>5 DEF StartOfYear
    <2>2. YearLength(s) \in {365, 366}
      BY DEF YearLength
    <2>3. StartOfYear(s) < StartOfYear(s) + YearLength(s)
      BY <2>0, <2>2
    <2>4. YearOfEra(StartOfYear(s)) = s
      BY <1>5, <2>0, <2>3, YearOfEraIs
    <2>5. SUFFICES ASSUME StartOfYear(s) < StartOfYear(r) + YearLength(r) PROVE FALSE
      BY <1>2, <2>0
    <2>6. YearOfEra(StartOfYear(s)) = r
      BY <2>0, <2>1, <2>5, YearOfEraIs
    <2> QED
      BY <1>5, <2>4, <2>6
  <1> QED
    BY <1>1, <1>2, <1>3, <1>4, <1>5

\* The month of a date, counted from that of year zero.
MonthNumber(y, m) == y * 12 + m

\* A date of a later month is a later day.
LEMMA LaterMonth ==
  ASSUME NEW y1, NEW m1, NEW d1, ValidDate(y1, m1, d1),
         NEW y2, NEW m2, NEW d2, ValidDate(y2, m2, d2),
         MonthNumber(y1, m1) < MonthNumber(y2, m2)
  PROVE  DayNumber(y1, m1, d1) < DayNumber(y2, m2, d2)
  <1> DEFINE yy1 == ShiftedYear(y1, m1)
             yy2 == ShiftedYear(y2, m2)
             mp1 == FromMarch(m1)
             mp2 == FromMarch(m2)
             e1 == EraOf(yy1)
             e2 == EraOf(yy2)
             r1 == YearInEra(yy1)
             r2 == YearInEra(yy2)
             t1 == MonthStart(mp1) + d1
             t2 == MonthStart(mp2) + d2
  <1>1. /\ y1 \in Int /\ m1 \in 1..12 /\ d1 \in Int /\ 1 <= d1 /\ d1 <= days_in_month(y1, m1)
        /\ y2 \in Int /\ m2 \in 1..12 /\ d2 \in Int /\ 1 <= d2
        /\ days_in_month(y1, m1) \in Int
    BY MonthLength DEF ValidDate
  <1>2. /\ yy1 \in Int /\ yy2 \in Int /\ mp1 \in 0..11 /\ mp2 \in 0..11
        /\ yy1 < yy2 \/ (yy1 = yy2 /\ mp1 < mp2)
    BY <1>1 DEF ShiftedYear, FromMarch, MonthNumber
  <1>3. /\ e1 \in Int /\ e2 \in Int /\ r1 \in Int /\ r2 \in Int
        /\ 0 <= r1 /\ r1 <= 399 /\ 0 <= r2 /\ r2 <= 399
        /\ yy1 = 400 * e1 + r1 /\ yy2 = 400 * e2 + r2
    <2> HIDE DEF yy1, yy2
    <2>0. yy1 \in Int /\ yy2 \in Int
      BY <1>2
    <2>1. e1 \in Int /\ r1 \in 0..399 /\ yy1 = 400 * e1 + r1
      BY <2>0, EraParts
    <2>2. e2 \in Int /\ r2 \in 0..399 /\ yy2 = 400 * e2 + r2
      BY <2>0, EraParts
    <2> QED
      BY <2>1, <2>2
  <1>4. MonthStart(mp1) \in Int /\ MonthStart(mp2) \in Int /\ 0 <= MonthStart(mp2)
        /\ MonthStart(mp1 + 1) \in Int
        /\ t1 <= YearLength(r1) /\ t1 <= MonthStart(mp1 + 1)
    <2>1. /\ MonthStart(mp1) + days_in_month(y1, m1) <= YearLength(r1)
          /\ MonthStart(mp1) + days_in_month(y1, m1) <= MonthStart(mp1 + 1)
      BY <1>1, MonthLength
    <2>2. MonthStart(mp1) \in Int /\ MonthStart(mp2) \in Int /\ 0 <= MonthStart(mp2)
          /\ MonthStart(mp1 + 1) \in Int
      BY <1>2 DEF MonthStart
    <2>3. YearLength(r1) \in {365, 366}
      BY DEF YearLength
    <2> HIDE DEF mp1, mp2, r1
    <2> QED
      BY <1>1, <2>1, <2>2, <2>3
  <1>5. DayNumber(y1, m1, d1) = 146097 * e1 + StartOfYear(r1) + MonthStart(mp1) + d1 - 1 - 719468
        /\ DayNumber(y2, m2, d2) = 146097 * e2 + StartOfYear(r2) + MonthStart(mp2) + d2 - 1 - 719468
    BY DEF DayNumber
  <1>6. /\ StartOfYear(r1) \in Int /\ StartOfYear(r2) \in Int
        /\ YearLength(r1) \in Int
        /\ StartOfYear(r1) + YearLength(r1) <= 146097
        /\ 0 <= StartOfYear(r2)
        /\ r1 < r2 => StartOfYear(r1) + YearLength(r1) <= StartOfYear(r2)
    <2> HIDE DEF r1, r2
    <2> QED
      BY <1>3, YearsOfEraAscend
  <1> HIDE DEF yy1, yy2, mp1, mp2, e1, e2, r1, r2
  <1>7. 146097 * e1 + StartOfYear(r1) + t1 < 146097 * e2 + StartOfYear(r2) + t2
    <2>1. CASE yy1 = yy2 /\ mp1 < mp2
      <3>1. MonthStart(mp1 + 1) <= MonthStart(mp2)
        BY <1>2, <2>1 DEF MonthStart
      <3>2. e1 = e2 /\ r1 = r2
        BY <1>3, <2>1
      <3> QED
        BY <1>1, <1>3, <1>4, <1>6, <3>1, <3>2
    <2>2. CASE yy1 < yy2
      <3>1. (e1 = e2 /\ r1 < r2) \/ e1 < e2
        BY <1>3, <2>2
      <3>2. 0 < t2 /\ t2 \in Int /\ t1 \in Int
        BY <1>1, <1>4
      <3>3. CASE e1 = e2 /\ r1 < r2
        BY <1>3, <1>4, <1>6, <3>2, <3>3
      <3>4. CASE e1 < e2
        <4>1. 146097 * e1 + 146097 <= 146097 * e2
          BY <1>3, <3>4
        <4> QED
          BY <1>3, <1>4, <1>6, <3>2, <4>1
      <3> QED
        BY <3>1, <3>3, <3>4
    <2> QED
      BY <1>2, <2>1, <2>2
  <1> QED
    BY <1>1, <1>3, <1>4, <1>5, <1>6, <1>7

-----------------------------------------------------------------------------
(* Timestamps and dates. *)

\* Days are counted by whole DAYs.
LEMMA DayOf ==
  ASSUME NEW n \in Int, NEW ts \in Int
  PROVE  /\ n * DAY \in Int /\ (n * DAY) \div DAY = n /\ (n * DAY) % DAY = 0
         /\ ts \div DAY \in Int
         /\ ts \div DAY = n => n * DAY <= ts /\ ts < n * DAY + DAY
         /\ n * DAY <= ts => n <= ts \div DAY
  BY DayAssumption

\* unix_to_ymd undoes the number of a date, before the epoch as after it.
LEMMA DateIsReadBack ==
  ASSUME NEW y, NEW m, NEW d, ValidDate(y, m, d)
  PROVE  /\ unix_to_ymd(ymd_to_unix(y, m, d)) = [y |-> y, m |-> m, d |-> d]
         /\ ymd_to_unix(y, m, d) \in Int
         /\ ymd_to_unix(y, m, d) % DAY = 0
  <1>1. y \in Int /\ m \in Int /\ d \in Int
    BY MonthLength DEF ValidDate
  <1> DEFINE n == DayNumber(y, m, d)
  <1>2. n \in Int /\ ymd_to_unix(y, m, d) = n * DAY
    BY <1>1, Midnights
  <1>3. n * DAY \in Int /\ (n * DAY) \div DAY = n /\ (n * DAY) % DAY = 0
    BY <1>2, DayOf
  <1>4. unix_to_ymd(n * DAY) = [y |-> y, m |-> m, d |-> d]
    BY <1>2, <1>3, CivilIs
  <1> QED
    BY <1>2, <1>3, <1>4

\* The last day before the epoch.
LEMMA LastDayBefore == ValidDate(1969, 12, 31) /\ DayNumber(1969, 12, 31) = -1
  <1>1. days_in_month(1969, 12) = 31
    BY DEF days_in_month
  <1>2. FromMarch(12) = 9 /\ MonthStart(9) = 275 /\ ShiftedYear(1969, 12) = 1969
    BY MonthStarts DEF FromMarch, ShiftedYear
  <1>3. EraOf(1969) = 4 /\ YearInEra(1969) = 369 /\ StartOfYear(369) = 134774
    BY DEF EraOf, YearInEra, StartOfYear
  <1> QED
    BY <1>1, <1>2, <1>3 DEF ValidDate, DayNumber

\* unix_to_ymd undoes ymd_to_unix, and what ymd_to_unix gives is a timestamp,
\* for every date of the calendar from the epoch on.
THEOREM DatesRoundTrip ==
  ASSUME NEW y, NEW m, NEW d, ValidDate(y, m, d), y >= 1970
  PROVE  /\ unix_to_ymd(ymd_to_unix(y, m, d)) = [y |-> y, m |-> m, d |-> d]
         /\ ymd_to_unix(y, m, d) \in Nat
         /\ ymd_to_unix(y, m, d) % DAY = 0
  <1>1. y \in Int /\ m \in 1..12 /\ m \in Int /\ d \in Int
    BY MonthLength DEF ValidDate
  <1> DEFINE n == DayNumber(y, m, d)
  <1>2. n \in Int /\ ymd_to_unix(y, m, d) = n * DAY
    BY <1>1, Midnights
  <1>3. n >= 0
    <2>1. MonthNumber(1969, 12) < MonthNumber(y, m)
      BY <1>1 DEF MonthNumber
    <2>2. DayNumber(1969, 12, 31) < n
      BY <2>1, LastDayBefore, LaterMonth
    <2> HIDE DEF n
    <2> QED
      BY <1>2, <2>2, LastDayBefore
  <1> HIDE DEF n
  <1>4. n * DAY \in Nat
    BY <1>2, <1>3, DayAssumption
  <1> QED
    BY <1>2, <1>4, DateIsReadBack

\* The date unix_to_ymd reads off an instant is one of the calendar, and its
\* midnight the last before the instant.
THEOREM InstantsRoundTrip ==
  ASSUME NEW ts \in Int
  PROVE  LET t == unix_to_ymd(ts) IN
         /\ ValidDate(t.y, t.m, t.d)
         /\ ts \div DAY = DayNumber(t.y, t.m, t.d)
         /\ Midnight(ts) \in Int
         /\ Midnight(ts) <= ts /\ ts < Midnight(ts) + DAY
  <1>1. PICK y, m, d : ValidDate(y, m, d) /\ ts \div DAY = DayNumber(y, m, d)
    BY CivilExists
  <1>2. unix_to_ymd(ts) = [y |-> y, m |-> m, d |-> d]
    BY <1>1, CivilIs
  <1>3. Midnight(ts) = ymd_to_unix(y, m, d)
    BY <1>2 DEF Midnight
  <1>4. y \in Int /\ m \in Int /\ d \in Int
    BY <1>1, MonthLength DEF ValidDate
  <1> DEFINE n == DayNumber(y, m, d)
  <1>5. n \in Int /\ ymd_to_unix(y, m, d) = n * DAY
    BY <1>4, Midnights
  <1>6. n * DAY \in Int /\ n * DAY <= ts /\ ts < n * DAY + DAY
    BY <1>1, <1>5, DayOf
  <1> QED
    BY <1>1, <1>2, <1>3, <1>5, <1>6

\* The month an instant lies in.
MonthOf(ts) == MonthNumber(unix_to_ymd(ts).y, unix_to_ymd(ts).m)

\* Later instants do not lie in earlier months, nor on an earlier day of the
\* same month.
LEMMA MonthsAscend ==
  ASSUME NEW a \in Int, NEW b \in Int, a <= b
  PROVE  /\ MonthOf(a) \in Int /\ MonthOf(b) \in Int
         /\ MonthOf(a) <= MonthOf(b)
         /\ MonthOf(a) = MonthOf(b) => unix_to_ymd(a).d <= unix_to_ymd(b).d
  <1> DEFINE s == unix_to_ymd(a)
             t == unix_to_ymd(b)
  <1>1. ValidDate(s.y, s.m, s.d) /\ a \div DAY = DayNumber(s.y, s.m, s.d)
    BY InstantsRoundTrip
  <1>2. ValidDate(t.y, t.m, t.d) /\ b \div DAY = DayNumber(t.y, t.m, t.d)
    BY InstantsRoundTrip
  <1>3. a \div DAY \in Int /\ b \div DAY \in Int /\ a \div DAY <= b \div DAY
    <2>1. PICK n \in Int : n = a \div DAY
      BY DayOf
    <2>2. n * DAY <= a /\ n * DAY \in Int
      BY <2>1, DayOf
    <2>3. n * DAY <= b
      BY <2>2
    <2> QED
      BY <2>1, <2>3, DayOf
  <1>4. /\ s.y \in Int /\ s.m \in 1..12 /\ s.d \in Int
        /\ t.y \in Int /\ t.m \in 1..12 /\ t.d \in Int
    BY <1>1, <1>2, MonthLength DEF ValidDate
  <1> HIDE DEF s, t
  <1>5. MonthNumber(s.y, s.m) \in Int /\ MonthNumber(t.y, t.m) \in Int
    BY <1>4 DEF MonthNumber
  <1>6. MonthNumber(s.y, s.m) <= MonthNumber(t.y, t.m)
    <2>1. SUFFICES ASSUME MonthNumber(t.y, t.m) < MonthNumber(s.y, s.m) PROVE FALSE
      BY <1>5
    <2>2. DayNumber(t.y, t.m, t.d) < DayNumber(s.y, s.m, s.d)
      BY <1>1, <1>2, <2>1, LaterMonth
    <2> QED
      BY <1>1, <1>2, <1>3, <2>2
  <1>7. ASSUME MonthNumber(s.y, s.m) = MonthNumber(t.y, t.m)
        PROVE  s.d <= t.d
    <2>1. s.y = t.y /\ s.m = t.m
      BY <1>4, <1>7 DEF MonthNumber
    <2>2. PICK x : /\ DayNumber(s.y, s.m, s.d) = x + s.d - 1 - 719468
                   /\ DayNumber(t.y, t.m, t.d) = x + t.d - 1 - 719468
                   /\ x \in Int
      <3> DEFINE yy == ShiftedYear(s.y, s.m)
                 e == EraOf(yy)
                 f == StartOfYear(YearInEra(yy))
                 g == MonthStart(FromMarch(s.m))
      <3>1. e \in Int /\ f \in Int /\ g \in Int
        BY <1>4 DEF ShiftedYear, EraOf, YearInEra, StartOfYear, MonthStart, FromMarch
      <3>2. DayNumber(s.y, s.m, s.d) = 146097 * e + f + g + s.d - 1 - 719468
        BY DEF DayNumber
      <3>3. DayNumber(t.y, t.m, t.d) = 146097 * e + f + g + t.d - 1 - 719468
        BY <2>1 DEF DayNumber
      <3> QED
        BY <3>1, <3>2, <3>3
    <2> QED
      BY <1>1, <1>2, <1>3, <1>4, <2>2
  <1> QED
    BY <1>5, <1>6, <1>7 DEF MonthOf, s, t

-----------------------------------------------------------------------------
(* Rolling back. *)

\* A term that may be asked for.
IsTerm(t) == t.start \in Int /\ t.end \in Int /\ t.frequency \in PaymentsPerYear

\* What RolledBack(term, i) is: midnight of the day of the end, or of the last of a
\* shorter month, i periods before the end.
LEMMA RolledBackIs ==
  ASSUME IsTerm(term), term.frequency # 0, NEW i \in Int
  PROVE  LET end == unix_to_ymd(term.end)
             ymd == unix_to_ymd(RolledBack(term, i))
         IN /\ RolledBack(term, i) \in Int
            /\ RolledBack(term, i) % DAY = 0
            /\ MonthOf(RolledBack(term, i)) = MonthOf(term.end) - i * months(term.frequency)
            /\ ymd.d = Lesser(end.d, days_in_month(ymd.y, ymd.m))
            /\ MonthOf(RolledBack(term, i)) \in Int /\ MonthOf(term.end) \in Int
            /\ months(term.frequency) \in Int /\ 1 <= months(term.frequency)
  <1> DEFINE end == unix_to_ymd(term.end)
             total == end.y * 12 + end.m - 1 - i * months(term.frequency)
             y == total \div 12
             m == (total % 12) + 1
             d == Lesser(end.d, days_in_month(y, m))
  <1>1. term.end \in Int /\ ValidDate(end.y, end.m, end.d)
    BY InstantsRoundTrip DEF IsTerm
  <1>2. /\ end.y \in Int /\ end.m \in 1..12 /\ end.d \in Int /\ 1 <= end.d
        /\ end.d <= days_in_month(end.y, end.m)
    BY <1>1, MonthLength DEF ValidDate
  <1>3. months(term.frequency) \in Int /\ 1 <= months(term.frequency)
    BY DEF IsTerm, PaymentsPerYear, months
  <1>4. total \in Int
    BY <1>2, <1>3
  <1>5. y \in Int /\ m \in 1..12 /\ y * 12 + m = total + 1
    <2> HIDE DEF total
    <2> QED
      BY <1>4
  <1>6. RolledBack(term, i) = ymd_to_unix(y, m, d)
    BY DEF RolledBack
  <1> HIDE DEF y, m
  <1>7. days_in_month(y, m) \in 28..31
    BY <1>5, MonthLength
  <1>8. ValidDate(y, m, d)
    BY <1>2, <1>5, <1>7 DEF ValidDate, Lesser
  <1> HIDE DEF d
  <1>9. /\ unix_to_ymd(RolledBack(term, i)) = [y |-> y, m |-> m, d |-> d]
        /\ RolledBack(term, i) \in Int /\ RolledBack(term, i) % DAY = 0
    BY <1>6, <1>8, DateIsReadBack
  <1>10. MonthOf(RolledBack(term, i)) = y * 12 + m /\ MonthOf(term.end) = end.y * 12 + end.m
    BY <1>9 DEF MonthOf, MonthNumber
  <1>11. y * 12 + m = (end.y * 12 + end.m) - i * months(term.frequency)
    BY <1>2, <1>3, <1>5
  <1> QED
    BY <1>2, <1>3, <1>5, <1>9, <1>10, <1>11 DEF d

\* The midnight of the end is rolled back by nothing.
LEMMA NoRollIsMidnight ==
  ASSUME IsTerm(term)
  PROVE  LET ymd == unix_to_ymd(Midnight(term.end)) IN
         /\ ymd = unix_to_ymd(term.end)
         /\ Midnight(term.end) \in Int
         /\ Midnight(term.end) % DAY = 0
         /\ ymd.d = Lesser(unix_to_ymd(term.end).d, days_in_month(ymd.y, ymd.m))
  <1> DEFINE end == unix_to_ymd(term.end)
  <1>1. term.end \in Int /\ ValidDate(end.y, end.m, end.d)
    BY InstantsRoundTrip DEF IsTerm
  <1>2. end.d \in Int /\ end.d <= days_in_month(end.y, end.m)
        /\ days_in_month(end.y, end.m) \in Int
    BY <1>1, MonthLength DEF ValidDate
  <1>3. PICK y, m, d : end = [y |-> y, m |-> m, d |-> d]
    <2>1. PICK y, m, d : ValidDate(y, m, d) /\ term.end \div DAY = DayNumber(y, m, d)
      BY <1>1, CivilExists
    <2>2. unix_to_ymd(term.end) = [y |-> y, m |-> m, d |-> d]
      BY <1>1, <2>1, CivilIs
    <2> QED
      BY <2>2
  <1>4. Midnight(term.end) = ymd_to_unix(end.y, end.m, end.d)
    BY DEF Midnight
  <1> HIDE DEF end
  <1>5. unix_to_ymd(Midnight(term.end)) = end
        /\ Midnight(term.end) \in Int /\ Midnight(term.end) % DAY = 0
    BY <1>1, <1>3, <1>4, DateIsReadBack
  <1> QED
    BY <1>2, <1>5 DEF Lesser, end

-----------------------------------------------------------------------------
(* The loop. *)

\* What generate_schedule keeps: every date found is the end rolled back by
\* its number of periods and after the start, and what it returns is those
\* dates reversed, once the start is reached.
ScheduleInv ==
  /\ stage \in {"idle", "rolling", "returned", "overflowed"}
  /\ stage # "idle" => IsTerm(term)
  /\ rolled \in Seq(Int)
  /\ stage = "idle" \/ term.frequency = 0 => rolled = <<>>
  /\ \A k \in 1..Len(rolled) : rolled[k] = RolledBack(term, k) /\ rolled[k] > term.start
  /\ stage = "returned" =>
       /\ schedule = IF term.frequency = 0 THEN <<term.end>> ELSE Returned
       /\ term.frequency # 0 => StartReached
  /\ stage = "overflowed" => unix_to_ymd(Lesser(term.start, term.end)).y <= 1970

LEMMA ScheduleInitInv == ScheduleInit => ScheduleInv
  <1> SUFFICES ASSUME ScheduleInit PROVE ScheduleInv
    OBVIOUS
  <1>1. rolled = <<>> /\ rolled \in Seq(Int) /\ Len(rolled) = 0 /\ stage = "idle"
    BY EmptySeq DEF ScheduleInit
  <1> QED
    BY <1>1 DEF ScheduleInv

LEMMA GenerateKeepsInv ==
  ASSUME NEW t, IsTerm(t) PROVE ScheduleInv /\ Generate(t) => ScheduleInv'
  <1> SUFFICES ASSUME ScheduleInv, Generate(t) PROVE ScheduleInv'
    OBVIOUS
  <1>1. rolled' = <<>> /\ stage' = "rolling" /\ term' = t
    BY DEF Generate, ScheduleInv
  <1>2. rolled' \in Seq(Int) /\ Len(rolled') = 0
    BY <1>1, EmptySeq
  <1>3. IsTerm(term')
    BY <1>1
  <1> QED
    BY <1>1, <1>2, <1>3 DEF ScheduleInv, IsTerm

LEMMA TakenKeepsInv == Taken => ScheduleInv'
  <1> SUFFICES ASSUME Taken PROVE ScheduleInv'
    OBVIOUS
  <1>1. rolled' = <<>> /\ stage' = "idle"
    BY DEF Taken
  <1>2. rolled' \in Seq(Int) /\ Len(rolled') = 0
    BY <1>1, EmptySeq
  <1> QED
    BY <1>1, <1>2 DEF ScheduleInv

\* Dates rolled back do not change while the term stays.
LEMMA SameTermSameRolls ==
  ASSUME UNCHANGED term
  PROVE  /\ \A i : RolledBack(term, i)' = RolledBack(term, i)
         /\ Midnight(term.end)' = Midnight(term.end)
  BY DEF RolledBack, Midnight

LEMMA OnePeriodFewer ==
  ASSUME NEW n \in Int, NEW p \in Int
  PROVE  n * p = (n - 1) * p + p /\ (n - 1) * p \in Int
  OBVIOUS

\* A roll past the epoch is one from the year 1970, and the term begins, or
\* ends, no later.
LEMMA RollsPastEpoch ==
  ASSUME ScheduleInv, stage = "rolling", term.frequency # 0, NextRoll < 0
  PROVE  unix_to_ymd(Lesser(term.start, term.end)).y <= 1970
  <1> DEFINE i == Len(rolled) + 1
             p == months(term.frequency)
             date == RolledBack(term, i)
             a == Lesser(term.start, term.end)
             ymd == unix_to_ymd(a)
             last == 1970 * 12 + 12
  <1>1. IsTerm(term) /\ Len(rolled) \in Nat /\ i \in Int
    BY LenProperties DEF ScheduleInv
  <1>2. term.start \in Int /\ term.end \in Int /\ a \in Int /\ a <= term.start /\ a <= term.end
    BY <1>1 DEF IsTerm, Lesser
  <1>3. /\ date \in Int /\ MonthOf(date) \in Int /\ MonthOf(term.end) \in Int
        /\ MonthOf(date) = MonthOf(term.end) - i * p /\ p \in Int
    BY <1>1, RolledBackIs
  <1>4. p <= 12
    BY <1>1 DEF IsTerm, PaymentsPerYear, months
  <1>5. MonthOf(date) <= 1970 * 12
    <2>1. (-1) \div DAY = -1
      BY DayAssumption
    <2>2. unix_to_ymd(-1) = [y |-> 1969, m |-> 12, d |-> 31]
      BY <2>1, LastDayBefore, CivilIs
    <2>3. MonthOf(-1) = 1970 * 12
      BY <2>2 DEF MonthOf, MonthNumber
    <2>4. date <= -1 /\ -1 \in Int
      BY <1>3 DEF NextRoll
    <2> HIDE DEF date
    <2> QED
      BY <1>3, <2>3, <2>4, MonthsAscend
  <1>6. PICK b \in {term.start, term.end} : MonthOf(b) <= last
    <2>1. CASE rolled = <<>>
      <3>1. i = 1 /\ i * p = p
        <4>1. i = 1
          BY <2>1, EmptySeq
        <4> HIDE DEF i, p
        <4> QED
          BY <1>3, <4>1
      <3> HIDE DEF i, p, date
      <3> QED
        BY <1>3, <1>4, <1>5, <3>1
    <2>2. CASE rolled # <<>>
      <3> DEFINE before == RolledBack(term, i - 1)
      <3>1. i - 1 \in 1..Len(rolled) /\ i - 1 \in Int
        BY <1>1, <2>2, EmptySeq DEF ScheduleInv
      <3>2. before > term.start
        BY <3>1 DEF ScheduleInv
      <3>3. before \in Int /\ MonthOf(before) = MonthOf(term.end) - (i - 1) * p
        BY <1>1, <3>1, RolledBackIs
      <3> HIDE DEF before, p, date
      <3>4. i * p = (i - 1) * p + p /\ (i - 1) * p \in Int
        BY <1>1, <1>3, OnePeriodFewer
      <3>5. MonthOf(before) <= last
        BY <1>3, <1>4, <1>5, <3>3, <3>4
      <3>6. term.start \in Int /\ before \in Int /\ term.start <= before
        BY <1>2, <3>2, <3>3
      <3>7. /\ MonthOf(term.start) \in Int /\ MonthOf(before) \in Int
            /\ MonthOf(term.start) <= MonthOf(before)
        BY <3>6, MonthsAscend
      <3> QED
        BY <3>5, <3>7
    <2> QED
      BY <2>1, <2>2
  <1>7. MonthOf(a) <= MonthOf(b) /\ MonthOf(a) \in Int /\ MonthOf(b) \in Int
    <2>1. b \in Int /\ a <= b
      BY <1>2
    <2> HIDE DEF a
    <2> QED
      BY <1>2, <2>1, MonthsAscend
  <1>8. ymd.y \in Int /\ ymd.m \in 1..12 /\ MonthOf(a) = ymd.y * 12 + ymd.m
    BY <1>2, InstantsRoundTrip DEF ValidDate, MonthOf, MonthNumber
  <1> HIDE DEF ymd, a
  <1> QED
    BY <1>6, <1>7, <1>8 DEF ymd, a

LEMMA RollingKeepsInv == ScheduleInv /\ Rolling => ScheduleInv'
  <1> SUFFICES ASSUME ScheduleInv, Rolling PROVE ScheduleInv'
    OBVIOUS
  <1>1. CASE ReturnEnd
    <2>1. /\ stage = "rolling" /\ term.frequency = 0
          /\ schedule' = <<term.end>> /\ stage' = "returned" /\ UNCHANGED <<term, rolled>>
      BY <1>1 DEF ReturnEnd, ReturnDates
    <2>2. rolled = <<>> /\ Len(rolled) = 0
      BY <2>1, EmptySeq DEF ScheduleInv
    <2> QED
      BY <2>1, <2>2 DEF ScheduleInv, IsTerm
  <1>2. CASE Roll
    <2> DEFINE date == RolledBack(term, Len(rolled) + 1)
    <2>1. /\ stage = "rolling" /\ term.frequency # 0 /\ date > term.start
          /\ rolled' = Append(rolled, date) /\ UNCHANGED <<term, schedule, stage>>
      BY <1>2 DEF Roll, NextRoll
    <2>2. IsTerm(term) /\ rolled \in Seq(Int) /\ Len(rolled) \in Nat
      BY <2>1, LenProperties DEF ScheduleInv
    <2>3. date \in Int
      BY <2>1, <2>2, RolledBackIs
    <2> HIDE DEF date
    <2>4. /\ rolled' \in Seq(Int) /\ Len(rolled') = Len(rolled) + 1
          /\ \A k \in 1..Len(rolled) : rolled'[k] = rolled[k]
          /\ rolled'[Len(rolled) + 1] = date
      BY <2>1, <2>2, <2>3, AppendProperties
    <2>5. ASSUME NEW k \in 1..Len(rolled')
          PROVE  rolled'[k] = RolledBack(term, k)' /\ rolled'[k] > term'.start
      <3>1. RolledBack(term, k)' = RolledBack(term, k)
        BY <2>1, SameTermSameRolls
      <3>2. CASE k \in 1..Len(rolled)
        BY <2>1, <2>4, <3>1, <3>2 DEF ScheduleInv
      <3>3. CASE k = Len(rolled) + 1
        BY <2>1, <2>4, <3>1, <3>3 DEF date
      <3> QED
        BY <2>2, <2>4, <3>2, <3>3
    <2>6. IsTerm(term)' /\ stage' = "rolling" /\ term'.frequency # 0
      BY <2>1, <2>2 DEF IsTerm
    <2> QED
      BY <2>4, <2>5, <2>6 DEF ScheduleInv
  <1>3. CASE Overflow
    <2>1. /\ stage = "rolling" /\ term.frequency # 0 /\ NextRoll < 0
          /\ stage' = "overflowed" /\ UNCHANGED <<term, rolled, schedule>>
      BY <1>3 DEF Overflow
    <2>2. unix_to_ymd(Lesser(term.start, term.end)).y <= 1970
      BY <2>1, RollsPastEpoch
    <2>3. \A k \in 1..Len(rolled) : RolledBack(term, k)' = RolledBack(term, k)
      BY <2>1, SameTermSameRolls
    <2> QED
      BY <2>1, <2>2, <2>3 DEF ScheduleInv, IsTerm
  <1>4. CASE ReturnRolled
    <2>1. /\ stage = "rolling" /\ term.frequency # 0 /\ StartReached
          /\ schedule' = Returned /\ stage' = "returned" /\ UNCHANGED <<term, rolled>>
      BY <1>4 DEF ReturnRolled, ReturnDates
    <2>2. Returned' = Returned /\ (StartReached' <=> StartReached)
      BY <2>1, SameTermSameRolls DEF Returned, StartReached, NextRoll, RolledBack
    <2>3. \A k \in 1..Len(rolled) : RolledBack(term, k)' = RolledBack(term, k)
      BY <2>1, SameTermSameRolls
    <2> QED
      BY <2>1, <2>2, <2>3 DEF ScheduleInv, IsTerm
  <1> QED
    BY <1>1, <1>2, <1>3, <1>4 DEF Rolling

LEMMA IdleKeepsInv == ScheduleInv /\ UNCHANGED scheduleVars => ScheduleInv'
  <1> SUFFICES ASSUME ScheduleInv, UNCHANGED <<term, rolled, schedule, stage>>
               PROVE  ScheduleInv'
    BY DEF scheduleVars
  <1>1. Returned' = Returned /\ (StartReached' <=> StartReached)
    BY SameTermSameRolls DEF Returned, StartReached, NextRoll, RolledBack
  <1>2. \A k \in 1..Len(rolled) : RolledBack(term, k)' = RolledBack(term, k)
    BY SameTermSameRolls
  <1> QED
    BY <1>1, <1>2 DEF ScheduleInv, IsTerm

-----------------------------------------------------------------------------
(* What is returned. *)

\* The dates returned are those rolled back, the earliest first, and the
\* midnight of the end.
LEMMA ReturnedIs ==
  ASSUME ScheduleInv, stage = "returned", term.frequency # 0
  PROVE  /\ Len(rolled) \in Nat
         /\ schedule \in Seq(Int) /\ Len(schedule) = Len(rolled) + 1
         /\ schedule[Len(schedule)] = Midnight(term.end)
         /\ \A i \in 1..(Len(schedule) - 1) :
              schedule[i] = RolledBack(term, Len(schedule) - i) /\ schedule[i] > term.start
  <1> DEFINE n == Len(rolled)
             s == Reverse(rolled)
             date == Midnight(term.end)
  <1>1. rolled \in Seq(Int) /\ n \in Nat /\ schedule = Append(s, date)
    BY LenProperties DEF ScheduleInv, Returned
  <1>2. date \in Int
    BY NoRollIsMidnight DEF ScheduleInv
  <1>3. s = [i \in 1..n |-> rolled[(n - i) + 1]]
    BY DEF Reverse
  <1>4. \A i \in 1..n : rolled[i] \in Int
    BY <1>1, ElementOfSeq
  <1> HIDE DEF n, date
  <1>5. \A i \in 1..n : (n - i) + 1 \in 1..n
    BY <1>1
  <1>6. s \in Seq(Int) /\ Len(s) = n
    BY <1>1, <1>3, <1>4, <1>5, IsASeq, LenProperties DEF n
  <1> HIDE DEF s
  <1>7. /\ schedule \in Seq(Int) /\ Len(schedule) = n + 1
        /\ \A i \in 1..n : schedule[i] = s[i]
        /\ schedule[n + 1] = date
    BY <1>1, <1>2, <1>6, AppendProperties
  <1>8. ASSUME NEW i \in 1..n
        PROVE  schedule[i] = RolledBack(term, (n + 1) - i) /\ schedule[i] > term.start
    <2>1. schedule[i] = rolled[(n - i) + 1]
      BY <1>3, <1>7
    <2>2. (n - i) + 1 \in 1..n /\ (n - i) + 1 = (n + 1) - i
      BY <1>1
    <2> QED
      BY <2>1, <2>2 DEF ScheduleInv, n
  <1>9. (n + 1) - 1 = n
    BY <1>1
  <1> QED
    BY <1>1, <1>7, <1>8, <1>9 DEF n, date

\* Every date returned, counted back from the end.
LEMMA DatesAre ==
  ASSUME ScheduleInv, stage = "returned", term.frequency # 0,
         NEW i \in 1..Len(schedule)
  PROVE  LET end == unix_to_ymd(term.end)
             ymd == unix_to_ymd(schedule[i])
         IN /\ schedule[i] \in Int
            /\ schedule[i] % DAY = 0
            /\ ymd.d = Lesser(end.d, days_in_month(ymd.y, ymd.m))
            /\ MonthOf(schedule[i])
                 = MonthOf(term.end) - (Len(schedule) - i) * months(term.frequency)
            /\ MonthOf(term.end) \in Int /\ MonthOf(schedule[i]) \in Int
            /\ months(term.frequency) \in Int /\ 1 <= months(term.frequency)
  <1>1. IsTerm(term) /\ Len(schedule) \in Nat
    BY ReturnedIs DEF ScheduleInv
  <1>2. /\ MonthOf(term.end) \in Int
        /\ months(term.frequency) \in Int /\ 1 <= months(term.frequency)
    BY <1>1, RolledBackIs
  <1>3. CASE i = Len(schedule)
    <2>1. schedule[i] = Midnight(term.end)
      BY <1>3, ReturnedIs
    <2>2. MonthOf(schedule[i]) = MonthOf(term.end)
      BY <1>1, <2>1, NoRollIsMidnight DEF MonthOf
    <2>3. (Len(schedule) - i) * months(term.frequency) = 0
      BY <1>1, <1>2, <1>3
    <2> QED
      BY <1>1, <1>2, <2>1, <2>2, <2>3, NoRollIsMidnight
  <1>4. CASE i # Len(schedule)
    <2>1. i \in 1..(Len(schedule) - 1) /\ Len(schedule) - i \in Int
      BY <1>1, <1>4
    <2>2. schedule[i] = RolledBack(term, Len(schedule) - i)
      BY <2>1, ReturnedIs
    <2> QED
      BY <1>1, <2>1, <2>2, RolledBackIs
  <1> QED
    BY <1>3, <1>4

\* The dates returned ascend.
LEMMA DatesAscend ==
  ASSUME ScheduleInv, stage = "returned", term.frequency # 0,
         NEW i \in 2..Len(schedule)
  PROVE  schedule[i - 1] < schedule[i]
  <1> DEFINE a == schedule[i - 1]
             b == schedule[i]
             n == Len(schedule)
             p == months(term.frequency)
  <1>1. n \in Nat /\ i - 1 \in 1..n /\ i \in 1..n /\ i \in Int
    BY ReturnedIs
  <1>2. /\ a \in Int /\ b \in Int /\ MonthOf(a) \in Int /\ MonthOf(b) \in Int
        /\ MonthOf(a) = MonthOf(term.end) - (n - (i - 1)) * p
        /\ MonthOf(b) = MonthOf(term.end) - (n - i) * p
        /\ MonthOf(term.end) \in Int /\ p \in Int /\ 1 <= p
    BY <1>1, DatesAre
  <1> HIDE DEF n, p, a, b
  <1>3. MonthOf(b) = MonthOf(a) + p
    <2>1. n - (i - 1) \in Int /\ (n - (i - 1)) - 1 = n - i
      BY <1>1
    <2>2. (n - (i - 1)) * p = (n - i) * p + p /\ (n - i) * p \in Int
      BY <1>2, <2>1, OnePeriodFewer
    <2> QED
      BY <1>2, <2>2
  <1>4. SUFFICES ASSUME b <= a PROVE FALSE
    BY <1>2 DEF a, b
  <1> QED
    BY <1>2, <1>3, <1>4, MonthsAscend

\* Consecutive dates are a period apart.
LEMMA MonthsApart ==
  ASSUME ScheduleInv, stage = "returned", term.frequency # 0,
         NEW i \in 2..Len(schedule)
  PROVE  MonthOf(schedule[i]) = MonthOf(schedule[i - 1]) + months(term.frequency)
  <1> DEFINE n == Len(schedule)
             p == months(term.frequency)
  <1>1. n \in Nat /\ i - 1 \in 1..n /\ i \in 1..n /\ i \in Int
    BY ReturnedIs
  <1>2. /\ MonthOf(schedule[i - 1]) = MonthOf(term.end) - (n - (i - 1)) * p
        /\ MonthOf(schedule[i]) = MonthOf(term.end) - (n - i) * p
        /\ MonthOf(term.end) \in Int /\ p \in Int
    BY <1>1, DatesAre
  <1> HIDE DEF n, p
  <1>3. (n - (i - 1)) * p = (n - i) * p + p /\ (n - i) * p \in Int
    <2>1. n - (i - 1) \in Int /\ (n - (i - 1)) - 1 = n - i
      BY <1>1
    <2> QED
      BY <1>2, <2>1, OnePeriodFewer
  <1> QED
    BY <1>2, <1>3 DEF p

\* The midnight of the end, and a date a period before the first, which the
\* start has reached.
LEMMA StartIsReached ==
  ASSUME ScheduleInv, stage = "returned", term.frequency # 0
  PROVE  LET prior == MonthOf(schedule[1]) - months(term.frequency)
             start == unix_to_ymd(term.start)
         IN \/ prior < MonthOf(term.start)
            \/ /\ prior = MonthOf(term.start)
               /\ Lesser(unix_to_ymd(term.end).d, days_in_month(start.y, start.m))
                    <= start.d
  <1> DEFINE n == Len(schedule)
             p == months(term.frequency)
             prior == MonthOf(schedule[1]) - p
             start == unix_to_ymd(term.start)
             end == unix_to_ymd(term.end)
             date == RolledBack(term, n)
             ymd == unix_to_ymd(date)
  <1>1. n \in Nat /\ 1 \in 1..n /\ n = Len(rolled) + 1 /\ IsTerm(term)
    BY ReturnedIs DEF ScheduleInv
  <1>2. date <= term.start
    BY <1>1 DEF ScheduleInv, StartReached, NextRoll
  <1>3. /\ date \in Int /\ MonthOf(date) \in Int
        /\ MonthOf(date) = MonthOf(term.end) - n * p
        /\ ymd.d = Lesser(end.d, days_in_month(ymd.y, ymd.m))
    BY <1>1, RolledBackIs
  <1>4. MonthOf(schedule[1]) = MonthOf(term.end) - (n - 1) * p
        /\ MonthOf(term.end) \in Int /\ p \in Int
    BY <1>1, DatesAre
  <1>5. term.start \in Int
    BY <1>1 DEF IsTerm
  <1>6. /\ MonthOf(date) <= MonthOf(term.start) /\ MonthOf(term.start) \in Int
        /\ MonthOf(date) = MonthOf(term.start) => ymd.d <= start.d
    BY <1>2, <1>3, <1>5, MonthsAscend
  <1>7. MonthOf(date) = MonthOf(term.start) => ymd.y = start.y /\ ymd.m = start.m
    <2>1. ValidDate(ymd.y, ymd.m, ymd.d) /\ ValidDate(start.y, start.m, start.d)
      BY <1>3, <1>5, InstantsRoundTrip
    <2>2. /\ ymd.y \in Int /\ ymd.m \in 1..12
          /\ start.y \in Int /\ start.m \in 1..12
      BY <2>1 DEF ValidDate
    <2> HIDE DEF date
    <2>3. MonthOf(date) = ymd.y * 12 + ymd.m /\ MonthOf(term.start) = start.y * 12 + start.m
      BY DEF MonthOf, MonthNumber
    <2> HIDE DEF ymd, start
    <2> QED
      BY <2>2, <2>3
  <1> HIDE DEF n, p, date
  <1>8. prior = MonthOf(date)
    <2>1. n * p = (n - 1) * p + p /\ (n - 1) * p \in Int
      BY <1>1, <1>4, OnePeriodFewer
    <2> QED
      BY <1>3, <1>4, <2>1
  <1> HIDE DEF prior, ymd, end, start
  <1>9. \/ prior < MonthOf(term.start)
        \/ /\ prior = MonthOf(term.start)
           /\ Lesser(end.d, days_in_month(start.y, start.m)) <= start.d
    <2>1. CASE MonthOf(date) = MonthOf(term.start)
      BY <1>3, <1>6, <1>7, <1>8, <2>1
    <2>2. CASE MonthOf(date) # MonthOf(term.start)
      BY <1>3, <1>6, <1>8, <2>2
    <2> QED
      BY <2>1, <2>2
  <1> QED
    BY <1>9 DEF prior, p, start, end

\* A schedule that is returned tiles its term.
LEMMA ReturnedTiles == ScheduleInv => PeriodsTile
  <1> SUFFICES ASSUME ScheduleInv, stage = "returned", term.frequency # 0
               PROVE  PeriodsTile
    BY DEF PeriodsTile
  <1> DEFINE n == Len(schedule)
             end == unix_to_ymd(term.end)
             ymd == [i \in 1..n |-> unix_to_ymd(schedule[i])]
             month == [i \in 1..n |-> ymd[i].y * 12 + ymd[i].m]
             start == unix_to_ymd(term.start)
  <1>1. n \in Nat /\ 1 \in 1..n /\ n \in 1..n
    BY ReturnedIs
  <1>2. \A i \in 1..n : month[i] = MonthOf(schedule[i])
    BY DEF MonthOf, MonthNumber
  <1>3. ymd[n] = end /\ schedule[n] <= term.end
    <2>1. schedule[n] = Midnight(term.end) /\ IsTerm(term)
      BY ReturnedIs DEF ScheduleInv
    <2>2. Midnight(term.end) <= term.end
      BY <2>1, InstantsRoundTrip DEF IsTerm
    <2> QED
      BY <1>1, <2>1, <2>2, NoRollIsMidnight
  <1>4. ASSUME NEW i \in 1..n
        PROVE  /\ schedule[i] % DAY = 0
               /\ ymd[i].d = Lesser(end.d, days_in_month(ymd[i].y, ymd[i].m))
               /\ i < n => schedule[i] > term.start
               /\ i > 1 => month[i] = month[i - 1] + months(term.frequency)
    <2>1. schedule[i] % DAY = 0
          /\ ymd[i].d = Lesser(end.d, days_in_month(ymd[i].y, ymd[i].m))
      BY DatesAre
    <2>2. i < n => schedule[i] > term.start
      BY <1>1, ReturnedIs
    <2>3. ASSUME i > 1 PROVE month[i] = month[i - 1] + months(term.frequency)
      <3>1. i \in 2..n /\ i - 1 \in 1..n
        BY <1>1, <2>3
      <3> QED
        BY <1>2, <3>1, MonthsApart
    <2> QED
      BY <2>1, <2>2, <2>3
  <1>5. LET prior == month[1] - months(term.frequency)
            first == start.y * 12 + start.m
        IN \/ prior < first
           \/ /\ prior = first
              /\ Lesser(end.d, days_in_month(start.y, start.m)) <= start.d
    BY <1>1, <1>2, StartIsReached DEF MonthOf, MonthNumber
  <1> QED
    BY <1>3, <1>4, <1>5 DEF PeriodsTile

LEMMA MonthsOfThirtyDays ==
  ASSUME NEW y1 \in Int, NEW m1 \in Int, NEW y2 \in Int, NEW m2 \in Int,
         NEW p \in Int, NEW d \in Int,
         0 <= p, y2 * 12 + m2 = y1 * 12 + m1 + p
  PROVE  AbsoluteOf(360 * (y2 - y1) + 30 * (m2 - m1) + (d - d)) = 30 * p
  <1>1. 360 * (y2 - y1) + 30 * (m2 - m1) + (d - d) = 30 * p
    OBVIOUS
  <1>2. 30 * p \in Int /\ ~(30 * p < 0)
    OBVIOUS
  <1> QED
    BY <1>1, <1>2 DEF AbsoluteOf

\* Both 30/360 conventions count the months of a schedule's periods alone.
LEMMA PeriodsCountAlike == ScheduleInv => RegularPeriodsCountAlike
  <1> SUFFICES ASSUME ScheduleInv, stage = "returned", NEW i \in 2..Len(schedule),
                      Lesser(unix_to_ymd(schedule[i - 1]).d, 30)
                        = Lesser(unix_to_ymd(schedule[i]).d, 30)
               PROVE  LET whole == (RAY * months(term.frequency)) \div 12 IN
                      /\ year_fraction("Thirty360BondBasis", schedule[i - 1], schedule[i])
                           = whole
                      /\ year_fraction("ThirtyE360", schedule[i - 1], schedule[i]) = whole
    BY DEF RegularPeriodsCountAlike
  <1> DEFINE a == unix_to_ymd(schedule[i - 1])
             b == unix_to_ymd(schedule[i])
             p == months(term.frequency)
             whole == (RAY * p) \div 12
  <1>1. term.frequency # 0
    BY LenProperties DEF ScheduleInv
  <1>2. Len(schedule) \in Nat /\ i - 1 \in 1..Len(schedule) /\ i \in 1..Len(schedule)
    BY <1>1, ReturnedIs
  <1>3. schedule[i - 1] \in Int /\ schedule[i] \in Int /\ p \in Int /\ 1 <= p
    BY <1>1, <1>2, DatesAre
  <1>4. /\ a.y \in Int /\ a.m \in Int /\ a.d \in Int
        /\ b.y \in Int /\ b.m \in Int /\ b.d \in Int
    <2>1. ValidDate(a.y, a.m, a.d) /\ ValidDate(b.y, b.m, b.d)
      BY <1>3, InstantsRoundTrip
    <2> HIDE DEF a, b
    <2> QED
      BY <2>1 DEF ValidDate
  <1>5. b.y * 12 + b.m = a.y * 12 + a.m + p
    BY <1>1, MonthsApart DEF MonthOf, MonthNumber
  <1>6. Lesser(a.d, 30) = Lesser(b.d, 30)
    OBVIOUS
  <1>7. /\ year_fraction("Thirty360BondBasis", schedule[i - 1], schedule[i])
             = thirty_360_bond_basis(a, b)
        /\ year_fraction("ThirtyE360", schedule[i - 1], schedule[i]) = thirty_e360(a, b)
    BY DEF year_fraction
  <1> HIDE DEF a, b, p
  <1>8. \A d \in Int : ThirtyDays(a, b, d, d) = 30 * p
    <2>1. PICK y1, m1, y2, m2 : y1 = a.y /\ m1 = a.m /\ y2 = b.y /\ m2 = b.m
      OBVIOUS
    <2>2. /\ y1 \in Int /\ m1 \in Int /\ y2 \in Int /\ m2 \in Int
          /\ p \in Int /\ 0 <= p /\ y2 * 12 + m2 = y1 * 12 + m1 + p
      BY <1>3, <1>4, <1>5, <2>1
    <2>3. \A d \in Int : AbsoluteOf(360 * (y2 - y1) + 30 * (m2 - m1) + (d - d)) = 30 * p
      BY <2>2, MonthsOfThirtyDays
    <2> QED
      BY <2>1, <2>3, Zenon DEF ThirtyDays
  <1>9. ((30 * p) * RAY) \div 360 = (RAY * p) \div 12
    <2> DEFINE x == RAY * p
    <2>1. x \in Int /\ (30 * p) * RAY = 30 * x
      BY <1>3, RayAssumption
    <2> HIDE DEF x
    <2>2. (30 * x) \div 360 = x \div 12
      BY <2>1
    <2> QED
      BY <2>1, <2>2 DEF x
  <1>10. thirty_e360(a, b) = (RAY * p) \div 12
    <2>1. Lesser(a.d, 30) \in Int
      BY <1>4 DEF Lesser
    <2> QED
      BY <1>6, <1>8, <1>9, <2>1 DEF thirty_e360
  <1>11. thirty_360_bond_basis(a, b) = (RAY * p) \div 12
    <2> DEFINE e == Lesser(a.d, 30)
               f == IF e = 30 THEN Lesser(b.d, 30) ELSE b.d
    <2>1. e \in Int /\ f = e
      BY <1>4, <1>6 DEF Lesser
    <2>2. thirty_360_bond_basis(a, b) = (ThirtyDays(a, b, e, f) * RAY) \div 360
      BY DEF thirty_360_bond_basis
    <2> QED
      BY <1>8, <1>9, <2>1, <2>2
  <1> QED
    BY <1>7, <1>10, <1>11 DEF p, a, b

=============================================================================
