-------------------------- MODULE CalendarTheorems --------------------------
(***************************************************************************)
(* What the conversion arithmetic of Calendar guarantees for every date,   *)
(* and so what the wall calendar of CalendarWalk shows on every day; and   *)
(* what its arithmetic of months guarantees for every Period: the months   *)
(* of a calendar tile its days (InOnePeriod, MonthsTile), months added to  *)
(* dates keep their order (MonthsLater), the name of a month in the other  *)
(* calendar names what it shares days with (LabelsName), and from 1001 to  *)
(* 2500 its counterpart is the one it shares the most with                 *)
(* (CounterpartShares).                                                    *)
(***************************************************************************)
EXTENDS CalendarWalk, WellFoundedInduction, TLAPS

\* The ordinal of 1 Meskerem of year 1, the first date EthiopianDate accepts.
FirstMeskerem == 2796

\* Every day from 1 Meskerem 1 on converts to an Ethiopian date that exists,
\* and that date converts back to the same day (ethiopian.py:119-142): a spend
\* date shown in the other calendar never moves.
THEOREM EthiopianRoundTrip ==
    ASSUME NEW n \in Int, n >= FirstMeskerem
    PROVE  /\ gregorian_to_ethiopian(n) \in EthiopianDate
           /\ ethiopian_to_gregorian(gregorian_to_ethiopian(n)) = n
  <1> DEFINE days == n - 2431
             c == days \div 1461
             r == days % 1461
             q == r \div 365
             s == r % 365
             l == r \div 1460
             k == s + 365 * l
             y == 4 * c + q - l
             e == gregorian_to_ethiopian(n)
  <1>1. /\ days \in Int /\ c \in Int /\ r \in 0..1460
        /\ n = days + 2431 /\ days = 1461 * c + r /\ days >= 365
    BY DEF FirstMeskerem
  <1>2. /\ q \in 0..4 /\ s \in 0..364 /\ r = 365 * q + s
        /\ l \in 0..1 /\ (l = 1 <=> r = 1460)
    BY <1>1
  <1>3. e = [year |-> y, month |-> (k \div 30) + 1, day |-> (k % 30) + 1]
    BY DEF gregorian_to_ethiopian, GregorianOrdinalToJDN, JDEpochOffsetAmeteMihret
  <1> HIDE DEF days, c, r, q, s, l, e
  <1>4. /\ q - l \in 0..3 /\ k \in 0..365 /\ (k = 365 => q - l = 3)
    BY <1>1, <1>2
  <1>5. y \in Int /\ y >= 1
    BY <1>1, <1>2, <1>4
  <1>6. y % 4 = q - l /\ y \div 4 = c
    BY <1>1, <1>2, <1>4
  <1>7. n = 2431 + 365 * y + c + k
    BY <1>1, <1>2
  <1> HIDE DEF k, y
  <1>8. /\ k \div 30 \in 0..12 /\ k % 30 \in 0..29
        /\ k = 30 * (k \div 30) + (k % 30)
    BY <1>4
  <1>9. validate_ethiopian_date(e)
    BY <1>3, <1>4, <1>5, <1>6, <1>8
    DEF validate_ethiopian_date, ethiopian_month_length, is_ethiopian_leap_year
  <1>10. e \in EthiopianDate
    BY <1>3, <1>5, <1>8, <1>9 DEF EthiopianDate
  <1>11. ethiopian_to_gregorian(e) = n
    BY <1>1, <1>3, <1>5, <1>6, <1>7, <1>8
    DEF ethiopian_to_gregorian, GregorianOrdinalToJDN, JDEpochOffsetAmeteMihret
  <1>. QED BY <1>10, <1>11 DEF e

\* Every valid Ethiopian date converts to a day that reads back as the same
\* date: what an Owner typed in Ethiopian is what they see (spend_date.py:47-51).
THEOREM GregorianRoundTrip ==
    ASSUME NEW e \in EthiopianDate
    PROVE  /\ ethiopian_to_gregorian(e) \in Int
           /\ ethiopian_to_gregorian(e) >= FirstMeskerem
           /\ gregorian_to_ethiopian(ethiopian_to_gregorian(e)) = e
  <1> DEFINE c == e.year \div 4
             p == e.year % 4
             k == 30 * (e.month - 1) + e.day - 1
             r == 365 * p + k
             n == ethiopian_to_gregorian(e)
  <1>1. /\ e = [year |-> e.year, month |-> e.month, day |-> e.day]
        /\ e.year \in Int /\ e.year >= 1
        /\ e.month \in 1..13 /\ e.day \in 1..30
        /\ (e.month = 13 => e.day \in 1..6 /\ (e.day = 6 => e.year % 4 = 3))
    BY DEF EthiopianDate, validate_ethiopian_date, ethiopian_month_length,
           is_ethiopian_leap_year
  <1>2. /\ c \in Int /\ p \in 0..3 /\ e.year = 4 * c + p
        /\ c >= 0 /\ (c = 0 => p >= 1)
    BY <1>1
  <1>3. n = 2431 + 365 * e.year + c + k
    BY <1>1, <1>2
    DEF ethiopian_to_gregorian, GregorianOrdinalToJDN, JDEpochOffsetAmeteMihret
  <1>4. /\ k \in 0..365 /\ (k = 365 => p = 3)
        /\ k \div 30 = e.month - 1 /\ k % 30 = e.day - 1
    BY <1>1
  <1> HIDE DEF c, p, k, n
  <1>5. n \in Int /\ n - 2431 \in Int /\ n - 2431 = 1461 * c + r /\ r \in 0..1460 /\ n >= FirstMeskerem
    BY <1>1, <1>2, <1>3, <1>4 DEF FirstMeskerem
  <1> DEFINE s == (r % 365) + 365 * (r \div 1460)
             days == n - 2431
  <1>6. /\ days \in Int /\ days = 1461 * c + r
        /\ (n + GregorianOrdinalToJDN) - JDEpochOffsetAmeteMihret = days
    BY <1>5, SMT DEF GregorianOrdinalToJDN, JDEpochOffsetAmeteMihret
  <1> HIDE DEF r, days
  <1>7. gregorian_to_ethiopian(n) = [year  |-> 4 * c + r \div 365 - r \div 1460,
                                     month |-> (s \div 30) + 1,
                                     day   |-> (s % 30) + 1]
    <2>1. days \in Int /\ c \in Int /\ r \in 0..1460 /\ days = 1461 * c + r
      BY <1>2, <1>5, <1>6
    <2>2. days \div 1461 = c /\ days % 1461 = r
      BY <2>1
    <2>. QED BY <1>6, <2>2, SMT DEF gregorian_to_ethiopian
  <1>8. r \div 365 - r \div 1460 = p /\ s = k
    <2> USE DEF r
    <2>1. CASE k = 365
      BY <1>4, <2>1
    <2>2. CASE k # 365
      BY <1>2, <1>4, <2>2
    <2>. QED BY <2>1, <2>2
  <1> HIDE DEF s
  <1>9. gregorian_to_ethiopian(n) = [year |-> e.year, month |-> e.month, day |-> e.day]
    BY <1>1, <1>2, <1>4, <1>7, <1>8
  <1>. QED BY <1>1, <1>5, <1>9 DEF n

\* Turning the Ethiopian page gives an existing date, one day later.
LEMMA TurnedIsTheNextDay ==
    ASSUME NEW e \in EthiopianDate
    PROVE  LET next == Turned(e, 13, ethiopian_month_length(e.year, e.month))
           IN /\ next \in EthiopianDate
              /\ ethiopian_to_gregorian(next) = ethiopian_to_gregorian(e) + 1
  <1> DEFINE next == Turned(e, 13, ethiopian_month_length(e.year, e.month))
             Ordinal(y, m, d) == 2431 + 365 * y + y \div 4 + 30 * m + d - 31
  <1>1. /\ e \in [year : Int, month : Int, day : Int]
        /\ e = [year |-> e.year, month |-> e.month, day |-> e.day]
        /\ e.year \in Int /\ e.year >= 1
        /\ e.month \in 1..13 /\ e.day \in 1..ethiopian_month_length(e.year, e.month)
    BY DEF EthiopianDate, validate_ethiopian_date
  <1>2. ASSUME NEW y \in Int, y >= 1, NEW m \in 1..13,
               NEW d \in 1..ethiopian_month_length(y, m)
        PROVE  [year |-> y, month |-> m, day |-> d] \in EthiopianDate
    <2>1. d \in Int
      BY DEF ethiopian_month_length
    <2>. QED BY <1>2, <2>1 DEF EthiopianDate, validate_ethiopian_date
  <1>3. ASSUME NEW y \in Int, NEW m \in Int, NEW d \in Int
        PROVE  ethiopian_to_gregorian([year |-> y, month |-> m, day |-> d])
                 = Ordinal(y, m, d)
    BY <1>3, SMT
    DEF ethiopian_to_gregorian, GregorianOrdinalToJDN, JDEpochOffsetAmeteMihret
  <1>4. CASE e.day < ethiopian_month_length(e.year, e.month)
    <2>1. next = [year |-> e.year, month |-> e.month, day |-> e.day + 1]
      BY <1>1, <1>4 DEF Turned
    <2>2. e.day + 1 \in 1..ethiopian_month_length(e.year, e.month)
      BY <1>1, <1>4 DEF ethiopian_month_length
    <2>3. next \in EthiopianDate
      BY <1>1, <1>2, <2>1, <2>2
    <2>4. e.day + 1 \in Int /\ e.day \in Int
      BY <1>1 DEF ethiopian_month_length
    <2>5. ethiopian_to_gregorian(next) = ethiopian_to_gregorian(e) + 1
      BY <1>1, <1>3, <2>1, <2>4
    <2>. QED BY <2>3, <2>5
  <1>5. CASE ~(e.day < ethiopian_month_length(e.year, e.month)) /\ e.month < 13
    <2>1. next = [year |-> e.year, month |-> e.month + 1, day |-> 1] /\ e.day = 30
      BY <1>1, <1>5 DEF Turned, ethiopian_month_length
    <2>2. e.month + 1 \in 1..13 /\ 1 \in 1..ethiopian_month_length(e.year, e.month + 1)
      BY <1>1, <1>5 DEF ethiopian_month_length
    <2>. QED BY <1>1, <1>2, <1>3, <2>1, <2>2
  <1>6. CASE ~(e.day < ethiopian_month_length(e.year, e.month)) /\ e.month = 13
    <2>1. /\ next = [year |-> e.year + 1, month |-> 1, day |-> 1]
          /\ e.day = IF e.year % 4 = 3 THEN 6 ELSE 5
      BY <1>1, <1>6 DEF Turned, ethiopian_month_length, is_ethiopian_leap_year
    <2>2. 1 \in 1..ethiopian_month_length(e.year + 1, 1)
      BY DEF ethiopian_month_length
    <2>3. (e.year + 1) \div 4 = e.year \div 4 + (IF e.year % 4 = 3 THEN 1 ELSE 0)
      BY <1>1
    <2>. QED BY <1>1, <1>2, <1>3, <1>6, <2>1, <2>2, <2>3
  <1>. QED BY <1>1, <1>4, <1>5, <1>6

\* The Ethiopian half of the wall calendar: a date that exists, on its day.
EtReadsToday == /\ et \in EthiopianDate
                /\ ethiopian_to_gregorian(et) = today

\* On every day of every window the closed-form conversions agree with the
\* calendar turned page by page (ethiopian.py:119-142).
THEOREM ConversionTheorem == Spec => []ConversionFollowsTheCalendar
  <1>1. Init => EtReadsToday
    BY WindowAssumption DEF Init, EtReadsToday
  <1>2. EtReadsToday /\ [Next]_vars => EtReadsToday'
    BY TurnedIsTheNextDay DEF EtReadsToday, Next, NextDay, vars
  <1>3. EtReadsToday => ConversionFollowsTheCalendar
    BY GregorianRoundTrip DEF EtReadsToday, ConversionFollowsTheCalendar
  <1>. QED BY <1>1, <1>2, <1>3, PTL DEF Spec
-----------------------------------------------------------------------------
(* Months counted from one to the next.                                    *)

\* A Period is its index, in either calendar: a shift by any number of months
\* can be undone, and shifts add up (period.py:96-139).
THEOREM ShiftsAddUp ==
    ASSUME NEW p \in Period, NEW j \in Int, NEW k \in Int
    PROVE  /\ shift(p, 0) = p
           /\ shift(shift(p, j), k) = shift(p, j + k)
           /\ months_until(p, shift(p, k)) = k
  <1> DEFINE m == months_per_year(p.calendar)
  <1>1. /\ m \in {12, 13} /\ p.year \in Int /\ p.month \in 1..m
        /\ p = [calendar |-> p.calendar, year |-> p.year, month |-> p.month]
    BY DEF Period, months_per_year
  <1>2. index(p) = p.year * m + (p.month - 1) /\ index(p) \in Int
    BY <1>1 DEF index
  <1>3. ASSUME NEW i \in Int
        PROVE  /\ from_index(p.calendar, i).calendar = p.calendar
               /\ index(from_index(p.calendar, i)) = i
    <2>1. (i \div m) * m + (i % m) = i
      <3>1. CASE m = 12
        BY <3>1
      <3>2. CASE m = 13
        BY <3>2
      <3> QED BY <1>1, <3>1, <3>2
    <2>2. from_index(p.calendar, i) = [calendar |-> p.calendar, year |-> i \div m,
                                       month |-> (i % m) + 1]
      BY DEF from_index
    <2>3. i \div m \in Int /\ i % m \in Int
      BY <1>1
    <2> HIDE DEF m
    <2>4. months_per_year(p.calendar) = m
      BY DEF m
    <2>5. (i \div m) * m \in Int
      BY <1>1, <2>3
    <2> QED BY <2>1, <2>2, <2>3, <2>4, <2>5 DEF index
  <1>4. from_index(p.calendar, index(p)) = p
    <2>1. index(p) \div m = p.year /\ index(p) % m = p.month - 1
      <3>1. CASE m = 12
        BY <1>1, <1>2, <3>1
      <3>2. CASE m = 13
        BY <1>1, <1>2, <3>2
      <3> QED BY <1>1, <3>1, <3>2
    <2> QED BY <1>1, <2>1 DEF from_index
  <1>5. /\ shift(p, j).calendar = p.calendar /\ index(shift(p, j)) = index(p) + j
        /\ index(shift(p, k)) = index(p) + k
    BY <1>2, <1>3 DEF shift
  <1> HIDE DEF m
  <1>6. shift(p, 0) = p
    BY <1>2, <1>4 DEF shift
  <1>7. shift(shift(p, j), k) = shift(p, j + k)
    <2>1. index(p) + j + k = index(p) + (j + k)
      BY <1>2
    <2> QED BY <1>5, <2>1 DEF shift
  <1>8. months_until(p, shift(p, k)) = k
    BY <1>2, <1>5 DEF months_until
  <1> QED BY <1>6, <1>7, <1>8

\* Months added to an Ethiopian date, or taken away down to the first year, give
\* a date that exists, in the Period so many months on (ethiopian.py:207-212).
THEOREM MonthsLaterExist ==
    ASSUME NEW e \in EthiopianDate, NEW k \in Int,
           e.year * 13 + (e.month - 1) + k >= 13
    PROVE  /\ add_months(e, k) \in EthiopianDate
           /\ period_of_ethiopian_date(add_months(e, k))
                = shift(period_of_ethiopian_date(e), k)
  <1> DEFINE total == e.year * 13 + (e.month - 1) + k
             to == [year |-> total \div 13, month |-> (total % 13) + 1]
             last == ethiopian_month_length(to.year, to.month)
             d == IF e.day <= last THEN e.day ELSE last
  <1>1. e.year \in Int /\ e.month \in 1..13 /\ e.day \in Int /\ e.day >= 1
    BY DEF EthiopianDate, validate_ethiopian_date, ethiopian_month_length
  <1>2. total \in Int /\ to.year \in Int /\ to.year >= 1 /\ to.month \in 1..13
    BY <1>1
  <1>3. add_months(e, k) = [year |-> to.year, month |-> to.month, day |-> d]
    BY DEF add_months
  <1>4. d \in 1..last /\ d \in Int
    BY <1>1 DEF ethiopian_month_length
  <1>5. add_months(e, k) \in EthiopianDate
    <2> HIDE DEF d, to
    <2> QED BY <1>2, <1>3, <1>4 DEF EthiopianDate, validate_ethiopian_date
  <1>6. index(period_of_ethiopian_date(e)) + k = total
    BY <1>1 DEF index, period_of_ethiopian_date, months_per_year
  <1>7. period_of_ethiopian_date(add_months(e, k)) = shift(period_of_ethiopian_date(e), k)
    BY <1>3, <1>6 DEF shift, from_index, period_of_ethiopian_date, months_per_year
  <1> QED BY <1>5, <1>7
-----------------------------------------------------------------------------
(* The months of both calendars.                                           *)

Leap(y) == IF IsGregorianLeap(y) THEN 1 ELSE 0

\* A year is as many days after the one before it as that one has
\* (datetime.date).
LEMMA GregorianYears ==
    ASSUME NEW y \in Int
    PROVE  /\ DaysBeforeYear(y) \in Int /\ Leap(y) \in 0..1
           /\ DaysBeforeYear(y + 1) = DaysBeforeYear(y) + 365 + Leap(y)
  <1>1. /\ y \div 4 = (y - 1) \div 4 + (IF y % 4 = 0 THEN 1 ELSE 0)
        /\ y \div 100 = (y - 1) \div 100 + (IF y % 100 = 0 THEN 1 ELSE 0)
        /\ y \div 400 = (y - 1) \div 400 + (IF y % 400 = 0 THEN 1 ELSE 0)
    OBVIOUS
  <1>2. (y % 400 = 0 => y % 100 = 0) /\ (y % 100 = 0 => y % 4 = 0)
    OBVIOUS
  <1>3. /\ DaysBeforeYear(y) = 365 * (y - 1) + (y - 1) \div 4 - (y - 1) \div 100
                                 + (y - 1) \div 400
        /\ DaysBeforeYear(y + 1) = 365 * y + y \div 4 - y \div 100 + y \div 400
    BY DEF DaysBeforeYear
  <1>. QED BY <1>1, <1>2, <1>3 DEF Leap, IsGregorianLeap

\* Years come one after the other, none shorter than 365 days or longer than 366.
LEMMA GregorianYearsApart ==
    ASSUME NEW y \in Int, NEW z \in Int, y <= z
    PROVE  DaysBeforeYear(y) + 365 * (z - y) <= DaysBeforeYear(z)
  <1>1. /\ (y - 1) \div 4 <= (z - 1) \div 4
        /\ 365 * (z - y) + ((z - 1) \div 4 - (y - 1) \div 4)
             >= 365 * (z - y) + ((z - 1) \div 100 - (y - 1) \div 100)
        /\ (y - 1) \div 400 <= (z - 1) \div 400
    OBVIOUS
  <1>. QED BY <1>1 DEF DaysBeforeYear

\* Numbers have a first.
LEMMA FirstOf ==
    ASSUME NEW numbers \in SUBSET Nat, numbers # {}
    PROVE  \E x \in numbers : \A y \in numbers : x <= y
  <1>1. PICK x \in numbers : \A y \in numbers : ~(<<y, x>> \in OpToRel(<, Nat))
    BY NatLessThanWellFounded, WFMin
  <1>2. ASSUME NEW y \in numbers PROVE x <= y
    <2>1. ~(y < x)
      BY <1>1 DEF OpToRel
    <2>. QED BY <2>1
  <1>. QED BY <1>2

\* Every day is in the year the date says (datetime.date), and in no other.
LEMMA YearOfADay ==
    ASSUME NEW n \in Nat \ {0}
    PROVE  /\ YearOf(n) \in Int /\ YearOf(n) >= 1
           /\ DaysBeforeYear(YearOf(n)) < n /\ n <= DaysBeforeYear(YearOf(n) + 1)
           /\ \A y \in Int : DaysBeforeYear(y) < n /\ n <= DaysBeforeYear(y + 1)
                                => y = YearOf(n)
  <1> DEFINE In(y) == DaysBeforeYear(y) < n /\ n <= DaysBeforeYear(y + 1)
             begun == {y \in Nat : n <= DaysBeforeYear(y + 1)}
  <1>1. \A y \in Int : DaysBeforeYear(y) \in Int
    BY GregorianYears
  <1>2. DaysBeforeYear(1) = 0
    BY DEF DaysBeforeYear
  <1>3. n \in begun
    BY <1>1, <1>2, GregorianYearsApart
  <1>4. PICK y \in begun : \A z \in begun : y <= z
    BY <1>3, FirstOf
  <1>5. y >= 1
    BY <1>2, <1>4
  <1>6. DaysBeforeYear(y) < n
    <2>1. y - 1 \notin begun
      BY <1>4, <1>5
    <2>2. y - 1 \in Nat /\ (y - 1) + 1 = y
      BY <1>5
    <2>. QED BY <1>1, <2>1, <2>2
  <1>7. In(y) /\ y \in Int
    BY <1>4, <1>6
  <1>8. y \in (n \div 366)..(n \div 365 + 1)
    <2>1. 365 * (y - 1) < n
      BY <1>1, <1>2, <1>5, <1>6, GregorianYearsApart
    <2>2. n <= 366 * y
      BY <1>4 DEF DaysBeforeYear
    <2>. QED BY <1>5, <2>1, <2>2
  <1>9. YearOf(n) \in (n \div 366)..(n \div 365 + 1) /\ In(YearOf(n))
    BY <1>7, <1>8 DEF YearOf
  <1>10. ASSUME NEW x \in Int, NEW z \in Int, In(x), In(z), x < z
         PROVE  FALSE
    <2>1. x + 1 \in Int /\ x + 1 <= z
      BY <1>10
    <2>2. DaysBeforeYear(x + 1) + 365 * (z - (x + 1)) <= DaysBeforeYear(z)
      BY <2>1, GregorianYearsApart
    <2>. QED BY <1>1, <1>10, <2>1, <2>2
  <1> HIDE DEF In
  <1>11. YearOf(n) \in Int
    BY <1>9
  <1>12. \A z \in Int : In(z) => z = YearOf(n)
    BY <1>9, <1>10, <1>11
  <1>13. YearOf(n) = y
    BY <1>7, <1>12
  <1>. QED BY <1>5, <1>9, <1>11, <1>12, <1>13 DEF In

\* The months of a Gregorian year, one after the other, fill it
\* (calendar.monthrange).
LEMMA GregorianMonths ==
    ASSUME NEW y \in Int
    PROVE  /\ \A m \in 1..12 :
                 /\ DaysBeforeMonth(y, m) \in 0..335
                 /\ monthrange(y, m) \in 28..31
                 /\ m < 12 => DaysBeforeMonth(y, m + 1) = DaysBeforeMonth(y, m) + monthrange(y, m)
                 /\ DaysBeforeMonth(y, m) + monthrange(y, m) <= 365 + Leap(y)
           /\ DaysBeforeMonth(y, 1) = 0
           /\ DaysBeforeMonth(y, 12) + monthrange(y, 12) = 365 + Leap(y)
           /\ \A m, k \in 1..12 :
                 m < k => DaysBeforeMonth(y, m) + monthrange(y, m) <= DaysBeforeMonth(y, k)
           /\ \A d \in 1..(365 + Leap(y)) :
                 \E m \in 1..12 : /\ DaysBeforeMonth(y, m) < d
                                  /\ d <= DaysBeforeMonth(y, m) + monthrange(y, m)
  <1> DEFINE l == Leap(y)
             before == [m \in 1..12 |-> DaysBeforeMonth(y, m)]
             length == [m \in 1..12 |-> monthrange(y, m)]
  <1>1. l \in 0..1
    BY DEF Leap
  <1>2. /\ before[1] = 0 /\ before[2] = 31 /\ before[3] = 59 + l /\ before[4] = 90 + l
        /\ before[5] = 120 + l /\ before[6] = 151 + l /\ before[7] = 181 + l
        /\ before[8] = 212 + l /\ before[9] = 243 + l /\ before[10] = 273 + l
        /\ before[11] = 304 + l /\ before[12] = 334 + l
    BY DEF DaysBeforeMonth, Leap
  <1>3. /\ length[1] = 31 /\ length[2] = 28 + l /\ length[3] = 31 /\ length[4] = 30
        /\ length[5] = 31 /\ length[6] = 30 /\ length[7] = 31 /\ length[8] = 31
        /\ length[9] = 30 /\ length[10] = 31 /\ length[11] = 30 /\ length[12] = 31
    BY DEF monthrange, Leap
  <1>4. \A m \in 1..12 : DaysBeforeMonth(y, m) = before[m] /\ monthrange(y, m) = length[m]
    OBVIOUS
  <1>5. \A m \in 1..12 : \/ m = 1 \/ m = 2 \/ m = 3 \/ m = 4 \/ m = 5 \/ m = 6
                         \/ m = 7 \/ m = 8 \/ m = 9 \/ m = 10 \/ m = 11 \/ m = 12
    OBVIOUS
  <1> HIDE DEF l, before, length
  <1>6. \A m \in 1..12 : /\ before[m] \in 0..335 /\ length[m] \in 28..31
                         /\ m < 12 => before[m + 1] = before[m] + length[m]
                         /\ before[m] + length[m] <= 365 + l
    BY <1>1, <1>2, <1>3, <1>5
  <1>7. \A m, k \in 1..12 : m < k => before[m] + length[m] <= before[k]
    BY <1>1, <1>2, <1>3, <1>5
  <1>8. \A d \in 1..(365 + l) :
           \E m \in 1..12 : before[m] < d /\ d <= before[m] + length[m]
    <2> TAKE d \in 1..(365 + l)
    <2> DEFINE Holds(m) == before[m] < d /\ d <= before[m] + length[m]
    <2>1. \/ Holds(1) \/ Holds(2) \/ Holds(3) \/ Holds(4) \/ Holds(5) \/ Holds(6)
          \/ Holds(7) \/ Holds(8) \/ Holds(9) \/ Holds(10) \/ Holds(11) \/ Holds(12)
      BY <1>1, <1>2, <1>3
    <2> HIDE DEF Holds
    <2>2. \E m \in 1..12 : Holds(m)
      BY <2>1
    <2>. QED BY <2>2 DEF Holds
  <1>9. \A m \in 1..12 : m < 12 => m + 1 \in 1..12
    OBVIOUS
  <1>10. /\ before[1] = 0 /\ before[12] + length[12] = 365 + l
    BY <1>1, <1>2, <1>3
  <1>11. /\ \A m \in 1..12 :
               /\ DaysBeforeMonth(y, m) \in 0..335 /\ monthrange(y, m) \in 28..31
               /\ m < 12 => DaysBeforeMonth(y, m + 1) = DaysBeforeMonth(y, m) + monthrange(y, m)
               /\ DaysBeforeMonth(y, m) + monthrange(y, m) <= 365 + l
         /\ \A m, k \in 1..12 :
               m < k => DaysBeforeMonth(y, m) + monthrange(y, m) <= DaysBeforeMonth(y, k)
    <2>1. \A m \in 1..12 :
             m < 12 => DaysBeforeMonth(y, m + 1) = DaysBeforeMonth(y, m) + monthrange(y, m)
      <3> TAKE m \in 1..12
      <3> HAVE m < 12
      <3>1. DaysBeforeMonth(y, m + 1) = before[m + 1]
        BY <1>4, <1>9
      <3>. QED BY <1>4, <1>6, <3>1
    <2>2. \A m \in 1..12 :
             /\ DaysBeforeMonth(y, m) \in 0..335 /\ monthrange(y, m) \in 28..31
             /\ DaysBeforeMonth(y, m) + monthrange(y, m) <= 365 + l
      BY <1>4, <1>6
    <2>3. \A m, k \in 1..12 :
             m < k => DaysBeforeMonth(y, m) + monthrange(y, m) <= DaysBeforeMonth(y, k)
      BY <1>4, <1>7
    <2>. QED BY <2>1, <2>2, <2>3
  <1>12. /\ DaysBeforeMonth(y, 1) = 0
         /\ DaysBeforeMonth(y, 12) + monthrange(y, 12) = 365 + l
    BY <1>4, <1>10
  <1>13. \A d \in 1..(365 + l) :
            \E m \in 1..12 : /\ DaysBeforeMonth(y, m) < d
                             /\ d <= DaysBeforeMonth(y, m) + monthrange(y, m)
    BY <1>4, <1>8
  <1>. QED BY <1>11, <1>12, <1>13 DEF l

\* The first day of an Ethiopian month, without its dates.
EthiopianFirst(y, m) == 2431 + 365 * y + y \div 4 + 30 * m + 1 - 31

LEMMA EthiopianDays ==
    ASSUME NEW y \in Int, NEW m \in Int, NEW d \in Int
    PROVE  /\ EthiopianFirst(y, m) \in Int
           /\ ethiopian_to_gregorian([year |-> y, month |-> m, day |-> d])
                = EthiopianFirst(y, m) + d - 1
  BY SMT
  DEF ethiopian_to_gregorian, GregorianOrdinalToJDN, JDEpochOffsetAmeteMihret, EthiopianFirst

LEMMA GregorianDays ==
    ASSUME NEW y \in Int, NEW m \in 1..12
    PROVE  /\ DaysBeforeYear(y) \in Int /\ DaysBeforeMonth(y, m) \in Int
           /\ monthrange(y, m) \in 28..31
           /\ \A d \in Int : toordinal(y, m, d) = DaysBeforeYear(y) + DaysBeforeMonth(y, m) + d
  <1>1. DaysBeforeYear(y) \in Int
    BY GregorianYears
  <1>2. DaysBeforeMonth(y, m) \in 0..335 /\ monthrange(y, m) \in 28..31
    BY GregorianMonths
  <1>. QED BY <1>1, <1>2 DEF toordinal

\* The span of a month of a year, the year before the first one included
\* (period.py:143-172).
LEMMA SpanOfAMonth ==
    ASSUME NEW p, p.calendar \in CalendarKind, p.year \in Int,
           p.month \in 1..months_per_year(p.calendar)
    PROVE  /\ length_in_days(p) \in 5..31
           /\ gregorian_span(p).last = gregorian_span(p).first + length_in_days(p) - 1
           /\ gregorian_span(p).first \in Int
           /\ \A d \in Nat \ {0} : contains(p, day(p, d))
           /\ p.calendar = Ethiopian =>
                 gregorian_span(p).first = EthiopianFirst(p.year, p.month)
           /\ p.calendar = Gregorian =>
                 gregorian_span(p).first
                   = DaysBeforeYear(p.year) + DaysBeforeMonth(p.year, p.month) + 1
  <1> DEFINE y == p.year
             m == p.month
             l == length_in_days(p)
  <1>1. /\ l \in 5..31
        /\ p.calendar # Ethiopian => m \in 1..12 /\ l = monthrange(y, m)
        /\ p.calendar = Ethiopian => m \in 1..13
    <2>1. CASE p.calendar = Ethiopian
      BY <2>1 DEF length_in_days, ethiopian_month_length, months_per_year
    <2>2. CASE p.calendar # Ethiopian
      <3>1. m \in 1..12 /\ l = monthrange(y, m)
        BY <2>2 DEF length_in_days, months_per_year
      <3>2. monthrange(y, m) \in 28..31
        BY <3>1, GregorianDays
      <3>. QED BY <2>2, <3>1, <3>2
    <2>. QED BY <2>1, <2>2
  <1>2. gregorian_span(p).first = day(p, 1) /\ gregorian_span(p).last = day(p, l)
    BY DEF gregorian_span
  <1>3. Ethiopian # Gregorian
    BY DEF Ethiopian, Gregorian
  <1>6. \A d \in Nat \ {0} : day(p, d) = day(p, IF d <= l THEN d ELSE l)
    BY <1>1 DEF day
  <1> HIDE DEF y, m, l
  <1>4. CASE p.calendar = Ethiopian
    <2>1. ASSUME NEW d \in Int, 1 <= d, d <= l PROVE day(p, d) = EthiopianFirst(y, m) + d - 1
      <3>1. day(p, d) = ethiopian_to_gregorian([year |-> y, month |-> m, day |-> d])
        BY <1>4, <2>1 DEF day, y, m, l
      <3>. QED BY <1>1, <1>4, <2>1, <3>1, EthiopianDays DEF y
    <2>2. /\ gregorian_span(p).first = EthiopianFirst(y, m) + 1 - 1
          /\ gregorian_span(p).last = EthiopianFirst(y, m) + l - 1
      BY <1>1, <1>2, <2>1
    <2>3. EthiopianFirst(y, m) \in Int
      BY <1>1, <1>4 DEF EthiopianFirst, y
    <2>4. \A d \in Nat \ {0} : contains(p, day(p, d))
      <3> TAKE d \in Nat \ {0}
      <3> DEFINE c == IF d <= l THEN d ELSE l
      <3>1. c \in Int /\ 1 <= c /\ c <= l
        BY <1>1
      <3>2. day(p, d) = EthiopianFirst(y, m) + c - 1
        BY <1>6, <2>1, <3>1
      <3>. QED BY <1>1, <2>2, <2>3, <3>1, <3>2 DEF contains
    <2>. QED BY <1>1, <1>3, <1>4, <2>2, <2>3, <2>4 DEF y, m, l
  <1>5. CASE p.calendar # Ethiopian
    <2>1. DaysBeforeYear(y) \in Int /\ DaysBeforeMonth(y, m) \in Int
      BY <1>1, <1>5, GregorianDays DEF y
    <2>2. ASSUME NEW d \in Int, 1 <= d, d <= l
          PROVE  day(p, d) = DaysBeforeYear(y) + DaysBeforeMonth(y, m) + d
      BY <1>5, <2>2 DEF day, toordinal, y, m, l
    <2>3. /\ gregorian_span(p).first = DaysBeforeYear(y) + DaysBeforeMonth(y, m) + 1
          /\ gregorian_span(p).last = DaysBeforeYear(y) + DaysBeforeMonth(y, m) + l
      BY <1>1, <1>2, <2>2
    <2>4. \A d \in Nat \ {0} : contains(p, day(p, d))
      <3> TAKE d \in Nat \ {0}
      <3> DEFINE c == IF d <= l THEN d ELSE l
      <3>1. c \in Int /\ 1 <= c /\ c <= l
        BY <1>1
      <3>2. day(p, d) = DaysBeforeYear(y) + DaysBeforeMonth(y, m) + c
        BY <1>6, <2>2, <3>1
      <3>. QED BY <1>1, <2>1, <2>3, <3>1, <3>2 DEF contains
    <2>. QED BY <1>1, <1>5, <2>1, <2>3, <2>4 DEF y, m, l
  <1>. QED BY <1>4, <1>5

\* Every day a calendar has is in one Period of it, the one its date says
\* (period.py:81-87), and in no other.
THEOREM InOnePeriod ==
    ASSUME NEW kind \in CalendarKind, NEW n \in Int,
           n >= IF kind = Ethiopian THEN FirstMeskerem ELSE 1
    PROVE  /\ from_date(n, kind) \in Period
           /\ \A p \in Period :
                 p.calendar = kind => (contains(p, n) <=> p = from_date(n, kind))
  <1> DEFINE f == from_date(n, kind)
  <1>1. ASSUME NEW p \in Period
        PROVE  /\ p.calendar \in CalendarKind /\ p.year \in Int /\ p.year >= 1
               /\ p.month \in 1..months_per_year(p.calendar)
               /\ p = [calendar |-> p.calendar, year |-> p.year, month |-> p.month]
    BY DEF Period
  <1>2. CASE kind = Ethiopian
    <2> DEFINE e == gregorian_to_ethiopian(n)
    <2>1. e \in EthiopianDate /\ ethiopian_to_gregorian(e) = n
      BY <1>2, EthiopianRoundTrip
    <2>2. /\ f = [calendar |-> Ethiopian, year |-> e.year, month |-> e.month]
          /\ f \in Period /\ f.year = e.year /\ f.month = e.month
      BY <1>2, <2>1
      DEF from_date, Period, EthiopianDate, validate_ethiopian_date, months_per_year, CalendarKind
    <2> DEFINE Dated(p, d) == [year |-> p.year, month |-> p.month, day |-> d]
    <2>3. ASSUME NEW p \in Period, p.calendar = Ethiopian, NEW d \in Int
          PROVE  /\ ethiopian_to_gregorian(Dated(p, d)) = gregorian_span(p).first + d - 1
                 /\ d \in 1..length_in_days(p) => Dated(p, d) \in EthiopianDate
      <3>1. p.month \in 1..13 /\ p.year \in Int /\ p.year >= 1
        BY <1>1, <2>3 DEF months_per_year
      <3>2. gregorian_span(p).first = EthiopianFirst(p.year, p.month)
        BY <1>1, <2>3, SpanOfAMonth
      <3>3. ethiopian_to_gregorian(Dated(p, d)) = gregorian_span(p).first + d - 1
        BY <2>3, <3>1, <3>2, EthiopianDays
      <3>4. d \in 1..length_in_days(p) => Dated(p, d) \in EthiopianDate
        BY <2>3, <3>1 DEF EthiopianDate, validate_ethiopian_date, length_in_days
      <3>. QED BY <3>3, <3>4
    <2>4. ASSUME NEW p \in Period, p.calendar = Ethiopian, contains(p, n) PROVE p = f
      <3> DEFINE d == n - gregorian_span(p).first + 1
      <3>1. d \in 1..length_in_days(p) /\ d \in Int
        BY <1>1, <2>4, SpanOfAMonth DEF contains
      <3>2. Dated(p, d) \in EthiopianDate /\ ethiopian_to_gregorian(Dated(p, d)) = n
        BY <1>1, <2>3, <2>4, <3>1, SpanOfAMonth
      <3>3. e = Dated(p, d)
        BY <3>2, GregorianRoundTrip
      <3>. QED BY <1>1, <2>2, <2>4, <3>3
    <2>5. contains(f, n)
      <3>1. e = Dated(f, e.day) /\ e.day \in Int /\ e.day \in 1..length_in_days(f)
        BY <2>1, <2>2
        DEF EthiopianDate, validate_ethiopian_date, ethiopian_month_length, length_in_days
      <3>2. f.calendar = Ethiopian
        BY <2>2
      <3>3. n = gregorian_span(f).first + e.day - 1
        BY <2>1, <2>2, <2>3, <3>1, <3>2
      <3>. QED BY <1>1, <2>2, <3>1, <3>3, SpanOfAMonth DEF contains
    <2>. QED BY <1>2, <2>2, <2>4, <2>5
  <1>3. CASE kind = Gregorian
    <2> DEFINE y == YearOf(n)
               m == MonthOf(n)
               First(x, k) == DaysBeforeYear(x) + DaysBeforeMonth(x, k) + 1
               In(x, k) == First(x, k) <= n /\ n <= First(x, k) + monthrange(x, k) - 1
    <2>1. n \in Nat \ {0}
      BY <1>3 DEF Ethiopian, Gregorian
    <2>2. /\ y \in Int /\ y >= 1 /\ DaysBeforeYear(y) < n /\ n <= DaysBeforeYear(y + 1)
          /\ \A x \in Int : DaysBeforeYear(x) < n /\ n <= DaysBeforeYear(x + 1) => x = y
      BY <2>1, YearOfADay
    <2>year. y \in Int
      BY <2>2
    <2>3. ASSUME NEW x \in Int, NEW k \in 1..12, In(x, k) PROVE x = y
      <3>1. /\ DaysBeforeYear(x) \in Int /\ Leap(x) \in 0..1
            /\ DaysBeforeYear(x + 1) = DaysBeforeYear(x) + 365 + Leap(x)
        BY GregorianYears
      <3>2. /\ DaysBeforeMonth(x, k) \in 0..335 /\ monthrange(x, k) \in 28..31
            /\ DaysBeforeMonth(x, k) + monthrange(x, k) <= 365 + Leap(x)
        BY GregorianMonths
      <3>. QED BY <2>2, <2>3, <3>1, <3>2
    <2>4. \E k \in 1..12 : In(y, k)
      <3>1. /\ DaysBeforeYear(y) \in Int /\ Leap(y) \in 0..1
            /\ DaysBeforeYear(y + 1) = DaysBeforeYear(y) + 365 + Leap(y)
        BY <2>2, GregorianYears
      <3>2. n - DaysBeforeYear(y) \in 1..(365 + Leap(y))
        BY <2>2, <3>1
      <3>3. PICK k \in 1..12 :
              /\ DaysBeforeMonth(y, k) < n - DaysBeforeYear(y)
              /\ n - DaysBeforeYear(y) <= DaysBeforeMonth(y, k) + monthrange(y, k)
        BY <2>2, <3>2, GregorianMonths
      <3>4. DaysBeforeMonth(y, k) \in Int /\ monthrange(y, k) \in Int
        <4>1. DaysBeforeMonth(y, k) \in Int /\ monthrange(y, k) \in 28..31
          BY <2>year, GregorianDays
        <4>. QED BY <4>1
      <3>5. In(y, k)
        BY <3>1, <3>3, <3>4
      <3>. QED BY <3>5
    <2>5. ASSUME NEW k \in 1..12
          PROVE  /\ DaysBeforeMonth(y, k) \in Int /\ monthrange(y, k) \in Int
                 /\ DaysBeforeYear(y) \in Int
                 /\ toordinal(y, k, 1) = First(y, k)
                 /\ toordinal(y, k, monthrange(y, k)) = First(y, k) + monthrange(y, k) - 1
      <3>1. /\ DaysBeforeMonth(y, k) \in Int /\ monthrange(y, k) \in 28..31
            /\ DaysBeforeYear(y) \in Int
            /\ \A d \in Int :
                 toordinal(y, k, d) = DaysBeforeYear(y) + DaysBeforeMonth(y, k) + d
        BY <2>year, GregorianDays
      <3>2. 1 \in Int /\ monthrange(y, k) \in Int
        BY <3>1
      <3>. QED BY <3>1, <3>2
    <2>6. m \in 1..12 /\ In(y, m)
      <3>1. \E k \in 1..12 : toordinal(y, k, 1) <= n /\ n <= toordinal(y, k, monthrange(y, k))
        BY <2>4, <2>5
      <3>2. m \in 1..12 /\ toordinal(y, m, 1) <= n /\ n <= toordinal(y, m, monthrange(y, m))
        BY <3>1 DEF MonthOf
      <3>. QED BY <2>5, <3>2
    <2>7. ASSUME NEW k \in 1..12, NEW j \in 1..12, In(y, k), In(y, j), k < j PROVE FALSE
      <3>1. DaysBeforeMonth(y, k) + monthrange(y, k) <= DaysBeforeMonth(y, j)
        BY <2>2, <2>7, GregorianMonths
      <3>. QED BY <2>5, <2>7, <3>1
    <2>8. f = [calendar |-> Gregorian, year |-> y, month |-> m] /\ f \in Period
      BY <1>3, <2>2, <2>6
      DEF from_date, Period, months_per_year, CalendarKind, Ethiopian, Gregorian
    <2>9. ASSUME NEW p \in Period, p.calendar = Gregorian
          PROVE  p.month \in 1..12 /\ (contains(p, n) <=> In(p.year, p.month))
      <3>1. p.month \in 1..12 /\ length_in_days(p) = monthrange(p.year, p.month)
        BY <1>1, <2>9 DEF months_per_year, length_in_days, Ethiopian, Gregorian
      <3>. QED BY <1>1, <2>9, <3>1, SpanOfAMonth DEF contains
    <2> HIDE DEF In
    <2>10. ASSUME NEW p \in Period, p.calendar = Gregorian, contains(p, n) PROVE p = f
      <3>1. In(p.year, p.month) /\ p.month \in 1..12 /\ p.year = y
        BY <1>1, <2>3, <2>9, <2>10
      <3>2. p.month = m
        BY <2>6, <2>7, <3>1
      <3>. QED BY <1>1, <2>8, <2>10, <3>1, <3>2
    <2>11. contains(f, n)
      BY <2>6, <2>8, <2>9
    <2>. QED BY <1>3, <2>8, <2>10, <2>11
  <1>. QED BY <1>2, <1>3 DEF CalendarKind

\* The months of either calendar leave no day out and share none, Pagumen and
\* February of a leap year included: the next Period begins the day after
\* (period.py:126-172).
THEOREM MonthsTile ==
    ASSUME NEW p, p.calendar \in CalendarKind, p.year \in Int,
           p.month \in 1..months_per_year(p.calendar)
    PROVE  gregorian_span(shift(p, 1)).first = gregorian_span(p).last + 1
  <1> DEFINE y == p.year
             m == p.month
             next == shift(p, 1)
             months == months_per_year(p.calendar)
  <1>1. months \in {12, 13} /\ m \in 1..months /\ y \in Int
    BY DEF months_per_year
  <1>2. next = [calendar |-> p.calendar, year |-> IF m < months THEN y ELSE y + 1,
                month |-> IF m < months THEN m + 1 ELSE 1]
    <2>1. index(p) + 1 = y * months + m
      BY <1>1 DEF index
    <2>2. /\ m < months => (y * months + m) \div months = y /\ (y * months + m) % months = m
          /\ m = months => (y * months + m) \div months = y + 1 /\ (y * months + m) % months = 0
      <3>1. CASE months = 12
        BY <1>1, <3>1
      <3>2. CASE months = 13
        BY <1>1, <3>2
      <3>. QED BY <1>1, <3>1, <3>2
    <2> HIDE DEF months
    <2>3. next = [calendar |-> p.calendar, year |-> (y * months + m) \div months,
                  month |-> ((y * months + m) % months) + 1]
      BY <2>1 DEF shift, from_index, months
    <2>. QED BY <1>1, <2>2, <2>3
  <1>3. /\ next.calendar = p.calendar /\ next.year \in Int
        /\ next.month \in 1..months_per_year(next.calendar)
    BY <1>1, <1>2
  <1>4. Ethiopian # Gregorian
    BY DEF Ethiopian, Gregorian
  <1> HIDE DEF next
  <1>5. CASE p.calendar = Ethiopian
    <2>1. /\ gregorian_span(p).last = EthiopianFirst(y, m) + length_in_days(p) - 1
          /\ gregorian_span(next).first = EthiopianFirst(next.year, next.month)
      BY <1>3, <1>5, SpanOfAMonth
    <2>2. months = 13
      BY <1>5 DEF months_per_year
    <2>3. length_in_days(p) = IF m = 13 THEN IF y % 4 = 3 THEN 6 ELSE 5 ELSE 30
      BY <1>5 DEF length_in_days, ethiopian_month_length, is_ethiopian_leap_year
    <2>4. (y + 1) \div 4 = y \div 4 + (IF y % 4 = 3 THEN 1 ELSE 0)
      BY <1>1
    <2>5. next.year = (IF m < 13 THEN y ELSE y + 1) /\ next.month = (IF m < 13 THEN m + 1 ELSE 1)
      BY <1>2, <2>2
    <2>6. EthiopianFirst(next.year, next.month) = EthiopianFirst(y, m) + length_in_days(p)
      BY <1>1, <2>2, <2>3, <2>4, <2>5 DEF EthiopianFirst
    <2>7. EthiopianFirst(y, m) \in Int /\ length_in_days(p) \in Int
      BY <1>1, <2>2, <2>3 DEF EthiopianFirst
    <2>. QED BY <2>1, <2>6, <2>7 DEF next
  <1>6. CASE p.calendar = Gregorian
    <2> DEFINE First(x, k) == DaysBeforeYear(x) + DaysBeforeMonth(x, k) + 1
    <2>1. months = 12
      BY <1>4, <1>6 DEF months_per_year
    <2>2. length_in_days(p) = monthrange(y, m)
      BY <1>4, <1>6 DEF length_in_days
    <2>3. /\ gregorian_span(p).last = First(y, m) + monthrange(y, m) - 1
          /\ gregorian_span(next).first = First(next.year, next.month)
      BY <1>3, <1>6, <2>2, SpanOfAMonth
    <2>4. /\ DaysBeforeYear(y) \in Int /\ DaysBeforeYear(y + 1) = DaysBeforeYear(y) + 365 + Leap(y)
          /\ Leap(y) \in 0..1 /\ DaysBeforeMonth(y + 1, 1) = 0
      <3>1. y + 1 \in Int
        BY <1>1
      <3>2. DaysBeforeMonth(y + 1, 1) = 0
        BY <3>1, GregorianMonths
      <3>. QED BY <1>1, <3>2, GregorianYears
    <2>5. /\ m < 12 => DaysBeforeMonth(y, m + 1) = DaysBeforeMonth(y, m) + monthrange(y, m)
          /\ DaysBeforeMonth(y, 12) + monthrange(y, 12) = 365 + Leap(y)
      BY <1>1, <2>1, GregorianMonths
    <2>6. DaysBeforeMonth(y, m) \in 0..335 /\ monthrange(y, m) \in 28..31
      BY <1>1, <2>1, GregorianMonths
    <2>7. next.year = (IF m < 12 THEN y ELSE y + 1) /\ next.month = (IF m < 12 THEN m + 1 ELSE 1)
      BY <1>2, <2>1 DEF next
    <2>8. First(next.year, next.month) = First(y, m) + monthrange(y, m)
      <3>1. CASE m < 12
        BY <2>4, <2>5, <2>6, <2>7, <3>1
      <3>2. CASE m = 12
        BY <2>4, <2>5, <2>6, <2>7, <3>2
      <3>. QED BY <1>1, <2>1, <3>1, <3>2
    <2>. QED BY <2>3, <2>4, <2>6, <2>8 DEF next
  <1>. QED BY <1>5, <1>6 DEF CalendarKind
-----------------------------------------------------------------------------
(* The wall.                                                               *)

WallStands == /\ TypeOK
              /\ EtReadsToday
              /\ today \in Int
              /\ greg = [year |-> greg.year, month |-> greg.month, day |-> greg.day]
              /\ greg.year \in Int /\ greg.month \in 1..12 /\ greg.day \in Int

\* Turning the Gregorian page gives an existing date, one day later.
LEMMA TurnedGregorian ==
    ASSUME WallStands
    PROVE  LET next == Turned(greg, 12, monthrange(greg.year, greg.month))
           IN /\ next = [year |-> next.year, month |-> next.month, day |-> next.day]
              /\ next.year \in Int /\ next.month \in 1..12 /\ next.day \in Int
              /\ next.day \in 1..monthrange(next.year, next.month)
              /\ toordinal(next.year, next.month, next.day) = today + 1
  <1> DEFINE y == greg.year
             m == greg.month
             d == greg.day
             l == monthrange(y, m)
             next == Turned(greg, 12, l)
  <1>1. /\ y \in Int /\ m \in 1..12 /\ d \in Int /\ d >= 1 /\ d <= l
        /\ toordinal(y, m, d) = today
    BY DEF WallStands, TypeOK
  <1>2. /\ DaysBeforeYear(y) \in Int /\ DaysBeforeMonth(y, m) \in Int /\ l \in 28..31
        /\ today = DaysBeforeYear(y) + DaysBeforeMonth(y, m) + d
    <2>1. /\ DaysBeforeYear(y) \in Int /\ DaysBeforeMonth(y, m) \in Int /\ l \in 28..31
          /\ \A k \in Int : toordinal(y, m, k) = DaysBeforeYear(y) + DaysBeforeMonth(y, m) + k
      BY <1>1, GregorianDays
    <2>. QED BY <1>1, <2>1
  <1> HIDE DEF y, m, d
  <1>3. CASE d < l
    <2>1. next = [year |-> y, month |-> m, day |-> d + 1]
      BY <1>3 DEF Turned, y, m, d
    <2>2. toordinal(y, m, d + 1) = today + 1
      <3>1. d + 1 \in Int
        BY <1>1
      <3>2. toordinal(y, m, d + 1) = DaysBeforeYear(y) + DaysBeforeMonth(y, m) + (d + 1)
        BY <1>1, <3>1, GregorianDays
      <3>. QED BY <1>1, <1>2, <3>2
    <2>3. d + 1 \in 1..l
      BY <1>1, <1>2, <1>3
    <2>. QED BY <1>1, <2>1, <2>2, <2>3 DEF y, m, d
  <1>4. CASE d = l /\ m < 12
    <2>1. next = [year |-> y, month |-> m + 1, day |-> 1]
      BY <1>1, <1>2, <1>4 DEF Turned, y, m, d
    <2>2. m + 1 \in 1..12
      BY <1>1, <1>4
    <2>3. /\ monthrange(y, m + 1) \in 28..31
          /\ toordinal(y, m + 1, 1) = DaysBeforeYear(y) + DaysBeforeMonth(y, m + 1) + 1
      <3>1. monthrange(y, m + 1) \in 28..31
        BY <1>1, <2>2, GregorianDays
      <3>. QED BY <3>1 DEF toordinal
    <2>4. DaysBeforeMonth(y, m + 1) = DaysBeforeMonth(y, m) + l
      BY <1>1, <1>4, GregorianMonths
    <2>5. toordinal(y, m + 1, 1) = today + 1 /\ 1 \in 1..monthrange(y, m + 1)
      BY <1>2, <1>4, <2>3, <2>4
    <2>. QED BY <1>1, <2>1, <2>2, <2>5 DEF y, m, d
  <1>5. CASE d = l /\ m = 12
    <2>1. next = [year |-> y + 1, month |-> 1, day |-> 1]
      BY <1>1, <1>2, <1>5 DEF Turned, y, m, d
    <2>2. y + 1 \in Int /\ 1 \in 1..12
      BY <1>1
    <2>3. /\ monthrange(y + 1, 1) \in 28..31
          /\ toordinal(y + 1, 1, 1) = DaysBeforeYear(y + 1) + DaysBeforeMonth(y + 1, 1) + 1
      <3>1. monthrange(y + 1, 1) \in 28..31
        BY <2>2, GregorianDays
      <3>. QED BY <3>1 DEF toordinal
    <2>4. /\ DaysBeforeYear(y + 1) = DaysBeforeYear(y) + 365 + Leap(y) /\ Leap(y) \in 0..1
          /\ DaysBeforeMonth(y, 12) + monthrange(y, 12) = 365 + Leap(y)
      BY <1>1, GregorianYears, GregorianMonths
    <2>5. DaysBeforeMonth(y + 1, 1) = 0
      BY <2>2, GregorianMonths
    <2>6. toordinal(y + 1, 1, 1) = today + 1 /\ 1 \in 1..monthrange(y + 1, 1)
      BY <1>2, <1>5, <2>3, <2>4, <2>5
    <2>. QED BY <2>1, <2>2, <2>6 DEF y, m, d
  <1>6. l \in Int /\ m <= 12
    BY <1>1, <1>2
  <1>. QED BY <1>1, <1>3, <1>4, <1>5, <1>6 DEF y, m, d

LEMMA WallInit == Init => WallStands
  <1> SUFFICES ASSUME Init PROVE WallStands
    OBVIOUS
  <1>1. today = FirstDay /\ et = FirstEt /\ greg = FirstGreg
    BY DEF Init
  <1>2. /\ FirstDay \in Int /\ LastDay \in Int /\ FirstDay <= LastDay
    <2>1. MaxOrdinal \in Int
      BY SMT DEF MaxOrdinal
    <2>. QED BY <2>1, WindowAssumption
  <1>3. /\ FirstGreg = [year |-> FirstGreg.year, month |-> FirstGreg.month, day |-> FirstGreg.day]
        /\ FirstGreg.year \in Int /\ FirstGreg.month \in 1..12 /\ FirstGreg.day \in 1..31
        /\ FirstGreg.day <= monthrange(FirstGreg.year, FirstGreg.month)
        /\ toordinal(FirstGreg.year, FirstGreg.month, FirstGreg.day) = FirstDay
    BY WindowAssumption
  <1>4. monthrange(FirstGreg.year, FirstGreg.month) \in 28..31
    BY <1>3, GregorianDays
  <1>5. EtReadsToday
    BY <1>1, WindowAssumption DEF EtReadsToday
  <1>6. validate_ethiopian_date(et)
    BY <1>5 DEF EtReadsToday, EthiopianDate
  <1>7. TypeOK
    BY <1>1, <1>2, <1>3, <1>4, <1>6 DEF TypeOK
  <1>. QED BY <1>1, <1>2, <1>3, <1>5, <1>7 DEF WallStands

LEMMA WallStep == WallStands /\ [Next]_vars => WallStands'
  <1> SUFFICES ASSUME WallStands, [Next]_vars PROVE WallStands'
    OBVIOUS
  <1>1. CASE UNCHANGED vars
    BY <1>1 DEF WallStands, TypeOK, EtReadsToday, vars
  <1>2. CASE NextDay
    <2>1. EtReadsToday'
      BY <1>2, TurnedIsTheNextDay DEF WallStands, EtReadsToday, NextDay
    <2>2. validate_ethiopian_date(et')
      BY <2>1 DEF EtReadsToday, EthiopianDate
    <2>3. LastDay \in Int /\ FirstDay \in Int
      <3>1. MaxOrdinal \in Int
        BY SMT DEF MaxOrdinal
      <3>. QED BY <3>1, WindowAssumption
    <2>4. today' = today + 1 /\ today' \in Int /\ today' \in FirstDay..LastDay
      BY <1>2, <2>3 DEF WallStands, TypeOK, NextDay
    <2>5. /\ greg' = [year |-> greg'.year, month |-> greg'.month, day |-> greg'.day]
          /\ greg'.year \in Int /\ greg'.month \in 1..12 /\ greg'.day \in Int
          /\ greg'.day \in 1..monthrange(greg'.year, greg'.month)
          /\ toordinal(greg'.year, greg'.month, greg'.day) = today'
      BY <1>2, <2>4, TurnedGregorian DEF NextDay
    <2>. QED BY <2>1, <2>2, <2>4, <2>5 DEF WallStands, TypeOK
  <1>. QED BY <1>1, <1>2 DEF Next

LEMMA Wall == Spec => []WallStands
  BY WallInit, WallStep, PTL DEF Spec

\* Both pages of the wall always show a date that exists, the Gregorian one the
\* date of that ordinal (datetime.date.toordinal), whatever the window.
THEOREM WallTyped == Spec => []TypeOK
  <1>1. WallStands => TypeOK
    BY DEF WallStands
  <1>. QED BY <1>1, Wall, PTL

\* On every day of every window, the Period of a date holds it and its
\* neighbours do not, no day is left between two months, and every due day falls
\* inside its Period (period.py:81-87, 126-172).
THEOREM PeriodsTile == Spec => []PeriodsTileTheDays
  <1>1. ASSUME WallStands, NEW kind \in CalendarKind
        PROVE  LET p == PeriodNow(kind)
               IN /\ contains(p, today)
                  /\ ~contains(shift(p, 1), today) /\ ~contains(shift(p, -1), today)
                  /\ gregorian_span(shift(p, 1)).first = gregorian_span(p).last + 1
                  /\ \A d \in {1, 5, 6, 28, 29, 30} : contains(p, day(p, d))
    <2> DEFINE p == PeriodNow(kind)
    <2>1. today \in Int /\ today >= IF kind = Ethiopian THEN FirstMeskerem ELSE 1
      <3>1. today >= FirstMeskerem
        BY <1>1, GregorianRoundTrip DEF WallStands, EtReadsToday
      <3>2. today \in Int
        BY <1>1 DEF WallStands
      <3>. QED BY <3>1, <3>2 DEF FirstMeskerem
    <2>2. p \in Period /\ p.calendar = kind /\ contains(p, today)
      <3>1. /\ from_date(today, kind) \in Period
            /\ \A q \in Period :
                  q.calendar = kind => (contains(q, today) <=> q = from_date(today, kind))
        BY <2>1, InOnePeriod
      <3>2. from_date(today, kind).calendar = kind
        BY DEF from_date
      <3>. QED BY <3>1, <3>2 DEF PeriodNow
    <2> HIDE DEF p
    <2>3. ASSUME NEW q \in {shift(p, -1), p, shift(p, 1)}
          PROVE  /\ q.calendar \in CalendarKind /\ q.year \in Int
                 /\ q.month \in 1..months_per_year(q.calendar)
      <3> DEFINE m == months_per_year(kind)
      <3>1. m \in {12, 13}
        BY DEF months_per_year
      <3>2. p.year \in Int /\ p.month \in 1..m
        BY <2>2 DEF Period
      <3>3. index(p) \in Int
        BY <2>2, <3>1, <3>2 DEF index
      <3>4. ASSUME NEW i \in Int
            PROVE  /\ from_index(kind, i).calendar = kind /\ from_index(kind, i).year \in Int
                   /\ from_index(kind, i).month \in 1..m
        <4>1. CASE m = 12
          BY <4>1 DEF from_index
        <4>2. CASE m = 13
          BY <4>2 DEF from_index
        <4>. QED BY <3>1, <4>1, <4>2
      <3>5. CASE q = p
        BY <2>2, <3>2, <3>5
      <3>6. CASE q \in {shift(p, -1), shift(p, 1)}
        BY <2>2, <3>3, <3>4, <3>6 DEF shift
      <3>. QED BY <3>5, <3>6
    <2>4. gregorian_span(shift(p, 1)).first = gregorian_span(p).last + 1
      BY <2>3, MonthsTile
    <2>5. gregorian_span(p).first = gregorian_span(shift(p, -1)).last + 1
      <3>1. shift(shift(p, -1), 1) = p
        <4>1. shift(shift(p, -1), 1) = shift(p, -1 + 1) /\ shift(p, 0) = p
          BY <2>2, ShiftsAddUp
        <4>. QED BY <4>1
      <3>2. gregorian_span(shift(shift(p, -1), 1)).first = gregorian_span(shift(p, -1)).last + 1
        BY <2>3, MonthsTile
      <3>. QED BY <3>1, <3>2
    <2>6. \A q \in {shift(p, -1), p, shift(p, 1)} :
             /\ gregorian_span(q).first \in Int /\ gregorian_span(q).last \in Int
             /\ \A d \in Nat \ {0} : contains(q, day(q, d))
      BY <2>3, SpanOfAMonth
    <2>7. ~contains(shift(p, 1), today) /\ ~contains(shift(p, -1), today)
      BY <2>1, <2>2, <2>4, <2>5, <2>6 DEF contains
    <2>. QED BY <2>2, <2>4, <2>6, <2>7 DEF p
  <1>2. WallStands => PeriodsTileTheDays
    BY <1>1 DEF PeriodsTileTheDays
  <1>. QED BY <1>2, Wall, PTL
-----------------------------------------------------------------------------
(* Months added to a date.                                               *)

\* The months of a calendar by their number, those before the first year included.
LEMMA Numbered ==
    ASSUME NEW kind \in CalendarKind, NEW i \in Int
    PROVE  LET p == from_index(kind, i)
           IN /\ p.calendar = kind /\ p.year \in Int
              /\ p.month \in 1..months_per_year(kind)
              /\ p = [calendar |-> kind, year |-> p.year, month |-> p.month]
              /\ index(p) = i
              /\ \A k \in Int : shift(p, k) = from_index(kind, i + k)
              /\ i >= months_per_year(kind) => p \in Period
  <1> DEFINE m == months_per_year(kind)
             p == from_index(kind, i)
  <1>1. m \in {12, 13}
    BY DEF months_per_year
  <1>2. p = [calendar |-> kind, year |-> i \div m, month |-> (i % m) + 1]
    BY DEF from_index
  <1>3. /\ i \div m \in Int /\ (i % m) + 1 \in 1..m
        /\ (i \div m) * m + ((i % m) + 1 - 1) = i
        /\ i >= m => i \div m >= 1
    <2>1. CASE m = 12
      BY <2>1
    <2>2. CASE m = 13
      BY <2>2
    <2>. QED BY <1>1, <2>1, <2>2
  <1> HIDE DEF m
  <1>4. /\ p.calendar = kind /\ p.year \in Int /\ p.month \in 1..m
        /\ p = [calendar |-> kind, year |-> p.year, month |-> p.month]
    BY <1>2, <1>3
  <1>5. index(p) = i
    <2>1. p.year = i \div m /\ p.month = (i % m) + 1
      BY <1>2
    <2> HIDE DEF p
    <2>2. index(p) = p.year * m + (p.month - 1)
      BY <1>4 DEF index, m
    <2>3. CASE m = 12
      BY <1>3, <2>1, <2>2, <2>3
    <2>4. CASE m = 13
      BY <1>3, <2>1, <2>2, <2>4
    <2>. QED BY <1>1, <2>3, <2>4
  <1> HIDE DEF p
  <1>6. \A k \in Int : shift(p, k) = from_index(kind, i + k)
    BY <1>4, <1>5 DEF shift
  <1>7. i >= m => p \in Period
    <2> SUFFICES ASSUME i >= m PROVE p \in Period
      OBVIOUS
    <2>1. p.year >= 1
      BY <1>2, <1>3 DEF p
    <2>2. p \in [calendar : CalendarKind, year : Int, month : Int]
      BY <1>1, <1>4
    <2>. QED BY <1>4, <2>1, <2>2 DEF Period, m
  <1>. QED BY <1>4, <1>5, <1>6, <1>7 DEF p, m

\* A Period is the month of its number.
LEMMA NumberOf ==
    ASSUME NEW p \in Period
    PROVE  /\ p = from_index(p.calendar, index(p))
           /\ p.calendar \in CalendarKind
           /\ index(p) \in Int /\ index(p) >= months_per_year(p.calendar)
  <1> DEFINE m == months_per_year(p.calendar)
  <1>1. /\ m \in {12, 13} /\ p.year \in Int /\ p.year >= 1 /\ p.month \in 1..m
        /\ p.calendar \in CalendarKind
        /\ p = [calendar |-> p.calendar, year |-> p.year, month |-> p.month]
    BY DEF Period, months_per_year
  <1>2. index(p) = p.year * m + (p.month - 1)
    BY DEF index
  <1>3. /\ index(p) \in Int /\ index(p) >= m
        /\ index(p) \div m = p.year /\ (index(p) % m) + 1 = p.month
    <2> HIDE DEF m
    <2>1. CASE m = 12
      BY <1>1, <1>2, <2>1
    <2>2. CASE m = 13
      BY <1>1, <1>2, <2>2
    <2>. QED BY <1>1, <2>1, <2>2
  <1>4. shift(p, 0) = p
    BY ShiftsAddUp
  <1>5. from_index(p.calendar, index(p)) = p
    BY <1>1, <1>3 DEF from_index
  <1>. QED BY <1>1, <1>3, <1>5

\* The spans of the months, one after the other.
LEMMA Spans ==
    ASSUME NEW kind \in CalendarKind, NEW i \in Int
    PROVE  LET s == gregorian_span(from_index(kind, i))
           IN /\ s.first \in Int /\ s.last \in Int
              /\ s.last = s.first + length_in_days(from_index(kind, i)) - 1
              /\ length_in_days(from_index(kind, i)) \in 5..31
              /\ gregorian_span(from_index(kind, i + 1)).first = s.last + 1
  <1> DEFINE p == from_index(kind, i)
  <1>1. /\ p.calendar = kind /\ p.year \in Int /\ p.month \in 1..months_per_year(kind)
        /\ shift(p, 1) = from_index(kind, i + 1)
    BY Numbered
  <1> HIDE DEF p
  <1>2. /\ length_in_days(p) \in 5..31
        /\ gregorian_span(p).last = gregorian_span(p).first + length_in_days(p) - 1
        /\ gregorian_span(p).first \in Int
    BY <1>1, SpanOfAMonth
  <1>3. gregorian_span(shift(p, 1)).first = gregorian_span(p).last + 1
    BY <1>1, MonthsTile
  <1>. QED BY <1>1, <1>2, <1>3 DEF p

\* A day later is no earlier when months are added to both (ethiopian.py:207-212).
LEMMA MonthsLaterInOrder ==
    ASSUME NEW e \in EthiopianDate, NEW k \in Int, e.year * 13 + (e.month - 1) + k >= 13
    PROVE  LET t == Turned(e, 13, ethiopian_month_length(e.year, e.month))
           IN ethiopian_to_gregorian(add_months(e, k))
                <= ethiopian_to_gregorian(add_months(t, k))
  <1> DEFINE l == ethiopian_month_length(e.year, e.month)
             t == Turned(e, 13, l)
             n == e.year * 13 + (e.month - 1) + k
             to == from_index(Ethiopian, n)
             last == ethiopian_month_length(to.year, to.month)
             First == gregorian_span(to).first
             cut(d) == IF d <= last THEN d ELSE last
  <1>1. /\ e.year \in Int /\ e.month \in 1..13 /\ e.day \in Int
        /\ e.day >= 1 /\ e.day <= l /\ l \in 5..30
    BY DEF EthiopianDate, validate_ethiopian_date, ethiopian_month_length
  <1>2. n \in Int
    BY <1>1
  <1>3. Ethiopian \in CalendarKind /\ months_per_year(Ethiopian) = 13
    BY DEF CalendarKind, months_per_year
  <1>4. /\ to.calendar = Ethiopian /\ to.year \in Int /\ to.month \in 1..13
        /\ to.year = n \div 13 /\ to.month = (n % 13) + 1
    <2>1. to = [calendar |-> Ethiopian, year |-> n \div 13, month |-> (n % 13) + 1]
      BY <1>3 DEF from_index
    <2>2. to.year = n \div 13 /\ to.month = (n % 13) + 1 /\ to.calendar = Ethiopian
      BY <2>1
    <2> HIDE DEF n
    <2>. QED BY <1>2, <2>2
  <1>5. length_in_days(to) = last /\ last \in 5..30
    BY <1>4 DEF length_in_days, ethiopian_month_length
  <1>6. First = EthiopianFirst(to.year, to.month) /\ First \in Int
    <2> HIDE DEF to
    <2>. QED BY <1>3, <1>4, SpanOfAMonth
  <1> HIDE DEF to, last, First
  <1>7. \A d \in Int : ethiopian_to_gregorian([year |-> to.year, month |-> to.month, day |-> d])
                         = First + d - 1
    BY <1>4, <1>6, EthiopianDays
  <1>8. add_months(e, k) = [year |-> to.year, month |-> to.month, day |-> cut(e.day)]
    BY <1>4 DEF add_months, last
  <1>9. cut(e.day) \in Int /\ cut(e.day) <= last
    BY <1>1, <1>5
  <1>10. CASE e.day < l
    <2>1. t = [year |-> e.year, month |-> e.month, day |-> e.day + 1]
      BY <1>10 DEF Turned
    <2>2. add_months(t, k) = [year |-> to.year, month |-> to.month, day |-> cut(e.day + 1)]
      BY <1>4, <2>1 DEF add_months, last
    <2>3. cut(e.day + 1) \in Int /\ cut(e.day) <= cut(e.day + 1)
      BY <1>1, <1>5
    <2> HIDE DEF cut
    <2>. QED BY <1>6, <1>7, <1>8, <1>9, <2>2, <2>3
  <1>11. CASE e.day = l
    <2> DEFINE on == from_index(Ethiopian, n + 1)
    <2>1. t = [year |-> IF e.month < 13 THEN e.year ELSE e.year + 1,
               month |-> IF e.month < 13 THEN e.month + 1 ELSE 1, day |-> 1]
      BY <1>1, <1>11 DEF Turned
    <2>2. t.year * 13 + (t.month - 1) + k = n + 1 /\ t.day = 1
      BY <1>1, <2>1
    <2>3. /\ on.calendar = Ethiopian /\ on.year \in Int /\ on.month \in 1..13
          /\ on.year = (n + 1) \div 13 /\ on.month = ((n + 1) % 13) + 1
      <3>1. on = [calendar |-> Ethiopian, year |-> (n + 1) \div 13, month |-> ((n + 1) % 13) + 1]
        BY <1>3 DEF from_index
      <3>2. /\ on.calendar = Ethiopian
            /\ on.year = (n + 1) \div 13 /\ on.month = ((n + 1) % 13) + 1
        BY <3>1
      <3> HIDE DEF n
      <3>. QED BY <1>2, <3>2
    <2>4. 1 <= ethiopian_month_length(on.year, on.month)
      BY <2>3 DEF ethiopian_month_length
    <2>5. add_months(t, k) = [year |-> on.year, month |-> on.month, day |-> 1]
      BY <2>2, <2>3, <2>4 DEF add_months
    <2>6. gregorian_span(on).first = EthiopianFirst(on.year, on.month)
      <3> HIDE DEF on
      <3>. QED BY <1>3, <2>3, SpanOfAMonth
    <2>7. gregorian_span(on).first = First + last
      <3>1. /\ gregorian_span(to).last = First + last - 1
            /\ gregorian_span(on).first = gregorian_span(to).last + 1
        BY <1>2, <1>3, <1>5, Spans DEF to, First
      <3>. QED BY <1>5, <1>6, <3>1
    <2>8. ethiopian_to_gregorian(add_months(t, k)) = First + last
      <3>1. ethiopian_to_gregorian([year |-> on.year, month |-> on.month, day |-> 1])
              = EthiopianFirst(on.year, on.month) + 1 - 1 /\ EthiopianFirst(on.year, on.month) \in Int
        BY <2>3, EthiopianDays
      <3>. QED BY <2>5, <2>6, <2>7, <3>1
    <2> HIDE DEF cut, t, on
    <2>9. ethiopian_to_gregorian(add_months(e, k)) = First + cut(e.day) - 1
      BY <1>7, <1>8, <1>9
    <2>. QED BY <1>5, <1>6, <1>9, <2>8, <2>9 DEF t
  <1>. QED BY <1>1, <1>10, <1>11

\* The next month begins 5 to 30 days later, and what was not clamped comes back.
LEMMA MonthsLaterReturn ==
    ASSUME NEW e \in EthiopianDate, NEW k \in Int, e.year * 13 + (e.month - 1) + k >= 13
    PROVE  /\ add_months(e, k).day = e.day => add_months(add_months(e, k), -k) = e
           /\ \E days \in 5..30 : add_months(e, 1) = add_days(e, days)
  <1> DEFINE l == ethiopian_month_length(e.year, e.month)
             i == e.year * 13 + (e.month - 1)
             n == i + k
             later == add_months(e, k)
  <1>1. /\ e.year \in Int /\ e.month \in 1..13 /\ e.day \in Int /\ e.year >= 1
        /\ e.day >= 1 /\ e.day <= l /\ l = IF e.month = 13 THEN l ELSE 30
        /\ l \in 5..30 /\ (e.month = 13 => l \in 5..6)
        /\ e = [year |-> e.year, month |-> e.month, day |-> e.day]
    BY DEF EthiopianDate, validate_ethiopian_date, ethiopian_month_length
  <1>2. ASSUME later.day = e.day PROVE add_months(later, -k) = e
    <2>1. later.year = n \div 13 /\ later.month = (n % 13) + 1
      BY DEF add_months
    <2>2. later.year * 13 + (later.month - 1) + (-k) = i
      <3>1. n \in Int /\ i \in Int /\ n + (-k) = i
        BY <1>1
      <3> HIDE DEF later, n, i
      <3>2. later.year * 13 + (later.month - 1) = n
        BY <2>1, <3>1
      <3>3. later.year * 13 + (later.month - 1) + (-k) = n + (-k)
        BY <3>2
      <3>. QED BY <3>1, <3>3
    <2>3. i \div 13 = e.year /\ (i % 13) + 1 = e.month
      BY <1>1
    <2> HIDE DEF later, i
    <2>. QED BY <1>1, <1>2, <2>2, <2>3 DEF add_months
  <1>3. \E days \in 5..30 : add_months(e, 1) = add_days(e, days)
    <2> DEFINE next == add_months(e, 1)
               y == IF e.month < 13 THEN e.year ELSE e.year + 1
               m == IF e.month < 13 THEN e.month + 1 ELSE 1
               d == IF e.day <= ethiopian_month_length(y, m) THEN e.day
                                                             ELSE ethiopian_month_length(y, m)
               days == EthiopianFirst(y, m) + d - EthiopianFirst(e.year, e.month) - e.day
    <2>1. /\ (e.year * 13 + (e.month - 1) + 1) \div 13 = y
          /\ ((e.year * 13 + (e.month - 1) + 1) % 13) + 1 = m
      BY <1>1
    <2>2. next = [year |-> y, month |-> m, day |-> d]
      BY <2>1 DEF add_months
    <2>3. next \in EthiopianDate
      BY <1>1, MonthsLaterExist
    <2>4. y \in Int /\ m \in 1..13 /\ d \in Int
      BY <1>1 DEF ethiopian_month_length
    <2>5. /\ ethiopian_to_gregorian(next) = EthiopianFirst(y, m) + d - 1
          /\ ethiopian_to_gregorian(e) = EthiopianFirst(e.year, e.month) + e.day - 1
          /\ EthiopianFirst(y, m) \in Int /\ EthiopianFirst(e.year, e.month) \in Int
      <3> HIDE DEF y, m, d
      <3>1. ethiopian_to_gregorian(e)
              = ethiopian_to_gregorian([year |-> e.year, month |-> e.month, day |-> e.day])
        BY <1>1
      <3>. QED BY <1>1, <2>2, <2>4, <3>1, EthiopianDays
    <2>6. days \in 5..30
      <3>1. CASE e.month < 12
        BY <1>1, <3>1 DEF EthiopianFirst, ethiopian_month_length
      <3>2. CASE e.month = 12
        BY <1>1, <3>2 DEF EthiopianFirst, ethiopian_month_length, is_ethiopian_leap_year
      <3>3. CASE e.month = 13
        <4>1. (e.year + 1) \div 4 = e.year \div 4 + (IF e.year % 4 = 3 THEN 1 ELSE 0)
          BY <1>1
        <4>. QED BY <1>1, <3>3, <4>1
             DEF EthiopianFirst, ethiopian_month_length, is_ethiopian_leap_year
      <3>. QED BY <1>1, <3>1, <3>2, <3>3
    <2>7. ethiopian_to_gregorian(e) + days = ethiopian_to_gregorian(next)
      <3> HIDE DEF y, m, d
      <3>. QED BY <1>1, <2>4, <2>5
    <2>8. add_days(e, days) = next
      <3> HIDE DEF days, next
      <3>. QED BY <2>3, <2>7, GregorianRoundTrip DEF add_days
    <2> HIDE DEF days
    <2>. QED BY <2>6, <2>8
  <1>. QED BY <1>2, <1>3

\* In a window that opens in the third year or later, months added to the date of
\* any day keep their order, their Period and, unless clamped, their way back
\* (ethiopian.py:207-212).  Fourteen months before an earlier day there may be no
\* date to land on.
THEOREM MonthsLater == ASSUME FirstEt.year >= 3 PROVE Spec => []MonthsLaterKeepTheirOrder
  <1>1. Init => et.year >= 3
    BY DEF Init
  <1>2. WallStands /\ et.year >= 3 /\ [Next]_vars => (et.year >= 3)'
    <2> SUFFICES ASSUME WallStands, et.year >= 3, [Next]_vars PROVE et'.year >= 3
      OBVIOUS
    <2>1. et.year \in Int
      BY DEF WallStands, EtReadsToday, EthiopianDate
    <2>2. CASE NextDay
      BY <2>1, <2>2 DEF NextDay, Turned
    <2>3. CASE UNCHANGED vars
      BY <2>3 DEF vars
    <2>. QED BY <2>2, <2>3 DEF Next
  <1>3. WallStands /\ et.year >= 3 => MonthsLaterKeepTheirOrder
    <2> SUFFICES ASSUME WallStands, et.year >= 3 PROVE MonthsLaterKeepTheirOrder
      OBVIOUS
    <2> DEFINE tomorrow == gregorian_to_ethiopian(today + 1)
               t == Turned(et, 13, ethiopian_month_length(et.year, et.month))
    <2>1. et \in EthiopianDate /\ ethiopian_to_gregorian(et) = today /\ today \in Int
      BY DEF WallStands, EtReadsToday
    <2>2. tomorrow = t
      <3>1. t \in EthiopianDate /\ ethiopian_to_gregorian(t) = today + 1
        BY <2>1, TurnedIsTheNextDay
      <3> HIDE DEF t
      <3>2. gregorian_to_ethiopian(ethiopian_to_gregorian(t)) = t
        BY <3>1, GregorianRoundTrip
      <3>. QED BY <3>1, <3>2
    <2>3. ASSUME NEW k \in {-14, -13, -1, 1, 12, 13, 52}
          PROVE  /\ validate_ethiopian_date(add_months(et, k))
                 /\ period_of_ethiopian_date(add_months(et, k))
                      = shift(period_of_ethiopian_date(et), k)
                 /\ ethiopian_to_gregorian(add_months(et, k))
                      <= ethiopian_to_gregorian(add_months(tomorrow, k))
                 /\ add_months(et, k).day = et.day => add_months(add_months(et, k), -k) = et
      <3>1. k \in Int /\ et.year * 13 + (et.month - 1) + k >= 13
        BY <2>1 DEF EthiopianDate, validate_ethiopian_date
      <3>2. /\ add_months(et, k) \in EthiopianDate
            /\ period_of_ethiopian_date(add_months(et, k))
                 = shift(period_of_ethiopian_date(et), k)
        BY <2>1, <3>1, MonthsLaterExist
      <3>3. validate_ethiopian_date(add_months(et, k))
        BY <3>2 DEF EthiopianDate
      <3>4. ethiopian_to_gregorian(add_months(et, k))
              <= ethiopian_to_gregorian(add_months(tomorrow, k))
        BY <2>1, <2>2, <3>1, MonthsLaterInOrder
      <3>5. add_months(et, k).day = et.day => add_months(add_months(et, k), -k) = et
        BY <2>1, <3>1, MonthsLaterReturn
      <3>. QED BY <3>2, <3>3, <3>4, <3>5
    <2>4. \E days \in 5..30 : add_months(et, 1) = add_days(et, days)
      <3>1. et.year * 13 + (et.month - 1) + 1 >= 13
        BY <2>1 DEF EthiopianDate, validate_ethiopian_date
      <3>. QED BY <2>1, <3>1, MonthsLaterReturn
    <2>. QED BY <2>3, <2>4 DEF MonthsLaterKeepTheirOrder
  <1>. QED BY <1>1, <1>2, <1>3, Wall, PTL DEF Spec
-----------------------------------------------------------------------------
(* The name of a Period in the other calendar.                             *)

\* Two Ethiopian months in a row are at least 35 days, one Pagumen among them or not.
LEMMA TwoMonths ==
    ASSUME NEW kind \in CalendarKind, NEW i \in Int
    PROVE  /\ length_in_days(from_index(kind, i)) + length_in_days(from_index(kind, i + 1)) >= 35
           /\ kind # Ethiopian => length_in_days(from_index(kind, i)) >= 28
  <1> DEFINE p == from_index(kind, i)
             q == from_index(kind, i + 1)
  <1>1. /\ p.calendar = kind /\ p.year \in Int /\ p.month \in 1..months_per_year(kind)
        /\ q.calendar = kind /\ q.year \in Int /\ q.month \in 1..months_per_year(kind)
    <2>1. i + 1 \in Int
      OBVIOUS
    <2>. QED BY <2>1, Numbered
  <1>2. CASE kind = Ethiopian
    <2>1. p.month = (i % 13) + 1 /\ q.month = ((i + 1) % 13) + 1
      BY <1>2 DEF from_index, months_per_year
    <2>2. p.month # 13 \/ q.month # 13
      BY <2>1
    <2> HIDE DEF p, q
    <2>. QED BY <1>1, <1>2, <2>2 DEF length_in_days, ethiopian_month_length, p, q
  <1>3. CASE kind # Ethiopian
    <2> HIDE DEF p, q
    <2>1. p.month \in 1..12 /\ q.month \in 1..12
      BY <1>1, <1>3 DEF months_per_year
    <2>2. monthrange(p.year, p.month) \in 28..31 /\ monthrange(q.year, q.month) \in 28..31
      BY <1>1, <2>1, GregorianDays
    <2>3. /\ length_in_days(p) = monthrange(p.year, p.month)
          /\ length_in_days(q) = monthrange(q.year, q.month)
      BY <1>1, <1>3 DEF length_in_days
    <2>. QED BY <2>2, <2>3 DEF p, q
  <1>. QED BY <1>2, <1>3

\* A Period meets one, two or three of the other calendar in a row, from the one
\* its first day is in to the one its last day is in, and no other.
LEMMA InARow ==
    ASSUME NEW p \in Period, NEW kind \in CalendarKind, kind # p.calendar,
           gregorian_span(p).first >= IF kind = Ethiopian THEN FirstMeskerem ELSE 1
    PROVE  LET start == from_date(gregorian_span(p).first, kind)
               end   == from_date(gregorian_span(p).last, kind)
           IN /\ start \in Period /\ end \in Period
              /\ start.calendar = kind /\ end.calendar = kind
              /\ \E i \in 0..2 :
                    /\ end = shift(start, i)
                    /\ \A k \in -2..3 : overlaps(shift(start, k), p) <=> k \in 0..i
  <1> DEFINE a == gregorian_span(p).first
             z == gregorian_span(p).last
             start == from_date(a, kind)
             end == from_date(z, kind)
             n == index(start)
             F(k) == gregorian_span(from_index(kind, n + k)).first
             T(k) == gregorian_span(from_index(kind, n + k)).last
  <1>1. a \in Int /\ z \in Int /\ a <= z /\ z <= a + 30
    <2>1. p.calendar \in CalendarKind /\ p.year \in Int /\ p.month \in 1..months_per_year(p.calendar)
      BY DEF Period
    <2>2. length_in_days(p) \in 5..31 /\ z = a + length_in_days(p) - 1 /\ a \in Int
      BY <2>1, SpanOfAMonth
    <2> HIDE DEF a, z
    <2>. QED BY <2>2
  <1>2. z >= IF kind = Ethiopian THEN FirstMeskerem ELSE 1
    <2> HIDE DEF a, z
    <2>. QED BY <1>1 DEF FirstMeskerem, a
  <1>3. /\ start \in Period /\ start.calendar = kind
        /\ \A q \in Period : q.calendar = kind => (contains(q, a) <=> q = start)
    <2> HIDE DEF a
    <2>. QED BY <1>1, InOnePeriod DEF from_date, a
  <1>4. /\ end \in Period /\ end.calendar = kind
        /\ \A q \in Period : q.calendar = kind => (contains(q, z) <=> q = end)
    <2> HIDE DEF z
    <2>. QED BY <1>1, <1>2, InOnePeriod DEF from_date
  <1> HIDE DEF a, z, start, end
  <1>5. n \in Int /\ n >= months_per_year(kind) /\ start = from_index(kind, n)
    BY <1>3, NumberOf
  <1>6. \A k \in Int : shift(start, k) = from_index(kind, n + k)
    BY <1>5, Numbered
  <1> HIDE DEF n
  <1>7. \A k \in Int : /\ F(k) \in Int /\ T(k) \in Int
                       /\ T(k) >= F(k) + 4
                       /\ F(k + 1) = T(k) + 1
                       /\ T(k + 1) >= F(k) + 34
    <2> TAKE k \in Int
    <2>1. n + k \in Int /\ n + (k + 1) = (n + k) + 1 /\ (n + k) + 1 \in Int
      BY <1>5
    <2>2. /\ F(k) \in Int /\ T(k) \in Int
          /\ T(k) = F(k) + length_in_days(from_index(kind, n + k)) - 1
          /\ length_in_days(from_index(kind, n + k)) \in 5..31
          /\ F(k + 1) = T(k) + 1
      BY <2>1, Spans
    <2>3. /\ F(k + 1) \in Int /\ T(k + 1) \in Int
          /\ T(k + 1) = F(k + 1) + length_in_days(from_index(kind, n + (k + 1))) - 1
          /\ length_in_days(from_index(kind, n + (k + 1))) \in 5..31
      BY <2>1, Spans
    <2>4. length_in_days(from_index(kind, n + k))
            + length_in_days(from_index(kind, n + (k + 1))) >= 35
      BY <2>1, TwoMonths
    <2> HIDE DEF F, T
    <2>. QED BY <2>2, <2>3, <2>4
  <1>8. F(0) <= a /\ a <= T(0)
    <2>1. contains(start, a) /\ n + 0 = n
      BY <1>3, <1>5
    <2>. QED BY <1>5, <2>1 DEF contains
  <1>9. \A k \in Int : overlaps(shift(start, k), p) <=> F(k) <= z /\ a <= T(k)
    BY <1>6 DEF overlaps, a, z
  <1> HIDE DEF F, T
  <1>10. /\ F(0) = T(-1) + 1 /\ F(-1) = T(-2) + 1
         /\ F(1) = T(0) + 1 /\ F(2) = T(1) + 1 /\ F(3) = T(2) + 1
         /\ T(-1) >= F(-1) + 4 /\ T(1) >= F(1) + 4 /\ T(2) >= F(2) + 4 /\ T(3) >= F(3) + 4
         /\ T(2) >= F(1) + 34
         /\ \A k \in -2..3 : F(k) \in Int /\ T(k) \in Int
    <2>1. /\ -1 + 1 = 0 /\ -2 + 1 = -1 /\ 0 + 1 = 1 /\ 1 + 1 = 2 /\ 2 + 1 = 3
          /\ -2 \in Int /\ -1 \in Int /\ 0 \in Int /\ 1 \in Int /\ 2 \in Int /\ 3 \in Int
      OBVIOUS
    <2>2. /\ F(-1 + 1) = T(-1) + 1 /\ F(-2 + 1) = T(-2) + 1
          /\ F(0 + 1) = T(0) + 1 /\ F(1 + 1) = T(1) + 1 /\ F(2 + 1) = T(2) + 1
          /\ T(1 + 1) >= F(1) + 34
      BY <1>7, <2>1
    <2>3. /\ T(-1) >= F(-1) + 4 /\ T(1) >= F(1) + 4 /\ T(2) >= F(2) + 4 /\ T(3) >= F(3) + 4
          /\ \A k \in -2..3 : F(k) \in Int /\ T(k) \in Int
      BY <1>7
    <2>. QED BY <2>1, <2>2, <2>3
  <1>11. PICK i \in 0..2 : F(i) <= z /\ z <= T(i)
    <2>1. z <= T(2) /\ F(0) <= z
      BY <1>1, <1>8, <1>10
    <2>2. /\ F(0) \in Int /\ T(0) \in Int /\ F(1) \in Int /\ T(1) \in Int
          /\ F(2) \in Int /\ T(2) \in Int
      BY <1>10
    <2>3. CASE z <= T(0)
      BY <2>1, <2>3
    <2>4. CASE z > T(0) /\ z <= T(1)
      <3>1. F(1) <= z
        BY <1>1, <1>10, <2>2, <2>4
      <3>. QED BY <2>4, <3>1
    <2>5. CASE z > T(1)
      <3>1. F(2) <= z
        BY <1>1, <1>10, <2>2, <2>5
      <3>. QED BY <2>1, <3>1
    <2>. QED BY <1>1, <2>2, <2>3, <2>4, <2>5
  <1>12. end = shift(start, i)
    <2>1. n + i \in Int /\ n + i >= months_per_year(kind) /\ i \in Int
      <3>1. months_per_year(kind) \in Int
        BY DEF months_per_year
      <3>. QED BY <1>5, <3>1
    <2>2. from_index(kind, n + i) \in Period /\ from_index(kind, n + i).calendar = kind
      BY <2>1, Numbered
    <2>3. contains(from_index(kind, n + i), z)
      BY <1>11 DEF contains, F, T
    <2>. QED BY <1>4, <1>6, <2>1, <2>2, <2>3
  <1>13. ASSUME NEW k \in -2..3 PROVE overlaps(shift(start, k), p) <=> k \in 0..i
    <2>1. overlaps(shift(start, k), p) <=> F(k) <= z /\ a <= T(k)
      BY <1>9
    <2>2. (F(k) <= z /\ a <= T(k)) <=> k \in 0..i
      <3>1. /\ F(-2) \in Int /\ T(-2) \in Int /\ F(-1) \in Int /\ T(-1) \in Int
            /\ F(0) \in Int /\ T(0) \in Int /\ F(1) \in Int /\ T(1) \in Int
            /\ F(2) \in Int /\ T(2) \in Int /\ F(3) \in Int /\ T(3) \in Int
        BY <1>10
      <3>2. CASE k < 0
        <4>1. T(k) < a
          BY <1>1, <1>8, <1>10, <3>1, <3>2
        <4>2. T(k) \in Int
          BY <1>10
        <4>. QED BY <1>1, <3>2, <4>1, <4>2
      <3>3. CASE k = 0
        BY <1>1, <1>8, <3>1, <3>3
      <3>4. CASE k > 0 /\ k <= i
        <4>1. a <= T(k) /\ F(k) <= F(i)
          BY <1>1, <1>8, <1>10, <3>1, <3>4
        <4>2. F(k) \in Int /\ F(i) \in Int
          BY <1>10
        <4>. QED BY <1>1, <1>11, <3>4, <4>1, <4>2
      <3>5. CASE k > i
        <4>1. T(i) < F(k)
          BY <1>10, <3>1, <3>5
        <4>2. T(i) \in Int /\ F(k) \in Int
          BY <1>10
        <4>. QED BY <1>1, <1>11, <3>5, <4>1, <4>2
      <3>. QED BY <3>2, <3>3, <3>4, <3>5
    <2>. QED BY <2>1, <2>2
  <1>. QED BY <1>3, <1>4, <1>12, <1>13 DEF start, end, a, z

\* Read back, a label names the months from the first to the last.
LEMMA ReadBack ==
    ASSUME NEW start \in Period, NEW i \in Nat, NEW lbl,
           NEW end, end = shift(start, i), end \in Period, end.calendar = start.calendar,
           lbl = IF start = end THEN <<label(start)>>
                 ELSE IF start.year = end.year
                 THEN <<[month |-> start.month, year |-> Unnamed], label(end)>>
                 ELSE <<label(start), label(end)>>
    PROVE  MonthsRead(lbl, start.calendar) = {shift(start, k) : k \in 0..i}
  <1> DEFINE last == lbl[Len(lbl)]
             AsRead(l) == [calendar |-> start.calendar, month |-> l.month,
                           year |-> IF l.year = Unnamed THEN last.year ELSE l.year]
  <1>1. /\ start = [calendar |-> start.calendar, year |-> start.year, month |-> start.month]
        /\ end = [calendar |-> start.calendar, year |-> end.year, month |-> end.month]
        /\ start.year \in Int /\ start.year >= 1 /\ end.year \in Int /\ end.year >= 1
    BY DEF Period
  <1>2. start.year # Unnamed /\ end.year # Unnamed
    BY <1>1 DEF Unnamed
  <1>3. last = label(end) /\ lbl[1] \in {label(start), [month |-> start.month, year |-> Unnamed]}
        /\ (lbl[1] = [month |-> start.month, year |-> Unnamed] => start.year = end.year)
    <2>1. CASE start = end
      <3>1. lbl = <<label(start)>>
        BY <2>1
      <3>2. Len(lbl) = 1 /\ lbl[1] = label(start)
        BY <3>1
      <3>. QED BY <2>1, <3>2
    <2>2. CASE start # end /\ start.year = end.year
      <3>1. lbl = <<[month |-> start.month, year |-> Unnamed], label(end)>>
        BY <2>2
      <3>2. Len(lbl) = 2 /\ lbl[2] = label(end) /\ lbl[1] = [month |-> start.month, year |-> Unnamed]
        BY <3>1
      <3>. QED BY <2>2, <3>2
    <2>3. CASE start # end /\ start.year # end.year
      <3>1. lbl = <<label(start), label(end)>>
        BY <2>3
      <3>2. Len(lbl) = 2 /\ lbl[2] = label(end) /\ lbl[1] = label(start)
        BY <3>1
      <3>3. label(start) # [month |-> start.month, year |-> Unnamed]
        <4>1. label(start).year = start.year
          BY DEF label
        <4>. QED BY <1>2, <4>1
      <3>. QED BY <3>2, <3>3
    <2>. QED BY <2>1, <2>2, <2>3
  <1>4. AsRead(last) = end
    <2>1. last.year = end.year /\ last.month = end.month
      BY <1>3 DEF label
    <2> HIDE DEF last
    <2>. QED BY <1>1, <1>2, <2>1
  <1>5. AsRead(lbl[1]) = start
    <2>1. last.year = end.year
      BY <1>3 DEF label
    <2> HIDE DEF last
    <2>2. CASE lbl[1] = label(start)
      <3>1. lbl[1].month = start.month /\ lbl[1].year = start.year
        BY <2>2 DEF label
      <3>. QED BY <1>1, <1>2, <3>1
    <2>3. CASE lbl[1] = [month |-> start.month, year |-> Unnamed]
      <3>1. lbl[1].month = start.month /\ lbl[1].year = Unnamed /\ start.year = end.year
        BY <1>3, <2>3
      <3>. QED BY <1>1, <2>1, <3>1
    <2>. QED BY <1>3, <2>2, <2>3
  <1>6. months_until(start, end) = i
    BY ShiftsAddUp
  <1> DEFINE walked == [k \in 1..(i + 1) |-> shift(start, k - 1)]
  <1>7. iterate_to(AsRead(lbl[1]), AsRead(last)) = walked
    <2> HIDE DEF AsRead, last
    <2>. QED BY <1>4, <1>5, <1>6 DEF iterate_to
  <1>8. {walked[k] : k \in DOMAIN walked} = {shift(start, k) : k \in 0..i}
    <2>1. \A k \in 0..i : k + 1 \in 1..(i + 1) /\ walked[k + 1] = shift(start, k)
      <3> TAKE k \in 0..i
      <3>1. k + 1 \in 1..(i + 1) /\ (k + 1) - 1 = k
        OBVIOUS
      <3>. QED BY <3>1
    <2>2. \A k \in 1..(i + 1) : k - 1 \in 0..i /\ walked[k] = shift(start, k - 1)
      OBVIOUS
    <2>. QED BY <2>1, <2>2
  <1>9. MonthsRead(lbl, start.calendar) = {walked[k] : k \in DOMAIN walked}
    <2> HIDE DEF walked
    <2>. QED BY <1>7 DEF MonthsRead, Range
  <1>. QED BY <1>8, <1>9

\* In any window that opens a month after 1 Meskerem 1 or later, what a label is
\* read to name in the other calendar are the months the Period shares a day with,
\* one, two or three of them (period.py:225-240).
THEOREM LabelsName ==
    ASSUME FirstDay >= FirstMeskerem + 30 PROVE Spec => []LabelNamesEveryMonth
  <1>1. ASSUME WallStands, NEW kind \in CalendarKind
        PROVE  LET p == PeriodNow(kind)
               IN MonthsRead(counterpart_label(p, Other(kind)), Other(kind))
                    = {q \in Nearby(p) : overlaps(q, p)}
    <2> DEFINE p == PeriodNow(kind)
               o == Other(kind)
               start == from_date(gregorian_span(p).first, o)
               end == from_date(gregorian_span(p).last, o)
    <2>1. today \in Int /\ today >= FirstMeskerem + 30
      <3>1. FirstDay \in Int
        <4>1. MaxOrdinal \in Int
          BY SMT DEF MaxOrdinal
        <4>. QED BY <4>1, WindowAssumption
      <3>2. today \in Int /\ today >= FirstDay
        BY <1>1, <3>1 DEF WallStands, TypeOK
      <3>. QED BY <3>1, <3>2 DEF FirstMeskerem
    <2>2. p \in Period /\ p.calendar = kind /\ contains(p, today)
      <3>1. /\ from_date(today, kind) \in Period
            /\ \A q \in Period :
                  q.calendar = kind => (contains(q, today) <=> q = from_date(today, kind))
        BY <2>1, InOnePeriod DEF FirstMeskerem
      <3>2. from_date(today, kind).calendar = kind
        BY DEF from_date
      <3>. QED BY <3>1, <3>2 DEF PeriodNow
    <2>3. o \in CalendarKind /\ o # kind
      BY DEF Other, CalendarKind, Ethiopian, Gregorian
    <2> HIDE DEF p, o
    <2>4. gregorian_span(p).first >= IF o = Ethiopian THEN FirstMeskerem ELSE 1
      <3>1. p.year \in Int /\ p.month \in 1..months_per_year(p.calendar)
        BY <2>2 DEF Period
      <3>2. /\ length_in_days(p) \in 5..31 /\ gregorian_span(p).first \in Int
            /\ gregorian_span(p).last = gregorian_span(p).first + length_in_days(p) - 1
        BY <2>2, <3>1, SpanOfAMonth
      <3>3. today <= gregorian_span(p).last
        BY <2>2 DEF contains
      <3>. QED BY <2>1, <3>2, <3>3 DEF FirstMeskerem
    <2>5. /\ start \in Period /\ end \in Period /\ start.calendar = o /\ end.calendar = o
          /\ \E i \in 0..2 : /\ end = shift(start, i)
                             /\ \A k \in -2..3 : overlaps(shift(start, k), p) <=> k \in 0..i
      <3>1. o # p.calendar
        BY <2>2, <2>3
      <3>. QED BY <2>2, <2>3, <2>4, <3>1, InARow
    <2> HIDE DEF start, end
    <2>6. PICK i \in 0..2 : /\ end = shift(start, i)
                            /\ \A k \in -2..3 : overlaps(shift(start, k), p) <=> k \in 0..i
      BY <2>5
    <2>7. MonthsRead(counterpart_label(p, o), start.calendar) = {shift(start, k) : k \in 0..i}
      <3>1. counterpart_label(p, o)
              = IF start = end THEN <<label(start)>>
                ELSE IF start.year = end.year
                THEN <<[month |-> start.month, year |-> Unnamed], label(end)>>
                ELSE <<label(start), label(end)>>
        BY DEF counterpart_label, start, end
      <3>2. i \in Nat
        OBVIOUS
      <3>. QED BY <2>5, <2>6, <3>1, <3>2, ReadBack
    <2>8. {q \in Nearby(p) : overlaps(q, p)} = {shift(start, k) : k \in 0..i}
      <3>1. Nearby(p) = {shift(start, k) : k \in -2..3}
        BY <2>2 DEF Nearby, start, o
      <3>2. 0..i \subseteq -2..3
        OBVIOUS
      <3>. QED BY <2>6, <3>1, <3>2
    <2>. QED BY <2>5, <2>7, <2>8 DEF p, o
  <1>2. WallStands => LabelNamesEveryMonth
    BY <1>1 DEF LabelNamesEveryMonth
  <1>. QED BY <1>2, Wall, PTL
-----------------------------------------------------------------------------
(* The counterpart of a Period in the other calendar.                      *)

\* The first day of a Gregorian month, without its dates.
GregorianFirst(y, m) == DaysBeforeYear(y) + DaysBeforeMonth(y, m) + 1

\* By how many days the centuries without a leap day have moved the two calendars
\* apart before a Gregorian year.
Drift(y) == (y - 1) \div 100 - (y - 1) \div 400

LEMMA DriftOfTheCenturies ==
    ASSUME NEW y \in Int, 1001 <= y, y <= 2500
    PROVE  Drift(y) \in 8..18
  BY DEF Drift

\* Ethiopian year y begins in Gregorian year y + 7, and year y + 8 begins in it:
\* how far its first day is from each of theirs, the leap years apart (x).
LEMMA NewYears ==
    ASSUME NEW y \in Int
    PROVE  /\ \E x \in 0..1 : /\ (y % 4 = 0 => x = 0) /\ (y % 4 # 0 => x = 1)
                              /\ EthiopianFirst(y, 1)
                                   = DaysBeforeYear(y + 8) + 1 + Drift(y + 8) - 126 - x
           /\ \E x \in 0..1 : /\ (y % 4 \in {2, 3} => x = 1) /\ (y % 4 \notin {2, 3} => x = 0)
                              /\ EthiopianFirst(y, 1)
                                   = DaysBeforeYear(y + 7) + 1 + Drift(y + 7) + 239 - x
  <1>1. /\ (y + 7) \div 4 = y \div 4 + 1 + (IF y % 4 = 0 THEN 0 ELSE 1)
        /\ (y + 6) \div 4 = y \div 4 + 1 + (IF y % 4 \in {2, 3} THEN 1 ELSE 0)
    OBVIOUS
  <1>2. /\ DaysBeforeYear(y + 8) = 365 * (y + 7) + (y + 7) \div 4 - Drift(y + 8)
        /\ DaysBeforeYear(y + 7) = 365 * (y + 6) + (y + 6) \div 4 - Drift(y + 7)
    <2>1. (y + 8) - 1 = y + 7 /\ (y + 7) - 1 = y + 6
      OBVIOUS
    <2>. QED BY <2>1 DEF DaysBeforeYear, Drift
  <1>3. EthiopianFirst(y, 1) = 2431 + 365 * y + y \div 4
    BY DEF EthiopianFirst
  <1>4. Drift(y + 8) \in Int /\ Drift(y + 7) \in Int
    BY DEF Drift
  <1>. QED BY <1>1, <1>2, <1>3, <1>4

\* In these centuries an Ethiopian month begins in the first half of a
\* Gregorian one, or on one of the last two days of a long July or August.
LEMMA MonthStarts ==
    ASSUME NEW Y \in Int, NEW M \in Int, NEW y \in Int, NEW m \in Int,
           1001 <= Y, Y <= 2500, M \in 1..12, m \in 1..13,
           NEW after \in Nat, after < monthrange(Y, M),
           EthiopianFirst(y, m) = GregorianFirst(Y, M) + after
    PROVE  /\ after <= 14 \/ (after >= 29 /\ M \in {7, 8})
           /\ M = 2 => after <= 11
           /\ m = 13 => after < 10 \/ after > 28
  <1> DEFINE l == Leap(Y)
             d == Drift(Y)
             b == DaysBeforeMonth(Y, M)
  <1>1. /\ d \in 8..18 /\ l \in 0..1 /\ (l = 1 => Y % 4 = 0)
        /\ b \in 0..335 /\ monthrange(Y, M) \in 28..31
    <2>1. Y \in Int /\ M \in 1..12
      OBVIOUS
    <2>2. b \in 0..335 /\ monthrange(Y, M) \in 28..31
      BY ONLY <2>1, GregorianMonths
    <2>3. d \in 8..18
      BY DriftOfTheCenturies
    <2>4. l \in 0..1 /\ (l = 1 => Y % 4 = 0)
      BY DEF Leap, IsGregorianLeap
    <2>. QED BY <2>2, <2>3, <2>4
  <1>2. EthiopianFirst(y, m) = EthiopianFirst(y, 1) + 30 * (m - 1) /\ EthiopianFirst(y, 1) \in Int
    BY DEF EthiopianFirst
  <1>3. DaysBeforeYear(Y) = 365 * (Y - 1) + (Y - 1) \div 4 - d /\ DaysBeforeYear(Y) \in Int
    BY DEF DaysBeforeYear, Drift
  <1>4. after = EthiopianFirst(y, 1) + 30 * (m - 1) - DaysBeforeYear(Y) - b - 1
    BY <1>1, <1>2, <1>3 DEF GregorianFirst
  <1>5. after \in Int /\ 0 <= after /\ after < monthrange(Y, M)
    BY <1>1, <1>2, <1>3, <1>4 DEF GregorianFirst
  <1>6. Y = y + 7 \/ Y = y + 8
    <2>1. EthiopianFirst(y, 1) = 2431 + 365 * y + y \div 4
      BY DEF EthiopianFirst
    <2> HIDE DEF b, d
    <2>2. 365 * (Y - y) + (Y - 1) \div 4 - y \div 4 \in 2400..3200
      BY <1>1, <1>3, <1>4, <1>5, <2>1
    <2>. QED BY <2>2
  <1>7. /\ M = 1 => b = 0 /\ monthrange(Y, M) = 31
        /\ M = 2 => b = 31 /\ monthrange(Y, M) = 28 + l
        /\ M = 3 => b = 59 + l /\ monthrange(Y, M) = 31
        /\ M = 4 => b = 90 + l /\ monthrange(Y, M) = 30
        /\ M = 5 => b = 120 + l /\ monthrange(Y, M) = 31
        /\ M = 6 => b = 151 + l /\ monthrange(Y, M) = 30
        /\ M = 7 => b = 181 + l /\ monthrange(Y, M) = 31
        /\ M = 8 => b = 212 + l /\ monthrange(Y, M) = 31
        /\ M = 9 => b = 243 + l /\ monthrange(Y, M) = 30
        /\ M = 10 => b = 273 + l /\ monthrange(Y, M) = 31
        /\ M = 11 => b = 304 + l /\ monthrange(Y, M) = 30
        /\ M = 12 => b = 334 + l /\ monthrange(Y, M) = 31
    BY DEF DaysBeforeMonth, monthrange, Leap
  <1>8. CASE Y = y + 8
    <2>1. PICK x \in 0..1 : /\ (y % 4 = 0 => x = 0) /\ (y % 4 # 0 => x = 1)
                            /\ EthiopianFirst(y, 1)
                                   = DaysBeforeYear(y + 8) + 1 + Drift(y + 8) - 126 - x
      BY NewYears
    <2>2. after = d + 30 * (m - 1) - b - 126 - x
      <3>1. DaysBeforeYear(y + 8) = DaysBeforeYear(Y) /\ Drift(y + 8) = d
        BY <1>8
      <3> HIDE DEF b, d, l
      <3>. QED BY <1>1, <1>2, <1>3, <1>4, <2>1, <3>1
    <2>3. l = 1 => x = 0
      BY <1>1, <1>8, <2>1
    <2> HIDE DEF b, d, l
    <2>. QED BY <1>1, <1>5, <1>7, <2>2, <2>3
  <1>9. CASE Y = y + 7
    <2>1. PICK x \in 0..1 : /\ (y % 4 \in {2, 3} => x = 1) /\ (y % 4 \notin {2, 3} => x = 0)
                            /\ EthiopianFirst(y, 1)
                                   = DaysBeforeYear(y + 7) + 1 + Drift(y + 7) + 239 - x
      BY NewYears
    <2>2. after = d + 30 * (m - 1) - b + 239 - x
      <3>1. DaysBeforeYear(y + 7) = DaysBeforeYear(Y) /\ Drift(y + 7) = d
        BY <1>9
      <3> HIDE DEF b, d, l
      <3>. QED BY <1>1, <1>2, <1>3, <1>4, <2>1, <3>1
    <2>3. l = 1 => x = 0
      BY <1>1, <1>9, <2>1
    <2> HIDE DEF b, d, l
    <2>. QED BY <1>1, <1>5, <1>7, <2>2, <2>3
  <1>. QED BY <1>6, <1>8, <1>9

\* as_calendar answers the month of the first day or that of the last day,
\* whichever shares more (period.py:183-195).
LEMMA TheLargerShare ==
    ASSUME NEW p, NEW kind, kind # p.calendar,
           from_date(gregorian_span(p).first, kind) \in Period,
           from_date(gregorian_span(p).last, kind) \in Period,
           overlap_days(from_date(gregorian_span(p).first, kind), p) \in Int,
           overlap_days(from_date(gregorian_span(p).last, kind), p) \in Int
    PROVE  LET start == from_date(gregorian_span(p).first, kind)
               end   == from_date(gregorian_span(p).last, kind)
           IN /\ start = end => as_calendar(p, kind) = start
              /\ overlap_days(start, p) > overlap_days(end, p) => as_calendar(p, kind) = start
              /\ overlap_days(end, p) > overlap_days(start, p) => as_calendar(p, kind) = end
  <1> DEFINE start == from_date(gregorian_span(p).first, kind)
             end == from_date(gregorian_span(p).last, kind)
             Share(q) == overlap_days(q, p)
             Beats(q, r) == \/ Share(q) > Share(r)
                            \/ Share(q) = Share(r) /\ index(q) <= index(r)
  <1>1. as_calendar(p, kind) = CHOOSE q \in {start, end} : \A r \in {start, end} : Beats(q, r)
    BY DEF as_calendar
  <1>2. Share(start) \in Int /\ Share(end) \in Int /\ index(start) \in Int /\ index(end) \in Int
    BY NumberOf
  <1> HIDE DEF start, end, Share
  <1>3. start = end => as_calendar(p, kind) = start
    <2> SUFFICES ASSUME start = end PROVE as_calendar(p, kind) = start
      OBVIOUS
    <2>1. as_calendar(p, kind) = CHOOSE q \in {start} : \A r \in {start} : Beats(q, r)
      BY <1>1
    <2>2. Beats(start, start)
      BY <1>2
    <2> HIDE DEF Beats
    <2>. QED BY <2>1, <2>2
  <1>4. ASSUME Share(start) > Share(end) PROVE as_calendar(p, kind) = start
    <2>1. \A r \in {start, end} : Beats(start, r)
      BY <1>2, <1>4
    <2>2. ~ Beats(end, start)
      BY <1>2, <1>4
    <2> HIDE DEF Beats
    <2>. QED BY <1>1, <2>1, <2>2
  <1>5. ASSUME Share(end) > Share(start) PROVE as_calendar(p, kind) = end
    <2>1. \A r \in {start, end} : Beats(end, r)
      BY <1>2, <1>5
    <2>2. ~ Beats(start, end)
      BY <1>2, <1>5
    <2> HIDE DEF Beats
    <2>. QED BY <1>1, <2>1, <2>2
  <1>. QED BY <1>3, <1>4, <1>5 DEF start, end, Share

\* What a Period shares with the months it meets in the other calendar.
LEMMA Shares ==
    ASSUME NEW p \in Period, NEW kind \in CalendarKind, kind # p.calendar,
           gregorian_span(p).first >= IF kind = Ethiopian THEN FirstMeskerem ELSE 1
    PROVE  LET a == gregorian_span(p).first
               z == gregorian_span(p).last
               start == from_date(a, kind)
               F(k) == gregorian_span(shift(start, k)).first
               Share(k) == overlap_days(shift(start, k), p)
           IN /\ start \in Period /\ start.calendar = kind
              /\ F(0) <= a /\ a < F(1) /\ F(1) = F(0) + length_in_days(start)
              /\ \A k \in -2..3 : Share(k) \in Int
              /\ \E i \in 0..2 :
                    /\ from_date(z, kind) = shift(start, i)
                    /\ \A k \in 0..i : Share(k) > 0
                    /\ \A k \in -2..3 : k \notin 0..i => Share(k) = 0
                    /\ i > 0 => Share(0) = F(1) - a
                    /\ i = 1 => Share(1) = z - F(1) + 1
                    /\ i = 2 => /\ Share(1) = length_in_days(shift(start, 1))
                                /\ Share(2) = z - F(1) - Share(1) + 1
                    /\ \A q \in Period : q.calendar = kind /\ overlap_days(q, p) # 0
                                           => \E k \in 0..i : q = shift(start, k)
  <1> DEFINE a == gregorian_span(p).first
             z == gregorian_span(p).last
             start == from_date(a, kind)
             n == index(start)
             F(k) == gregorian_span(shift(start, k)).first
             T(k) == gregorian_span(shift(start, k)).last
             Share(k) == overlap_days(shift(start, k), p)
  <1>1. a \in Int /\ z \in Int /\ a <= z
    <2>1. p.calendar \in CalendarKind /\ p.year \in Int /\ p.month \in 1..months_per_year(p.calendar)
      BY DEF Period
    <2>2. length_in_days(p) \in 5..31 /\ z = a + length_in_days(p) - 1 /\ a \in Int
      BY <2>1, SpanOfAMonth
    <2> HIDE DEF a, z
    <2>. QED BY <2>2
  <1>2. /\ start \in Period /\ start.calendar = kind /\ contains(start, a)
        /\ from_date(z, kind) \in Period
    <2>1. /\ start \in Period /\ start.calendar = kind /\ from_date(z, kind) \in Period
      BY InARow
    <2>2. contains(start, a)
      <3>1. \A q \in Period : q.calendar = kind => (contains(q, a) <=> q = from_date(a, kind))
        <4> HIDE DEF a
        <4>. QED BY <1>1, InOnePeriod DEF a
      <3> HIDE DEF a
      <3>. QED BY <2>1, <3>1
    <2>. QED BY <2>1, <2>2
  <1>3. PICK i \in 0..2 : /\ from_date(z, kind) = shift(start, i)
                          /\ \A k \in -2..3 : overlaps(shift(start, k), p) <=> k \in 0..i
    BY InARow
  <1>4. contains(shift(start, i), z)
    <2>1. z >= IF kind = Ethiopian THEN FirstMeskerem ELSE 1
      <3>1. a <= z
        BY <1>1
      <3> HIDE DEF z
      <3>. QED BY <1>1, <3>1 DEF FirstMeskerem
    <2>2. \A q \in Period : q.calendar = kind => (contains(q, z) <=> q = from_date(z, kind))
      <3> HIDE DEF a, z
      <3>. QED BY <1>1, <2>1, InOnePeriod
    <2> HIDE DEF a, z, start
    <2>3. from_date(z, kind).calendar = kind
      BY DEF from_date
    <2>. QED BY <1>2, <1>3, <2>2, <2>3
  <1> HIDE DEF a, z, start
  <1>5. n \in Int /\ n >= months_per_year(kind) /\ start = from_index(kind, n)
    BY <1>2, NumberOf
  <1>6. \A k \in Int : shift(start, k) = from_index(kind, n + k)
    BY <1>5, Numbered
  <1>7. shift(start, 0) = start
    BY <1>5, <1>6
  <1> HIDE DEF n
  <1>8. \A k \in Int : /\ F(k) \in Int /\ T(k) \in Int
                       /\ T(k) = F(k) + length_in_days(shift(start, k)) - 1
                       /\ length_in_days(shift(start, k)) \in 5..31
                       /\ F(k + 1) = T(k) + 1
    <2> TAKE k \in Int
    <2>1. n + k \in Int /\ n + (k + 1) = (n + k) + 1
      BY <1>5
    <2>2. /\ shift(start, k) = from_index(kind, n + k)
          /\ shift(start, k + 1) = from_index(kind, (n + k) + 1)
      BY <1>6, <2>1
    <2> HIDE DEF F, T
    <2>. QED BY <2>1, <2>2, Spans DEF F, T
  <1>9. F(0) <= a /\ a <= T(0)
    BY <1>2, <1>7 DEF contains
  <1>10. F(i) <= z /\ z <= T(i)
    BY <1>4 DEF contains
  <1>11. \A k \in -2..3 : F(k) <= z /\ a <= T(k) <=> k \in 0..i
    BY <1>3 DEF overlaps, a, z
  <1>12. \A k \in Int :
            Share(k) = LET first == IF F(k) >= a THEN F(k) ELSE a
                           last  == IF T(k) <= z THEN T(k) ELSE z
                       IN IF last >= first THEN last - first + 1 ELSE 0
    BY DEF overlap_days, a, z
  <1>13. /\ F(1) = F(0) + length_in_days(start) /\ F(1) = T(0) + 1 /\ F(2) = T(1) + 1
         /\ \A k \in -2..3 : F(k) \in Int /\ T(k) \in Int
    <2>1. 0 \in Int /\ 1 \in Int /\ 0 + 1 = 1 /\ 1 + 1 = 2
      OBVIOUS
    <2>2. /\ F(0 + 1) = T(0) + 1 /\ F(1 + 1) = T(1) + 1
          /\ T(0) = F(0) + length_in_days(shift(start, 0)) - 1
          /\ \A k \in -2..3 : F(k) \in Int /\ T(k) \in Int
          /\ length_in_days(shift(start, 0)) \in 5..31
      BY <1>8, <2>1
    <2> HIDE DEF F, T
    <2>. QED BY <1>7, <2>1, <2>2
  <1>14. /\ T(1) = F(1) + length_in_days(shift(start, 1)) - 1
         /\ length_in_days(shift(start, 1)) \in 5..31
    BY <1>8
  <1> HIDE DEF F, T, Share
  <1>15. \A k \in -2..3 : /\ Share(k) \in Int
                          /\ k \in 0..i => Share(k) > 0
                          /\ k \notin 0..i => Share(k) = 0
    <2> TAKE k \in -2..3
    <2>1. F(k) \in Int /\ T(k) \in Int /\ F(k) <= T(k)
      <3>1. /\ F(k) \in Int /\ T(k) \in Int
            /\ T(k) = F(k) + length_in_days(shift(start, k)) - 1
            /\ length_in_days(shift(start, k)) \in 5..31
        BY <1>8
      <3>. QED BY <3>1
    <2>2. F(k) <= z /\ a <= T(k) <=> k \in 0..i
      BY <1>11
    <2>. QED BY <1>1, <1>12, <2>1, <2>2
  <1>16. /\ i > 0 => Share(0) = F(1) - a
         /\ i = 1 => Share(1) = z - F(1) + 1
         /\ i = 2 => /\ Share(1) = length_in_days(shift(start, 1))
                     /\ Share(2) = z - F(1) - Share(1) + 1
    <2>1. i \in 0..2 /\ \A k \in 0..i : F(k) <= z /\ a <= T(k)
      BY <1>11
    <2>2. i > 0 => F(1) <= z
      BY <2>1
    <2>3. i = 2 => F(2) <= z
      BY <2>1
    <2>. QED BY <1>1, <1>9, <1>10, <1>12, <1>13, <1>14, <2>1, <2>2, <2>3
  <1>17. /\ F(0) <= a /\ a < F(1)
    BY <1>1, <1>9, <1>13
  <1>18. ASSUME NEW q \in Period, q.calendar = kind, overlap_days(q, p) # 0
         PROVE  \E k \in 0..i : q = shift(start, k)
    <2> DEFINE f == gregorian_span(q).first
               t == gregorian_span(q).last
               shared == IF f >= a THEN f ELSE a
    <2>1. f \in Int /\ t \in Int
      <3>1. q.year \in Int /\ q.month \in 1..months_per_year(q.calendar)
        BY DEF Period
      <3>2. /\ length_in_days(q) \in 5..31 /\ f \in Int
            /\ t = f + length_in_days(q) - 1
        BY <1>18, <3>1, SpanOfAMonth
      <3> HIDE DEF f, t
      <3>. QED BY <3>2
    <2>2. shared \in Int /\ a <= shared /\ shared <= z /\ contains(q, shared)
      <3>1. IF f >= a THEN f <= z /\ f <= t ELSE a <= t
        <4>1. LET first == IF f >= a THEN f ELSE a
                  last  == IF t <= z THEN t ELSE z
              IN last >= first
          BY <1>18 DEF overlap_days, a, z
        <4> HIDE DEF f, t
        <4>. QED BY <1>1, <2>1, <4>1
      <3>2. f <= shared /\ shared <= t /\ shared \in Int /\ a <= shared /\ shared <= z
        <4> HIDE DEF f, t
        <4>. QED BY <1>1, <2>1, <3>1
      <3>. QED BY <3>2 DEF contains
    <2> HIDE DEF shared
    <2>3. PICK k \in 0..i : F(k) <= shared /\ shared <= T(k)
      <3>1. /\ F(0) \in Int /\ T(0) \in Int /\ F(1) \in Int /\ T(1) \in Int
            /\ F(2) \in Int /\ T(2) \in Int
        BY <1>13
      <3>2. shared <= T(0) \/ (F(1) <= shared /\ shared <= T(1)) \/ F(2) <= shared
        BY <1>13, <2>2, <3>1
      <3>3. CASE i = 0
        BY <1>9, <1>10, <1>1, <2>2, <3>1, <3>3
      <3>4. CASE i = 1
        BY <1>9, <1>10, <1>1, <1>13, <2>2, <3>1, <3>2, <3>4
      <3>5. CASE i = 2
        BY <1>9, <1>10, <1>1, <1>13, <2>2, <3>1, <3>2, <3>5
      <3>. QED BY <3>3, <3>4, <3>5
    <2>4. shift(start, k) \in Period /\ shift(start, k).calendar = kind
      <3>1. k \in Int /\ n + k \in Int /\ n + k >= months_per_year(kind)
        BY <1>5 DEF months_per_year
      <3>. QED BY <1>6, <3>1, Numbered
    <2>5. q = from_date(shared, kind) /\ shift(start, k) = from_date(shared, kind)
      <3>1. shared >= IF kind = Ethiopian THEN FirstMeskerem ELSE 1
        BY <1>1, <2>2 DEF FirstMeskerem, a
      <3>2. \A x \in Period : x.calendar = kind =>
                                (contains(x, shared) <=> x = from_date(shared, kind))
        BY <2>2, <3>1, InOnePeriod
      <3>3. contains(shift(start, k), shared)
        BY <2>3 DEF contains, F, T
      <3>. QED BY <1>18, <2>2, <2>4, <3>2, <3>3
    <2>. QED BY <2>5
  <1>. QED BY <1>2, <1>3, <1>13, <1>15, <1>16, <1>17, <1>18 DEF F, Share, start, a, z

\* A day of these centuries is in a month of these years.
LEMMA InTheseYears ==
    ASSUME NEW Y \in Int, NEW M \in Int, NEW n \in Int, M \in 1..12,
           GregorianFirst(Y, M) <= n, n < GregorianFirst(Y, M) + monthrange(Y, M),
           DaysBeforeYear(1001) < n, n <= DaysBeforeYear(2501)
    PROVE  1001 <= Y /\ Y <= 2500
  <1>1. /\ DaysBeforeMonth(Y, M) \in 0..335
        /\ DaysBeforeMonth(Y, M) + monthrange(Y, M) <= 365 + Leap(Y)
        /\ monthrange(Y, M) \in 28..31
    BY GregorianMonths
  <1>2. /\ DaysBeforeYear(Y) \in Int /\ Leap(Y) \in 0..1
        /\ DaysBeforeYear(Y + 1) = DaysBeforeYear(Y) + 365 + Leap(Y)
        /\ DaysBeforeYear(1001) \in Int /\ DaysBeforeYear(2501) \in Int
    BY GregorianYears
  <1>3. DaysBeforeYear(Y) < n /\ n <= DaysBeforeYear(Y + 1)
    BY <1>1, <1>2 DEF GregorianFirst
  <1>4. Y >= 1001
    <2> SUFFICES ASSUME Y + 1 <= 1001 PROVE FALSE
      OBVIOUS
    <2>1. DaysBeforeYear(Y + 1) + 365 * (1001 - (Y + 1)) <= DaysBeforeYear(1001)
      BY GregorianYearsApart
    <2>. QED BY <1>2, <1>3, <2>1
  <1>5. Y <= 2500
    <2> SUFFICES ASSUME 2501 <= Y PROVE FALSE
      OBVIOUS
    <2>1. DaysBeforeYear(2501) + 365 * (Y - 2501) <= DaysBeforeYear(Y)
      BY GregorianYearsApart
    <2>. QED BY <1>2, <1>3, <2>1
  <1>. QED BY <1>4, <1>5

\* The months a Period meets share it unequally: neither the first and the last
\* of them as much as each other, nor the one between, if there is one, as much
\* as both.
LEMMA SharesDiffer ==
    ASSUME NEW p \in Period, NEW kind \in CalendarKind, kind # p.calendar,
           DaysBeforeYear(1001) < gregorian_span(p).first,
           gregorian_span(p).last <= DaysBeforeYear(2501),
           NEW i \in Int, i = 1 \/ i = 2,
           LET start == from_date(gregorian_span(p).first, kind)
               Share(k) == overlap_days(shift(start, k), p)
           IN /\ from_date(gregorian_span(p).last, kind) = shift(start, i)
              /\ \A k \in 0..i : Share(k) \in Int /\ Share(k) > 0
              /\ Share(0) = gregorian_span(shift(start, 1)).first - gregorian_span(p).first
              /\ i = 1 => Share(1) = length_in_days(p) - Share(0)
              /\ i = 2 => /\ Share(1) = length_in_days(shift(start, 1))
                          /\ Share(2) = length_in_days(p) - Share(0) - Share(1)
    PROVE  LET start == from_date(gregorian_span(p).first, kind)
               Share(k) == overlap_days(shift(start, k), p)
           IN /\ Share(0) # Share(i)
              /\ i = 2 => Share(1) < Share(0) \/ Share(1) < Share(2)
  <1> DEFINE a == gregorian_span(p).first
             z == gregorian_span(p).last
             start == from_date(a, kind)
             next == shift(start, 1)
             Share(k) == overlap_days(shift(start, k), p)
             g == length_in_days(p)
             l == length_in_days(next)
  <1>1. /\ p.calendar \in CalendarKind /\ p.year \in Int
        /\ p.month \in 1..months_per_year(p.calendar)
    BY DEF Period
  <1>2. g \in 5..31 /\ z = a + g - 1 /\ a \in Int
    BY <1>1, SpanOfAMonth
  <1>3. start \in Period /\ start.calendar = kind /\ contains(start, a)
    <2>1. a >= IF kind = Ethiopian THEN FirstMeskerem ELSE 1
      <3>1. DaysBeforeYear(1001) = 365242
        BY DEF DaysBeforeYear
      <3> HIDE DEF a
      <3>. QED BY <1>2, <3>1 DEF FirstMeskerem, a
    <2>2. /\ from_date(a, kind) \in Period
          /\ \A q \in Period : q.calendar = kind => (contains(q, a) <=> q = from_date(a, kind))
      <3> HIDE DEF a
      <3>. QED BY <1>2, <2>1, InOnePeriod
    <2>3. start.calendar = kind
      BY DEF from_date
    <2> HIDE DEF a
    <2>. QED BY <2>2, <2>3
  <1>4. /\ next = from_index(kind, index(start) + 1) /\ index(start) \in Int
        /\ start = from_index(kind, index(start))
    <2> HIDE DEF start
    <2>1. start = from_index(kind, index(start)) /\ index(start) \in Int
      BY <1>3, NumberOf
    <2>. QED BY <2>1, Numbered
  <1>5. next.calendar = kind /\ next.year \in Int /\ next.month \in 1..months_per_year(kind)
    BY <1>4, Numbered
  <1>6. l \in 5..31 /\ gregorian_span(next).first \in Int
    <2> HIDE DEF next
    <2>. QED BY <1>5, SpanOfAMonth
  <1>7. /\ Share(0) \in Int /\ Share(1) \in Int /\ Share(i) \in Int
        /\ Share(0) > 0 /\ Share(1) > 0 /\ Share(i) > 0
        /\ Share(0) = gregorian_span(next).first - a
        /\ i = 1 => Share(1) = g - Share(0)
        /\ i = 2 => Share(1) = l /\ Share(2) = g - Share(0) - l
    OBVIOUS
  <1>8. CASE kind = Ethiopian
    <2>1. p.calendar = Gregorian /\ p.month \in 1..12
      BY <1>1, <1>8 DEF CalendarKind, months_per_year
    <2>2. a = GregorianFirst(p.year, p.month) /\ g = monthrange(p.year, p.month)
      BY <1>1, <2>1, SpanOfAMonth DEF GregorianFirst, length_in_days, Ethiopian, Gregorian
    <2>3. gregorian_span(next).first = EthiopianFirst(next.year, next.month) /\ next.month \in 1..13
      <3> HIDE DEF next
      <3>. QED BY <1>5, <1>8, SpanOfAMonth DEF months_per_year
    <2>4. 1001 <= p.year /\ p.year <= 2500
      <3>1. DaysBeforeYear(1001) < a /\ a <= DaysBeforeYear(2501) /\ a < a + g
        <4>1. DaysBeforeYear(1001) \in Int /\ DaysBeforeYear(2501) \in Int
          BY GregorianYears
        <4> HIDE DEF a, g
        <4>. QED BY <1>2, <4>1 DEF a
      <3>2. p.month \in Int /\ p.month \in 1..12
        BY <2>1
      <3> HIDE DEF a, g
      <3>. QED BY <1>1, <1>2, <2>2, <3>1, <3>2, InTheseYears
    <2>5. /\ Share(0) <= 14 \/ (Share(0) >= 29 /\ p.month \in {7, 8})
          /\ p.month = 2 => Share(0) <= 11
          /\ next.month = 13 => Share(0) < 10 \/ Share(0) > 28
      <3> HIDE DEF Share, g, l, next, a
      <3>1. /\ Share(0) \in Nat /\ Share(0) < monthrange(p.year, p.month)
            /\ EthiopianFirst(next.year, next.month)
                 = GregorianFirst(p.year, p.month) + Share(0)
        BY <1>2, <1>6, <1>7, <2>2, <2>3
      <3>2. /\ p.month \in Int /\ p.month \in 1..12 /\ p.year \in Int
            /\ next.month \in Int /\ next.month \in 1..13 /\ next.year \in Int
        BY <1>1, <1>5, <2>1, <2>3
      <3>. QED BY ONLY <2>4, <3>1, <3>2, MonthStarts
    <2>6. g \in 28..31 /\ (g = 28 => p.month = 2)
      BY <2>1, <2>2 DEF monthrange
    <2>7. (next.month = 13 /\ l \in 5..6) \/ l = 30
      <3> HIDE DEF next
      <3>. QED BY <1>5, <1>8 DEF length_in_days, ethiopian_month_length
    <2> HIDE DEF Share, g, l, next
    <2>8. Share(0) # Share(i)
      BY <1>7, <2>5, <2>6, <2>7
    <2>9. i = 2 => Share(1) < Share(0) \/ Share(1) < Share(2)
      BY <1>7, <2>5, <2>6, <2>7
    <2>. QED BY <2>8, <2>9 DEF Share
  <1>9. CASE kind # Ethiopian
    <2>1. /\ p.calendar = Ethiopian /\ kind = Gregorian /\ p.month \in 1..13
          /\ start.month \in 1..12 /\ next.month \in 1..12
      <3>1. start.year \in Int /\ start.month \in 1..months_per_year(kind)
        BY <1>3 DEF Period
      <3> HIDE DEF start, next
      <3>. QED BY <1>1, <1>5, <1>9, <3>1 DEF CalendarKind, months_per_year
    <2>2. a = EthiopianFirst(p.year, p.month) /\ ((p.month = 13 /\ g \in 5..6) \/ g = 30)
      BY <1>1, <2>1, SpanOfAMonth DEF length_in_days, ethiopian_month_length
    <2> DEFINE first == GregorianFirst(start.year, start.month)
               length == monthrange(start.year, start.month)
    <2>3. /\ first \in Int /\ length \in 28..31
          /\ first <= a /\ a < first + length
          /\ gregorian_span(next).first = first + length
      <3>1. start.year \in Int /\ kind \in CalendarKind
        BY <1>3 DEF Period
      <3>2. gregorian_span(start).first = first /\ length_in_days(start) = length
        <4> HIDE DEF start
        <4>. QED BY <1>3, <2>1, <3>1, SpanOfAMonth
                 DEF GregorianFirst, length_in_days, months_per_year,
                     Ethiopian, Gregorian, CalendarKind
      <3>3. /\ gregorian_span(start).first \in Int /\ length_in_days(start) \in 5..31
            /\ gregorian_span(start).last = gregorian_span(start).first + length_in_days(start) - 1
            /\ gregorian_span(next).first = gregorian_span(start).last + 1
        <4> HIDE DEF start, next
        <4>. QED BY <1>4, Spans
      <3>4. length \in 28..31
        <4>1. start.month \in 1..12
          BY <2>1
        <4> HIDE DEF start
        <4>. QED BY ONLY <3>1, <4>1, GregorianDays DEF length
      <3> HIDE DEF a, start, next, first, length
      <3>. QED BY <1>2, <1>3, <3>2, <3>3, <3>4 DEF contains
    <2>4. 1001 <= start.year /\ start.year <= 2500
      <3>1. DaysBeforeYear(1001) < a /\ a <= DaysBeforeYear(2501)
        <4>1. DaysBeforeYear(1001) \in Int /\ DaysBeforeYear(2501) \in Int
          BY GregorianYears
        <4> HIDE DEF a, g
        <4>. QED BY <1>2, <4>1 DEF a
      <3>2. start.year \in Int
        BY <1>3 DEF Period
      <3>3. start.month \in Int /\ start.month \in 1..12
        BY <2>1
      <3> HIDE DEF a, start
      <3>. QED BY <1>2, <2>3, <3>1, <3>2, <3>3, InTheseYears DEF first, length
    <2>5. /\ a - first <= 14 \/ (a - first >= 29 /\ start.month \in {7, 8})
          /\ start.month = 2 => a - first <= 11
          /\ p.month = 13 => a - first < 10 \/ a - first > 28
      <3>1. /\ start.month \in Int /\ start.month \in 1..12 /\ start.year \in Int
            /\ p.month \in Int /\ p.month \in 1..13 /\ p.year \in Int
        BY <1>1, <1>3, <2>1 DEF Period
      <3> HIDE DEF a, start, first, length
      <3>2. /\ a - first \in Nat /\ a - first < length
            /\ EthiopianFirst(p.year, p.month) = first + (a - first)
        BY <1>2, <2>2, <2>3
      <3>. QED BY ONLY <2>4, <3>1, <3>2, MonthStarts DEF first, length
    <2>6. /\ length < 30 => start.month = 2
          /\ l \in 28..31 /\ (start.month \in {7, 8} => l >= 30)
      <3>1. l = monthrange(next.year, next.month)
        <4> HIDE DEF next
        <4>. QED BY <1>5, <1>9 DEF length_in_days
      <3>2. start.month \in {7, 8} => next.month = start.month + 1
        <4> DEFINE n == index(start)
        <4>1. n \in Int /\ start.month = (n % 12) + 1 /\ next.month = ((n + 1) % 12) + 1
          <5> HIDE DEF n
          <5>. QED BY <1>4, <1>9 DEF from_index, months_per_year, n
        <4> HIDE DEF n, start, next
        <4>. QED BY <4>1
      <3> HIDE DEF start, next
      <3>. QED BY <2>1, <3>1, <3>2 DEF monthrange, length
    <2>7. Share(0) = first + length - a
      <3>1. Share(0) = gregorian_span(next).first - a
        BY <1>7
      <3> HIDE DEF Share, next, first, length, a
      <3>. QED BY <1>2, <2>3, <3>1
    <2> HIDE DEF Share, g, l, next, a, first, length
    <2>8. Share(0) # Share(i)
      <3>1. Share(0) # g - Share(0)
        BY <1>2, <1>7, <2>2, <2>3, <2>5, <2>6, <2>7
      <3>2. CASE i = 1
        BY <1>7, <3>1, <3>2
      <3>3. CASE i = 2
        BY <1>2, <1>7, <2>2, <2>3, <2>5, <2>6, <2>7, <3>3
      <3>. QED BY <3>2, <3>3
    <2>9. i = 2 => Share(1) < Share(0) \/ Share(1) < Share(2)
      BY <1>2, <1>7, <2>2, <2>3, <2>5, <2>6, <2>7
    <2>. QED BY <2>8, <2>9 DEF Share, a
  <1>. QED BY <1>8, <1>9

\* as_calendar has looked at enough: the counterpart of a Period of these years
\* shares more days with it than any other Period of its calendar, the ones
\* around it (k) and all others (period.py:183-195).
THEOREM CounterpartIsRight ==
    ASSUME NEW p \in Period, NEW kind \in CalendarKind, kind # p.calendar,
           DaysBeforeYear(1001) < gregorian_span(p).first,
           gregorian_span(p).last <= DaysBeforeYear(2501)
    PROVE  /\ \A k \in -2..3 :
                 LET q == shift(from_date(gregorian_span(p).first, kind), k)
                 IN q # as_calendar(p, kind)
                      => overlap_days(q, p) < overlap_days(as_calendar(p, kind), p)
           /\ \A q \in Period :
                 q.calendar = kind /\ q # as_calendar(p, kind)
                   => overlap_days(q, p) < overlap_days(as_calendar(p, kind), p)
  <1> DEFINE a == gregorian_span(p).first
             z == gregorian_span(p).last
             start == from_date(a, kind)
             c == as_calendar(p, kind)
             Share(k) == overlap_days(shift(start, k), p)
  <1>1. /\ length_in_days(p) \in 5..31 /\ z = a + length_in_days(p) - 1 /\ a \in Int
    <2>1. /\ p.calendar \in CalendarKind /\ p.year \in Int
          /\ p.month \in 1..months_per_year(p.calendar)
      BY DEF Period
    <2>. QED BY <2>1, SpanOfAMonth
  <1>2. a >= IF kind = Ethiopian THEN FirstMeskerem ELSE 1
    <2>1. DaysBeforeYear(1001) = 365242
      BY DEF DaysBeforeYear
    <2> HIDE DEF a
    <2>. QED BY <1>1, <2>1 DEF FirstMeskerem, a
  <1>3. PICK i \in 0..2 :
           /\ from_date(z, kind) = shift(start, i)
           /\ \A k \in 0..i : Share(k) > 0
           /\ \A k \in -2..3 : k \notin 0..i => Share(k) = 0
           /\ i > 0 => Share(0) = gregorian_span(shift(start, 1)).first - a
           /\ i = 1 => Share(1) = z - gregorian_span(shift(start, 1)).first + 1
           /\ i = 2 => /\ Share(1) = length_in_days(shift(start, 1))
                       /\ Share(2) = z - gregorian_span(shift(start, 1)).first - Share(1) + 1
           /\ \A q \in Period : q.calendar = kind /\ overlap_days(q, p) # 0
                                  => \E k \in 0..i : q = shift(start, k)
    BY <1>2, Shares
  <1>4. /\ start \in Period /\ start.calendar = kind
        /\ \A k \in -2..3 : Share(k) \in Int
    BY <1>2, Shares
  <1>5. shift(start, 0) = start /\ from_date(z, kind) \in Period
    <2>1. from_date(z, kind) \in Period
      BY <1>2, InARow
    <2> HIDE DEF start
    <2>. QED BY <1>4, <2>1, ShiftsAddUp
  <1>6. i > 0 => /\ Share(0) # Share(i)
                 /\ i = 2 => Share(1) < Share(0) \/ Share(1) < Share(2)
    <2> SUFFICES ASSUME i > 0
                 PROVE  /\ Share(0) # Share(i)
                        /\ i = 2 => Share(1) < Share(0) \/ Share(1) < Share(2)
      OBVIOUS
    <2>1. /\ from_date(z, kind) = shift(start, i)
          /\ \A k \in 0..i : Share(k) \in Int /\ Share(k) > 0
          /\ Share(0) = gregorian_span(shift(start, 1)).first - a
      BY <1>3, <1>4
    <2>2. /\ i = 1 => Share(1) = length_in_days(p) - Share(0)
          /\ i = 2 => /\ Share(1) = length_in_days(shift(start, 1))
                      /\ Share(2) = length_in_days(p) - Share(0) - Share(1)
      <3> DEFINE F == gregorian_span(shift(start, 1)).first
      <3>1. F \in Int
        <4> HIDE DEF start
        <4>1. start = from_index(kind, index(start)) /\ index(start) \in Int
          BY <1>4, NumberOf
        <4>2. shift(start, 1) = from_index(kind, index(start) + 1)
          BY <4>1, Numbered
        <4>. QED BY <4>1, <4>2, Spans
      <3>2. /\ i = 1 => Share(1) = z - F + 1
            /\ i = 2 => /\ Share(1) = length_in_days(shift(start, 1))
                        /\ Share(2) = z - F - Share(1) + 1
            /\ Share(0) = F - a /\ Share(1) \in Int
        BY <1>3, <1>4, <2>1
      <3> HIDE DEF a, z, Share, F
      <3>. QED BY <1>1, <3>1, <3>2
    <2>3. i \in Int /\ (i = 1 \/ i = 2)
      OBVIOUS
    <2>. QED BY <2>1, <2>2, <2>3, SharesDiffer
  <1>7. /\ i = 0 => c = start
        /\ Share(0) > Share(i) => c = start
        /\ Share(i) > Share(0) => c = shift(start, i)
    <2>1. /\ Share(0) = overlap_days(start, p)
          /\ Share(i) = overlap_days(from_date(z, kind), p)
          /\ Share(0) \in Int /\ Share(i) \in Int
      BY <1>3, <1>4, <1>5
    <2>2. i = 0 => from_date(z, kind) = start
      BY <1>3, <1>5
    <2> HIDE DEF Share
    <2>. QED BY <1>3, <1>4, <1>5, <2>1, <2>2, TheLargerShare
  <1> HIDE DEF a, z, start, c, Share
  <1>8. \E j \in 0..i : c = shift(start, j) /\ \A k \in -2..3 : k # j => Share(k) < Share(j)
    <2>1. CASE i = 0
      BY <1>3, <1>4, <1>5, <1>6, <1>7, <2>1
    <2>2. CASE i = 1
      BY <1>3, <1>4, <1>5, <1>6, <1>7, <2>2
    <2>3. CASE i = 2
      BY <1>3, <1>4, <1>5, <1>6, <1>7, <2>3
    <2>. QED BY <2>1, <2>2, <2>3
  <1>9. PICK j \in 0..i : /\ c = shift(start, j) /\ overlap_days(c, p) > 0
                          /\ \A k \in -2..3 : k # j => Share(k) < overlap_days(c, p)
    <2>1. PICK j \in 0..i : c = shift(start, j) /\ \A k \in -2..3 : k # j => Share(k) < Share(j)
      BY <1>8
    <2>2. overlap_days(c, p) = Share(j) /\ Share(j) > 0
      BY <1>3, <2>1 DEF Share
    <2>. QED BY <2>1, <2>2
  <1>10. \A k \in -2..3 : shift(start, k) # c => Share(k) < overlap_days(c, p)
    BY <1>9
  <1>11. ASSUME NEW q \in Period, q.calendar = kind, q # c
         PROVE  overlap_days(q, p) < overlap_days(c, p)
    <2>1. CASE overlap_days(q, p) = 0
      BY <1>9, <2>1
    <2>2. CASE overlap_days(q, p) # 0
      <3>1. PICK k \in 0..i : q = shift(start, k)
        BY <1>3, <1>11, <2>2
      <3>2. k \in -2..3 /\ Share(k) = overlap_days(q, p)
        BY <3>1 DEF Share
      <3>. QED BY <1>10, <1>11, <3>1, <3>2
    <2>. QED BY <2>1, <2>2
  <1>. QED BY <1>10, <1>11 DEF Share, c, start, a

\* Every day of these centuries, the counterpart of its month in the other
\* calendar shares more days with it than any other Period (period.py:183-195).
THEOREM CounterpartShares ==
    ASSUME FirstDay >= toordinal(1001, 2, 1), LastDay <= toordinal(2500, 11, 30)
    PROVE  Spec => []CounterpartSharesTheMostDays
  <1>1. ASSUME WallStands, NEW kind \in CalendarKind
        PROVE  LET p == PeriodNow(kind)
                   c == as_calendar(p, Other(kind))
               IN \A q \in Nearby(p) \ {c} : overlap_days(q, p) < overlap_days(c, p)
    <2> DEFINE p == PeriodNow(kind)
               o == Other(kind)
               start == from_date(gregorian_span(p).first, o)
               c == as_calendar(p, o)
    <2>1. /\ DaysBeforeYear(1001) = 365242 /\ DaysBeforeYear(2501) \in Int
      BY GregorianYears DEF DaysBeforeYear
    <2>2. /\ today \in Int /\ today >= DaysBeforeYear(1001) + 32
          /\ today <= DaysBeforeYear(2501) - 31
      <3>1. FirstDay \in Int /\ LastDay \in Int
        <4>1. MaxOrdinal \in Int
          BY SMT DEF MaxOrdinal
        <4>. QED BY <4>1, WindowAssumption
      <3>2. today \in Int /\ today >= FirstDay /\ today <= LastDay
        BY <1>1, <3>1 DEF WallStands, TypeOK
      <3>3. /\ toordinal(1001, 2, 1) = DaysBeforeYear(1001) + 32
            /\ toordinal(2500, 11, 30) = DaysBeforeYear(2501) - 31
        BY DEF toordinal, DaysBeforeYear, DaysBeforeMonth, IsGregorianLeap
      <3>. QED BY <2>1, <3>1, <3>2, <3>3
    <2>3. p \in Period /\ p.calendar = kind /\ contains(p, today)
      <3>1. today >= IF kind = Ethiopian THEN FirstMeskerem ELSE 1
        BY <2>1, <2>2 DEF FirstMeskerem
      <3>2. /\ from_date(today, kind) \in Period
            /\ \A q \in Period :
                  q.calendar = kind => (contains(q, today) <=> q = from_date(today, kind))
        BY <2>2, <3>1, InOnePeriod
      <3>3. from_date(today, kind).calendar = kind
        BY DEF from_date
      <3>. QED BY <3>2, <3>3 DEF PeriodNow
    <2>4. o \in CalendarKind /\ o # kind
      BY DEF Other, CalendarKind, Ethiopian, Gregorian
    <2> HIDE DEF p, o
    <2>5. /\ DaysBeforeYear(1001) < gregorian_span(p).first
          /\ gregorian_span(p).last <= DaysBeforeYear(2501)
      <3>1. p.year \in Int /\ p.month \in 1..months_per_year(p.calendar)
        BY <2>3 DEF Period
      <3>2. /\ length_in_days(p) \in 5..31 /\ gregorian_span(p).first \in Int
            /\ gregorian_span(p).last = gregorian_span(p).first + length_in_days(p) - 1
        BY <2>3, <3>1, SpanOfAMonth
      <3>3. gregorian_span(p).first <= today /\ today <= gregorian_span(p).last
        BY <2>3 DEF contains
      <3>. QED BY <2>1, <2>2, <3>2, <3>3
    <2>6. \A k \in -2..3 :
             shift(start, k) # c => overlap_days(shift(start, k), p) < overlap_days(c, p)
      BY <2>3, <2>4, <2>5, CounterpartIsRight
    <2>7. Nearby(p) = {shift(start, k) : k \in -2..3}
      BY <2>3 DEF Nearby, o
    <2> HIDE DEF start, c
    <2>8. \A q \in Nearby(p) \ {c} : overlap_days(q, p) < overlap_days(c, p)
      BY <2>6, <2>7
    <2>. QED BY <2>8 DEF p, o, c
  <1>2. WallStands => CounterpartSharesTheMostDays
    BY <1>1 DEF CounterpartSharesTheMostDays
  <1>. QED BY <1>2, Wall, PTL
=============================================================================
