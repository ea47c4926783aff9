------------------------------ MODULE Calendar ------------------------------
(***************************************************************************)
(* The calendar kernel (shared_kernel/domain/calendar): Ethiopian dates,   *)
(* and the Period, a (calendar, year, month) triple of either calendar.    *)
(* A Gregorian `date` of the standard library is represented by its        *)
(* proleptic ordinal, date.toordinal(): day 1 is 0001-01-01.               *)
(***************************************************************************)
EXTENDS Integers

Ethiopian == "ethiopian"
Gregorian == "gregorian"
CalendarKind == {Ethiopian, Gregorian}

months_per_year(kind) == IF kind = Ethiopian THEN 13 ELSE 12

-----------------------------------------------------------------------------
(* The Gregorian side: what datetime.date and calendar.monthrange compute. *)

MaxOrdinal == 3652059            \* date.max.toordinal(), 9999-12-31

IsGregorianLeap(y) == y % 4 = 0 /\ (y % 100 # 0 \/ y % 400 = 0)

monthrange(y, m) ==
    IF m = 2 THEN IF IsGregorianLeap(y) THEN 29 ELSE 28
             ELSE IF m \in {4, 6, 9, 11} THEN 30 ELSE 31

DaysBeforeYear(y) ==
    365 * (y - 1) + (y - 1) \div 4 - (y - 1) \div 100 + (y - 1) \div 400

DaysBeforeMonth(y, m) ==
    <<0, 31, 59, 90, 120, 151, 181, 212, 243, 273, 304, 334>>[m]
      + (IF m > 2 /\ IsGregorianLeap(y) THEN 1 ELSE 0)

toordinal(y, m, d) == DaysBeforeYear(y) + DaysBeforeMonth(y, m) + d

YearOf(n) == CHOOSE y \in (n \div 366)..(n \div 365 + 1) :
                DaysBeforeYear(y) < n /\ n <= DaysBeforeYear(y + 1)

MonthOf(n) == LET y == YearOf(n)
              IN CHOOSE m \in 1..12 :
                   /\ toordinal(y, m, 1) <= n
                   /\ n <= toordinal(y, m, monthrange(y, m))

-----------------------------------------------------------------------------
(* ethiopian.py *)

JDEpochOffsetAmeteMihret == 1723856
GregorianOrdinalToJDN    == 1721425

is_ethiopian_leap_year(year) == year % 4 = 3

ethiopian_month_length(year, month) ==
    IF month = 13 THEN IF is_ethiopian_leap_year(year) THEN 6 ELSE 5
                  ELSE 30

\* A mutant, as are the operators below whose name says what they get wrong.
validate_AllPagumensShort(e) ==
    /\ e.year >= 1
    /\ e.month \in 1..13
    /\ e.day \in 1..(IF e.month = 13 THEN 5 ELSE 30)

validate_ethiopian_date(e) ==
    /\ e.year >= 1
    /\ e.month \in 1..13
    /\ e.day \in 1..ethiopian_month_length(e.year, e.month)

EthiopianDate == {e \in [year : Int, month : Int, day : Int] :
                    validate_ethiopian_date(e)}

ethiopian_to_gregorian(e) ==
    LET jdn == (JDEpochOffsetAmeteMihret + 365) + 365 * (e.year - 1)
                 + e.year \div 4 + 30 * e.month + e.day - 31
    IN jdn - GregorianOrdinalToJDN

gregorian_to_ethiopian_NoLeapDay(n) ==
    LET days == n + GregorianOrdinalToJDN - JDEpochOffsetAmeteMihret
        r    == days % 1461
        k    == r % 365
    IN [year  |-> 4 * (days \div 1461) + r \div 365,
        month |-> (k \div 30) + 1,
        day   |-> (k % 30) + 1]

gregorian_to_ethiopian(n) ==
    LET jdn  == n + GregorianOrdinalToJDN
        days == jdn - JDEpochOffsetAmeteMihret
        r    == days % 1461
        k    == (r % 365) + 365 * (r \div 1460)
    IN [year  |-> 4 * (days \div 1461) + r \div 365 - r \div 1460,
        month |-> (k \div 30) + 1,
        day   |-> (k % 30) + 1]

-----------------------------------------------------------------------------
(* period.py *)

Period == {p \in [calendar : CalendarKind, year : Int, month : Int] :
             p.year >= 1 /\ p.month \in 1..months_per_year(p.calendar)}

index(p) == p.year * months_per_year(p.calendar) + (p.month - 1)

from_index(kind, i) ==
    [calendar |-> kind, year  |-> i \div months_per_year(kind),
                        month |-> (i % months_per_year(kind)) + 1]

shift(p, months) == from_index(p.calendar, index(p) + months)

from_date(n, kind) ==
    IF kind = Ethiopian
    THEN LET e == gregorian_to_ethiopian(n)
         IN [calendar |-> kind, year |-> e.year, month |-> e.month]
    ELSE [calendar |-> kind, year |-> YearOf(n), month |-> MonthOf(n)]

length_in_days(p) == IF p.calendar = Ethiopian
                     THEN ethiopian_month_length(p.year, p.month)
                     ELSE monthrange(p.year, p.month)

day_Unclamped(p, dayOfMonth) ==
    IF p.calendar = Ethiopian
    THEN ethiopian_to_gregorian([year |-> p.year, month |-> p.month, day |-> dayOfMonth])
    ELSE toordinal(p.year, p.month, dayOfMonth)

\* The Gregorian day a day-of-month (>= 1) falls on, clamped to the month.
day(p, dayOfMonth) ==
    LET clamped == IF dayOfMonth <= length_in_days(p) THEN dayOfMonth
                                                      ELSE length_in_days(p)
    IN IF p.calendar = Ethiopian
       THEN ethiopian_to_gregorian([year |-> p.year, month |-> p.month, day |-> clamped])
       ELSE toordinal(p.year, p.month, clamped)

gregorian_span(p) == [first |-> day(p, 1), last |-> day(p, length_in_days(p))]

contains(p, n) == gregorian_span(p).first <= n /\ n <= gregorian_span(p).last

overlap_days(p, q) ==
    LET a == gregorian_span(p)
        b == gregorian_span(q)
        first == IF a.first >= b.first THEN a.first ELSE b.first
        last  == IF a.last <= b.last THEN a.last ELSE b.last
    IN IF last >= first THEN last - first + 1 ELSE 0

as_calendar_ByFirstDay(p, kind) ==
    IF kind = p.calendar THEN p ELSE from_date(gregorian_span(p).first, kind)

\* The counterpart in the other calendar: of the Periods holding the first and
\* the last day, the one sharing the most days, the earlier one on a tie.
as_calendar(p, kind) ==
    LET span == gregorian_span(p)
        candidates == {from_date(span.first, kind), from_date(span.last, kind)}
        Beats(q, r) == \/ overlap_days(q, p) > overlap_days(r, p)
                       \/ /\ overlap_days(q, p) = overlap_days(r, p)
                          /\ index(q) <= index(r)
    IN IF kind = p.calendar THEN p
       ELSE CHOOSE q \in candidates : \A r \in candidates : Beats(q, r)

\* The only comparison across calendars: sharing at least one day.
overlaps(p, q) == /\ gregorian_span(p).first <= gregorian_span(q).last
                  /\ gregorian_span(q).first <= gregorian_span(p).last

\* Within one calendar; CalendarMismatch otherwise.
months_until(p, q) == index(q) - index(p)

\* The Periods from p up to and including last, none when last is earlier.
iterate_to(p, last) == [i \in 1..(months_until(p, last) + 1) |-> shift(p, i - 1)]

-----------------------------------------------------------------------------
(* Arithmetic on Ethiopian dates, and what is shown of a date or a Period.  *)
(* A month name is the month's number.                                     *)

add_days(e, days) == gregorian_to_ethiopian(ethiopian_to_gregorian(e) + days)

add_months_YearsOfTwelve(e, months) ==
    LET total == e.year * 12 + (e.month - 1) + months
        to    == [year |-> total \div 12, month |-> (total % 12) + 1]
        last  == ethiopian_month_length(to.year, to.month)
    IN [year |-> to.year, month |-> to.month,
        day |-> IF e.day <= last THEN e.day ELSE last]

add_months(e, months) ==
    LET total == e.year * 13 + (e.month - 1) + months
        to    == [year |-> total \div 13, month |-> (total % 13) + 1]
        last  == ethiopian_month_length(to.year, to.month)
    IN [year |-> to.year, month |-> to.month,
        day |-> IF e.day <= last THEN e.day ELSE last]

period_of_ethiopian_date(e) ==
    [calendar |-> Ethiopian, year |-> e.year, month |-> e.month]

Unnamed == 0                     \* no year is written beside this month name

label(p) == [month |-> p.month, year |-> p.year]

counterpart_label_OneYear(p, other) ==
    LET start == from_date(gregorian_span(p).first, other)
        end   == from_date(gregorian_span(p).last, other)
    IN IF start = end THEN <<label(start)>>
       ELSE <<[month |-> start.month, year |-> Unnamed], label(end)>>

\* p named in the other calendar: one month, or "first - last", which share the
\* year written last unless each has its own.
counterpart_label(p, other) ==
    LET start == from_date(gregorian_span(p).first, other)
        end   == from_date(gregorian_span(p).last, other)
    IN IF start = end THEN <<label(start)>>
       ELSE IF start.year = end.year
       THEN <<[month |-> start.month, year |-> Unnamed], label(end)>>
       ELSE <<label(start), label(end)>>
=============================================================================
