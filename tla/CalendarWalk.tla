---------------------------- MODULE CalendarWalk ----------------------------
(***************************************************************************)
(* A wall calendar of both kinds, turned one day at a time. It is the      *)
(* reference the arithmetic of Calendar is compared with: `et` and `greg`  *)
(* move by the month lengths alone, and never by the conversion formulas.  *)
(***************************************************************************)
EXTENDS Calendar, Sequences, Functions

CONSTANTS FirstDay, LastDay,     \* ordinals of the first and last day shown
          FirstEt, FirstGreg     \* the same first day, read off a calendar

ASSUME WindowAssumption ==
    /\ FirstDay \in 1..MaxOrdinal
    /\ LastDay \in FirstDay..MaxOrdinal
    /\ FirstEt \in EthiopianDate
    /\ ethiopian_to_gregorian(FirstEt) = FirstDay
    /\ FirstGreg \in [year : Int, month : 1..12, day : 1..31]
    /\ FirstGreg.day <= monthrange(FirstGreg.year, FirstGreg.month)
    /\ toordinal(FirstGreg.year, FirstGreg.month, FirstGreg.day) = FirstDay

VARIABLES today, et, greg

vars == <<today, et, greg>>

Init == /\ today = FirstDay
        /\ et = FirstEt
        /\ greg = FirstGreg

\* The day after date x, in a year of `months` months, this one of `length` days.
Turned(x, months, length) ==
    IF x.day < length THEN [year |-> x.year, month |-> x.month, day |-> x.day + 1]
    ELSE IF x.month < months THEN [year |-> x.year, month |-> x.month + 1, day |-> 1]
    ELSE [year |-> x.year + 1, month |-> 1, day |-> 1]

NextDay == /\ today < LastDay
           /\ today' = today + 1
           /\ et' = Turned(et, 13, ethiopian_month_length(et.year, et.month))
           /\ greg' = Turned(greg, 12, monthrange(greg.year, greg.month))

Next == NextDay

Spec == Init /\ [][Next]_vars
-----------------------------------------------------------------------------
PeriodNow(kind) == from_date(today, kind)
Other(kind)     == IF kind = Ethiopian THEN Gregorian ELSE Ethiopian

\* Days on which a month of either calendar begins: Period properties are
\* functions of the month, so these days cover every Period of the window.
AMonthBegins == et.day = 1 \/ greg.day = 1

\* Periods of the other calendar around p, the full search as_calendar avoids.
Nearby(p) == {shift(from_date(gregorian_span(p).first, Other(p.calendar)), k) : k \in -2..3}

\* The wall shows dates that exist in their calendar, the Gregorian one being
\* the date of ordinal `today`.
TypeOK == /\ today \in FirstDay..LastDay
          /\ validate_ethiopian_date(et)
          /\ greg.month \in 1..12 /\ greg.day \in 1..monthrange(greg.year, greg.month)
          /\ toordinal(greg.year, greg.month, greg.day) = today

\* The closed-form conversions (ethiopian.py:119-142) agree, in both
\* directions, with turning the page every day: across the 5 and 6 days of
\* Pagumen, the Ethiopian new year and the Gregorian leap and century rules.
ConversionFollowsTheCalendar ==
    /\ gregorian_to_ethiopian(today) = et
    /\ ethiopian_to_gregorian(et) = today

\* The Period of a date (period.py:81-87) spans that date, its neighbours do
\* not, and every due day 1..30 falls inside the span of its Period: months of
\* one calendar neither overlap nor leave a day between them.
PeriodsTileTheDays ==
    \A kind \in CalendarKind :
        LET p == PeriodNow(kind)
        IN /\ contains(p, today)
           /\ ~contains(shift(p, 1), today) /\ ~contains(shift(p, -1), today)
           /\ gregorian_span(shift(p, 1)).first = gregorian_span(p).last + 1
           /\ \A d \in {1, 5, 6, 28, 29, 30} : contains(p, day(p, d))

\* as_calendar looks at two candidates only and promises the Period "it shares
\* the most days with", a tie being "impossible in practice"
\* (period.py:186-190): it beats every other Period of that calendar strictly.
CounterpartSharesTheMostDays ==
    AMonthBegins =>
        \A kind \in CalendarKind :
            LET p == PeriodNow(kind)
                c == as_calendar(p, Other(kind))
            IN \A q \in Nearby(p) \ {c} : overlap_days(q, p) < overlap_days(c, p)
-----------------------------------------------------------------------------
\* The Periods a reader takes a counterpart label to name.
MonthsRead(lbl, kind) ==
    LET last     == lbl[Len(lbl)]
        AsRead(l) == [calendar |-> kind, month |-> l.month,
                      year |-> IF l.year = Unnamed THEN last.year ELSE l.year]
    IN Range(iterate_to(AsRead(lbl[1]), AsRead(last)))

\* Read back, a counterpart label (period.py:225-240) names every month of the
\* other calendar the Period shares a day with and no other: also where a month
\* spans three of them (September around Pagumen), lies within one (Pagumen),
\* or straddles the new year of the other calendar.
LabelNamesEveryMonth ==
    AMonthBegins =>
        \A kind \in CalendarKind :
            LET p == PeriodNow(kind)
            IN MonthsRead(counterpart_label(p, Other(kind)), Other(kind))
                 = {q \in Nearby(p) : overlaps(q, p)}

\* Months added to an Ethiopian date (ethiopian.py:207-212) move its Period by
\* as many months and give a date that exists; the next month comes 5 to 30
\* days later, a later day never lands before an earlier one, and what was not
\* clamped comes back.
MonthsLaterKeepTheirOrder ==
    LET tomorrow == gregorian_to_ethiopian(today + 1)
        Later(k) == add_months(et, k)
    IN /\ \A k \in {-14, -13, -1, 1, 12, 13, 52} :
             /\ validate_ethiopian_date(Later(k))
             /\ period_of_ethiopian_date(Later(k)) = shift(period_of_ethiopian_date(et), k)
             /\ ethiopian_to_gregorian(Later(k))
                  <= ethiopian_to_gregorian(add_months(tomorrow, k))
             /\ Later(k).day = et.day => add_months(Later(k), -k) = et
       /\ \E days \in 5..30 : Later(1) = add_days(et, days)
=============================================================================
