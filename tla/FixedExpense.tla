---------------------------- MODULE FixedExpense ----------------------------
(***************************************************************************)
(* The FixedExpense aggregate: a commitment that repeats every month of    *)
(* its Anchor Calendar, and the Settlements recorded against it.  A Period *)
(* of the Anchor Calendar is its `index`; a caller may name a Period of    *)
(* either calendar, and AnchorOf is anchor_period_for, Period.as_calendar  *)
(* into the Anchor Calendar.  An operation that raises changes nothing, so *)
(* the code's error paths are guards here.  settled_on is not modelled.    *)
(***************************************************************************)
EXTENDS Integers, Sequences

CONSTANTS Named,          \* Periods a caller may name, of both calendars
          Month,          \* the Named ones of the Anchor Calendar, by index
          AnchorOf,       \* [Named -> Int]
          OtherMonths,    \* consecutive Named Periods of the other calendar
          Money,          \* [minor : Int, currency] amounts, zero included
          Details,        \* title, category, due day and note, taken together
          Open            \* the end of an open-ended span

ASSUME MonthAssumption  == Month \subseteq Int /\ Open \notin Int
ASSUME AnchorAssumption == AnchorOf \in [Named -> Int]
ASSUME MoneyAssumption  == \A m \in Money : m.minor \in Int

VARIABLES span,           \* PeriodRange [start, end]
          amount, details, is_paused,
          settlements     \* a set of [period, amount]

vars == <<span, amount, details, is_paused, settlements>>

is_positive(m) == m.minor > 0

\* PeriodRange refuses an end before the start.
PeriodRange == {r \in [start : Month, end : Month \cup {Open}] :
                  r.end # Open => r.start <= r.end}

\* FixedExpense.schedule
Init == /\ span \in PeriodRange
        /\ amount \in {m \in Money : is_positive(m)}
        /\ details \in Details
        /\ is_paused = FALSE
        /\ settlements = {}
-----------------------------------------------------------------------------
in_span(p) == span.start <= p /\ (span.end # Open => p <= span.end)

is_active_in(p) == ~is_paused /\ in_span(p)

settlements_for(p) == {s \in settlements : s.period = p}

\* A mutant, as are the operators below whose name says what they get wrong.
settle_Again(asked, m) ==
    LET anchor == AnchorOf[asked]
    IN /\ is_active_in(anchor)
       /\ m.currency = amount.currency
       /\ is_positive(m)
       /\ settlements' = settlements \cup {[period |-> anchor, amount |-> m]}
       /\ UNCHANGED <<span, amount, details, is_paused>>

settle(asked, m) ==
    LET anchor == AnchorOf[asked]
    IN /\ is_active_in(anchor)
       /\ settlements_for(anchor) = {}
       /\ m.currency = amount.currency
       /\ is_positive(m)
       /\ settlements' = settlements \cup {[period |-> anchor, amount |-> m]}
       /\ UNCHANGED <<span, amount, details, is_paused>>

unsettle(asked) ==
    /\ \E s \in settlements_for(AnchorOf[asked]) : settlements' = settlements \ {s}
    /\ UNCHANGED <<span, amount, details, is_paused>>

correct_settlement_AnyCurrency(asked, m) ==
    /\ \E s \in settlements_for(AnchorOf[asked]) :
          /\ is_positive(m)
          /\ settlements' = (settlements \ {s}) \cup {[s EXCEPT !.amount = m]}
    /\ UNCHANGED <<span, amount, details, is_paused>>

correct_settlement(asked, m) ==
    /\ \E s \in settlements_for(AnchorOf[asked]) :
          /\ is_positive(m)
          /\ m.currency = s.amount.currency
          /\ settlements' = (settlements \ {s}) \cup {[s EXCEPT !.amount = m]}
    /\ UNCHANGED <<span, amount, details, is_paused>>

change_amount_RewritesHistory(m) ==
    /\ is_positive(m)
    /\ m.currency = amount.currency
    /\ amount' = m
    /\ settlements' = {[s EXCEPT !.amount = m] : s \in settlements}
    /\ UNCHANGED <<span, details, is_paused>>

change_amount(m) ==
    /\ is_positive(m)
    /\ m.currency = amount.currency
    /\ amount' = m
    /\ UNCHANGED <<span, details, is_paused, settlements>>

\* retitle, recategorise, change_due_day and amend_note.
edit_details(d) ==
    /\ details' = d
    /\ UNCHANGED <<span, amount, is_paused, settlements>>

end_after_Unchecked(end) ==
    /\ end # Open => span.start <= end
    /\ span' = [span EXCEPT !.end = end]
    /\ UNCHANGED <<amount, details, is_paused, settlements>>

end_after(end) ==
    /\ end \in Month => /\ span.start <= end
                        /\ \A s \in settlements : s.period <= end
    /\ span' = [span EXCEPT !.end = end]
    /\ UNCHANGED <<amount, details, is_paused, settlements>>

start_from_PastTheEnd(start) ==
    /\ \A s \in settlements : start <= s.period
    /\ span' = [span EXCEPT !.start = start]
    /\ UNCHANGED <<amount, details, is_paused, settlements>>

start_from(start) ==
    /\ span.end # Open => start <= span.end
    /\ \A s \in settlements : start <= s.period
    /\ span' = [span EXCEPT !.start = start]
    /\ UNCHANGED <<amount, details, is_paused, settlements>>

pause == /\ ~is_paused
         /\ is_paused' = TRUE
         /\ UNCHANGED <<span, amount, details, settlements>>

resume == /\ is_paused
          /\ is_paused' = FALSE
          /\ UNCHANGED <<span, amount, details, settlements>>

Next == \/ \E asked \in Named, m \in Money :
              settle(asked, m) \/ correct_settlement(asked, m)
        \/ \E asked \in Named : unsettle(asked)
        \/ \E m \in Money : change_amount(m)
        \/ \E d \in Details : edit_details(d)
        \/ \E end \in Month \cup {Open} : end_after(end)
        \/ \E start \in Month : start_from(start)
        \/ pause \/ resume

Spec == Init /\ [][Next]_vars
-----------------------------------------------------------------------------
\* occurrence_for, as the set of the Occurrences of one Period: none or one.
Occurrence(p, m, settled) == [period |-> p, amount |-> m, is_settled |-> settled]

occurrence_for_AtTheCommittedAmount(p) ==
    IF ~is_active_in(p) THEN {}
    ELSE {Occurrence(p, amount, settlements_for(p) # {})}

occurrence_for(p) ==
    IF ~is_active_in(p) THEN {}
    ELSE IF settlements_for(p) = {} THEN {Occurrence(p, amount, FALSE)}
    ELSE {Occurrence(p, s.amount, TRUE) : s \in settlements_for(p)}

\* occurrences_between, over a run of Periods of the other calendar: the
\* anchor Periods it lists, in the order and as often as the code lists them.
occurrences_between(months) ==
    LET anchors == [i \in DOMAIN months |-> AnchorOf[months[i]]]
    IN SelectSeq(anchors, LAMBDA p : is_active_in(p))
-----------------------------------------------------------------------------
\* The span is one PeriodRange accepts (period_range.py:30-48) whatever order
\* its two ends are moved in, and a payment is an amount of a whole month.
TypeOK == /\ span \in PeriodRange
          /\ amount \in Money
          /\ details \in Details
          /\ is_paused \in BOOLEAN
          /\ settlements \subseteq [period : Int, amount : Money]

\* A month is paid at most once, from whichever calendar it was named
\* (AlreadySettled, fixed_expense.py:300-301).
OneSettlementPerPeriod ==
    \A s, t \in settlements : s.period = t.period => s = t

\* No edit of the span leaves a payment outside it: it "would become
\* unreachable and the money would vanish from reports"
\* (fixed_expense.py:378-379, 399).
SettlementsReachable == \A s \in settlements : in_span(s.period)

\* Every amount of a commitment, committed or paid, is positive money of one
\* currency, so that its Occurrences can be summed (fixed_expense.py:304-309,
\* 356-363 and 92-96).
OneCurrency == /\ is_positive(amount)
               /\ \A s \in settlements : /\ is_positive(s.amount)
                                         /\ s.amount.currency = amount.currency

\* While the commitment runs, its Occurrences report every payment at what was
\* actually paid, exactly once (fixed_expense.py:269-273).
PaymentsAreReported ==
    ~is_paused =>
        \A s \in settlements :
            occurrence_for(s.period) = {Occurrence(s.period, s.amount, TRUE)}

\* A commitment listed month by month in the other calendar: "viewing in the
\* other calendar yields one Occurrence per month", "no month is billed twice
\* and none is skipped" (tests/unit/test_fixed_expense.py:159, 167-168).
OneOccurrencePerMonth ==
    LET listed == occurrences_between(OtherMonths)
        Listed == {listed[i] : i \in DOMAIN listed}
    IN /\ \A i, j \in DOMAIN listed : listed[i] = listed[j] => i = j
       /\ \A p, q \in Listed : \A m \in p..q : m \in Listed
-----------------------------------------------------------------------------
\* The book of payments this aggregate keeps.
PaidBy(S) == [p \in {s.period : s \in S} |-> (CHOOSE s \in S : s.period = p).amount]

paid    == PaidBy(settlements)
Anchors == {AnchorOf[p] : p \in Named}

Book == INSTANCE PaidMonths WITH Month <- Anchors, paid <- paid, committed <- amount

\* Every operation, the edits of span, amount and pause included, is one entry
\* of PaidMonths or leaves the book alone: what was paid changes only when it
\* is corrected or undone by name (FR-5.7, fixed_expense.py:350-355).
KeepsTheBook == Book!Spec
=============================================================================
