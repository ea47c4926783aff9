------------------------ MODULE FixedExpenseTheorems ------------------------
(***************************************************************************)
(* Invariants of the FixedExpense aggregate, and that it keeps the book of *)
(* PaidMonths, for every set of Periods, every mapping between calendars   *)
(* and every set of amounts.                                               *)
(***************************************************************************)
EXTENDS FixedExpense, TLAPS

\* The inductive invariant: the four invariants together.  Each is inductive
\* only with the typing; the reports and the book below need all of them.
IInv == /\ TypeOK
        /\ OneSettlementPerPeriod
        /\ SettlementsReachable
        /\ OneCurrency

USE MonthAssumption, AnchorAssumption, MoneyAssumption
    DEF TypeOK, PeriodRange, settlements_for, in_span, is_positive

\* A scheduled commitment has no payment to go wrong (fixed_expense.py:139-174).
LEMMA InitIInv == Init => IInv
  BY DEF Init, IInv, OneSettlementPerPeriod, SettlementsReachable, OneCurrency

\* Each operation keeps the four invariants together (fixed_expense.py:282-422).
LEMMA StepIInv == IInv /\ [Next]_vars => IInv'
  <1> SUFFICES ASSUME IInv, [Next]_vars PROVE IInv'
    OBVIOUS
  <1> USE DEF IInv
  <1>1. ASSUME NEW asked \in Named, NEW m \in Money, settle(asked, m)
        PROVE  IInv'
    <2> DEFINE anchor == AnchorOf[asked]
               new == [period |-> anchor, amount |-> m]
    <2>1. /\ anchor \in Int /\ is_active_in(anchor) /\ settlements_for(anchor) = {}
          /\ m.currency = amount.currency /\ m.minor > 0
          /\ settlements' = settlements \cup {new}
          /\ UNCHANGED <<span, amount, details, is_paused>>
      BY <1>1 DEF settle
    <2>2. TypeOK'
      BY <2>1
    <2>3. OneSettlementPerPeriod'
      BY <2>1 DEF OneSettlementPerPeriod
    <2>4. SettlementsReachable'
      BY <2>1 DEF SettlementsReachable, is_active_in
    <2>5. OneCurrency'
      BY <2>1 DEF OneCurrency
    <2>. QED BY <2>2, <2>3, <2>4, <2>5
  <1>2. ASSUME NEW asked \in Named, NEW m \in Money, correct_settlement(asked, m)
        PROVE  IInv'
    <2>1. PICK s \in settlements :
            /\ m.minor > 0 /\ m.currency = s.amount.currency
            /\ settlements' = (settlements \ {s}) \cup {[s EXCEPT !.amount = m]}
            /\ UNCHANGED <<span, amount, details, is_paused>>
      BY <1>2 DEF correct_settlement
    <2> DEFINE new == [s EXCEPT !.amount = m]
    <2>2. new.period = s.period /\ new.amount = m /\ new \in [period : Int, amount : Money]
      BY <2>1
    <2> HIDE DEF new
    <2>3. settlements' = (settlements \ {s}) \cup {new}
      BY <2>1 DEF new
    <2>4. TypeOK'
      BY <2>1, <2>2, <2>3
    <2>5. OneSettlementPerPeriod'
      BY <2>1, <2>2, <2>3 DEF OneSettlementPerPeriod
    <2>6. SettlementsReachable'
      BY <2>1, <2>2, <2>3 DEF SettlementsReachable
    <2>7. OneCurrency'
      BY <2>1, <2>2, <2>3 DEF OneCurrency
    <2>. QED BY <2>4, <2>5, <2>6, <2>7
  <1>3. ASSUME NEW asked \in Named, unsettle(asked)
        PROVE  IInv'
    BY <1>3 DEF unsettle, OneSettlementPerPeriod, SettlementsReachable, OneCurrency
  <1>4. ASSUME NEW m \in Money, change_amount(m)
        PROVE  IInv'
    BY <1>4 DEF change_amount, OneSettlementPerPeriod, SettlementsReachable, OneCurrency
  <1>5. ASSUME NEW d \in Details, edit_details(d)
        PROVE  IInv'
    BY <1>5 DEF edit_details, OneSettlementPerPeriod, SettlementsReachable, OneCurrency
  <1>6. ASSUME NEW end \in Month \cup {Open}, end_after(end)
        PROVE  IInv'
    <2>1. /\ span'.start = span.start /\ span'.end = end
          /\ span' \in PeriodRange
      BY <1>6 DEF end_after
    <2>2. SettlementsReachable'
      BY <1>6, <2>1 DEF end_after, SettlementsReachable
    <2>. QED BY <1>6, <2>1, <2>2 DEF end_after, OneSettlementPerPeriod, OneCurrency
  <1>7. ASSUME NEW start \in Month, start_from(start)
        PROVE  IInv'
    <2>1. /\ span'.start = start /\ span'.end = span.end
          /\ span' \in PeriodRange
      BY <1>7 DEF start_from
    <2>2. SettlementsReachable'
      BY <1>7, <2>1 DEF start_from, SettlementsReachable
    <2>. QED BY <1>7, <2>1, <2>2 DEF start_from, OneSettlementPerPeriod, OneCurrency
  <1>8. CASE pause \/ resume
    BY <1>8 DEF pause, resume, OneSettlementPerPeriod, SettlementsReachable, OneCurrency
  <1>9. CASE UNCHANGED vars
    BY <1>9 DEF vars, OneSettlementPerPeriod, SettlementsReachable, OneCurrency
  <1>. QED
    BY <1>1, <1>2, <1>3, <1>4, <1>5, <1>6, <1>7, <1>8, <1>9 DEF Next

\* The aggregate never leaves its types: in particular no edit of the span puts
\* its end before its start (period_range.py:43).
THEOREM TypeCorrect == Spec => []TypeOK
  <1>1. IInv => TypeOK
    BY DEF IInv
  <1>. QED BY InitIInv, StepIInv, <1>1, PTL DEF Spec

\* A month is paid at most once, whatever the two calendars' mapping.
THEOREM SettledOnce == Spec => []OneSettlementPerPeriod
  <1>1. IInv => OneSettlementPerPeriod
    BY DEF IInv
  <1>. QED BY InitIInv, StepIInv, <1>1, PTL DEF Spec

\* No sequence of span edits and payments leaves a payment outside the span.
THEOREM Reachable == Spec => []SettlementsReachable
  <1>1. IInv => SettlementsReachable
    BY DEF IInv
  <1>. QED BY InitIInv, StepIInv, <1>1, PTL DEF Spec

\* All the money of a commitment is positive and in one currency.
THEOREM SingleCurrency == Spec => []OneCurrency
  <1>1. IInv => OneCurrency
    BY DEF IInv
  <1>. QED BY InitIInv, StepIInv, <1>1, PTL DEF Spec

\* While it is not paused the commitment reports each payment once, as paid.
THEOREM Reported == Spec => []PaymentsAreReported
  <1>1. IInv => PaymentsAreReported
    <2> SUFFICES ASSUME IInv, ~is_paused, NEW s \in settlements
                 PROVE  occurrence_for(s.period) = {Occurrence(s.period, s.amount, TRUE)}
      BY DEF PaymentsAreReported
    <2>1. is_active_in(s.period)
      BY DEF IInv, SettlementsReachable, is_active_in
    <2>2. settlements_for(s.period) = {s}
      BY DEF IInv, OneSettlementPerPeriod
    <2> HIDE DEF settlements_for
    <2>. QED BY <2>1, <2>2 DEF occurrence_for
  <1>. QED BY InitIInv, StepIInv, <1>1, PTL DEF Spec

-----------------------------------------------------------------------------
\* The book read off a set of settlements with one entry a month.
LEMMA PaidByEntries ==
    ASSUME NEW S, \A s, t \in S : s.period = t.period => s = t
    PROVE  /\ DOMAIN PaidBy(S) = {s.period : s \in S}
           /\ \A s \in S : PaidBy(S)[s.period] = s.amount
           /\ PaidBy(S) = [p \in DOMAIN PaidBy(S) |-> PaidBy(S)[p]]
  <1>1. ASSUME NEW s \in S
        PROVE  (CHOOSE t \in S : t.period = s.period) = s
    OBVIOUS
  <1>. QED BY <1>1 DEF PaidBy

\* The months of a book with one entry more.
LEMMA PeriodsOfOneMore ==
    ASSUME NEW S, NEW n
    PROVE  {s.period : s \in S \cup {n}} = {s.period : s \in S} \cup {n.period}
  <1>1. ASSUME NEW p
        PROVE  p \in {s.period : s \in S \cup {n}}
                 <=> p \in {s.period : s \in S} \cup {n.period}
    OBVIOUS
  <1>. QED BY <1>1

\* Two books with the same entries are the same function.
LEMMA SameBook ==
    ASSUME NEW f, NEW g, DOMAIN f = DOMAIN g,
           f = [p \in DOMAIN f |-> f[p]], g = [p \in DOMAIN g |-> g[p]],
           \A p \in DOMAIN f : f[p] = g[p]
    PROVE  f = g
  OBVIOUS

\* The aggregate implements PaidMonths: a payment changes only when it is
\* corrected or undone, and no price change touches one (FR-5.7).
THEOREM Refinement == Spec => KeepsTheBook
  <1>1. Init => Book!Init
    BY DEF Init, Book!Init, Book!Positive, paid, PaidBy
  <1>2. IInv /\ IInv' /\ [Next]_vars => [Book!Next]_(Book!vars)
    <2> SUFFICES ASSUME IInv, IInv', [Next]_vars
                 PROVE  [Book!Next]_(Book!vars)
      OBVIOUS
    <2> USE DEF IInv, OneSettlementPerPeriod
    <2>a. /\ DOMAIN paid = {s.period : s \in settlements}
          /\ \A s \in settlements : paid[s.period] = s.amount
          /\ paid = [p \in DOMAIN paid |-> paid[p]]
      BY PaidByEntries DEF paid
    <2>b. /\ DOMAIN paid' = {s.period : s \in settlements'}
          /\ \A s \in settlements' : paid'[s.period] = s.amount
          /\ paid' = [p \in DOMAIN paid' |-> paid'[p]]
      BY PaidByEntries DEF paid
    <2>1. ASSUME NEW asked \in Named, NEW m \in Money, settle(asked, m)
          PROVE  Book!Next
      <3> DEFINE anchor == AnchorOf[asked]
                 new == [period |-> anchor, amount |-> m]
                 book == [q \in DOMAIN paid \cup {anchor} |->
                            IF q = anchor THEN m ELSE paid[q]]
      <3>1. /\ settlements_for(anchor) = {} /\ m.minor > 0
            /\ m.currency = amount.currency
            /\ settlements' = settlements \cup {new} /\ amount' = amount
        BY <2>1 DEF settle
      <3>2. anchor \notin DOMAIN paid
        BY <2>a, <3>1
      <3>3. DOMAIN paid' = DOMAIN book
        <4>1. {s.period : s \in settlements \cup {new}}
                = {s.period : s \in settlements} \cup {new.period}
          BY PeriodsOfOneMore
        <4>2. DOMAIN book = DOMAIN paid \cup {anchor}
          OBVIOUS
        <4>3. new.period = anchor
          OBVIOUS
        <4> HIDE DEF book, new, anchor
        <4>. QED BY <2>a, <2>b, <3>1, <4>1, <4>2, <4>3
      <3>4. \A p \in DOMAIN paid' : paid'[p] = book[p]
        BY <2>a, <2>b, <3>1, <3>2
      <3>5. paid' = book
        BY <2>b, <3>3, <3>4, SameBook
      <3>6. Book!Pay(anchor, m)
        BY <3>1, <3>2, <3>5 DEF Book!Pay, Book!Positive
      <3>. QED BY <3>6 DEF Book!Next, Anchors
    <2>2. ASSUME NEW asked \in Named, NEW m \in Money, correct_settlement(asked, m)
          PROVE  Book!Next
      <3> DEFINE anchor == AnchorOf[asked]
                 book == [paid EXCEPT ![anchor] = m]
      <3>1. PICK s \in settlements :
              /\ s.period = anchor /\ m.minor > 0 /\ m.currency = s.amount.currency
              /\ settlements' = (settlements \ {s}) \cup {[s EXCEPT !.amount = m]}
              /\ amount' = amount
        BY <2>2 DEF correct_settlement
      <3> DEFINE new == [s EXCEPT !.amount = m]
      <3>2. new.period = anchor /\ new.amount = m
        BY <3>1
      <3> HIDE DEF new
      <3>3. settlements' = (settlements \ {s}) \cup {new}
        BY <3>1 DEF new
      <3>4. anchor \in DOMAIN paid /\ m.currency = amount.currency
        BY <2>a, <3>1 DEF OneCurrency
      <3>5. DOMAIN paid' = DOMAIN paid
        BY <2>a, <2>b, <3>1, <3>2, <3>3
      <3>6. \A p \in DOMAIN paid' : paid'[p] = IF p = anchor THEN m ELSE paid[p]
        BY <2>a, <2>b, <3>1, <3>2, <3>3
      <3>7. paid' = book
        BY <2>a, <2>b, <3>4, <3>5, <3>6, SameBook
      <3>8. Book!Correct(anchor, m)
        BY <3>1, <3>4, <3>7 DEF Book!Correct, Book!Positive
      <3>. QED BY <3>8 DEF Book!Next, Anchors
    <2>3. ASSUME NEW asked \in Named, unsettle(asked)
          PROVE  Book!Next
      <3> DEFINE anchor == AnchorOf[asked]
                 book == [q \in DOMAIN paid \ {anchor} |-> paid[q]]
      <3>1. PICK s \in settlements : /\ s.period = anchor
                                     /\ settlements' = settlements \ {s}
                                     /\ amount' = amount
        BY <2>3 DEF unsettle
      <3>2. anchor \in DOMAIN paid
        BY <2>a, <3>1
      <3>3. DOMAIN paid' = DOMAIN book
        BY <2>a, <2>b, <3>1
      <3>4. \A p \in DOMAIN paid' : paid'[p] = book[p]
        BY <2>a, <2>b, <3>1, <3>3
      <3>5. paid' = book
        BY <2>b, <3>3, <3>4, SameBook
      <3>6. Book!Undo(anchor)
        BY <3>1, <3>2, <3>5 DEF Book!Undo
      <3>. QED BY <3>6 DEF Book!Next, Anchors
    <2>4. ASSUME NEW m \in Money, change_amount(m)
          PROVE  Book!Next
      <3>1. Book!Recommit(m)
        BY <2>4 DEF change_amount, Book!Recommit, Book!Positive, paid
      <3>. QED BY <3>1 DEF Book!Next
    <2>5. ASSUME UNCHANGED <<amount, settlements>>
          PROVE  UNCHANGED Book!vars
      BY <2>5 DEF Book!vars, paid
    <2>6. ASSUME NEW d \in Details, edit_details(d)
          PROVE  UNCHANGED <<amount, settlements>>
      BY <2>6 DEF edit_details
    <2>7. ASSUME NEW end \in Month \cup {Open}, end_after(end)
          PROVE  UNCHANGED <<amount, settlements>>
      BY <2>7 DEF end_after
    <2>8. ASSUME NEW start \in Month, start_from(start)
          PROVE  UNCHANGED <<amount, settlements>>
      BY <2>8 DEF start_from
    <2>9. CASE pause \/ resume \/ UNCHANGED vars
      BY <2>5, <2>9 DEF pause, resume, vars
    <2>. QED
      BY <2>1, <2>2, <2>3, <2>4, <2>5, <2>6, <2>7, <2>8, <2>9 DEF Next
  <1>. QED BY InitIInv, StepIInv, <1>1, <1>2, PTL DEF Spec, KeepsTheBook, Book!Spec
=============================================================================
