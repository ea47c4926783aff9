--------------------------- MODULE MCFixedExpense ---------------------------
(* Rent over the Ethiopian new year of 2018/2019: Hamle to Tikimt, and July  *)
(* to October 2026, with AnchorOf computed by Calendar.  The other direction *)
(* anchors the same rent in the Gregorian months.                            *)
EXTENDS FixedExpense

C == INSTANCE Calendar

Et(y, m) == [calendar |-> C!Ethiopian, year |-> y, month |-> m]
Gr(y, m) == [calendar |-> C!Gregorian, year |-> y, month |-> m]

EtMonths == <<Et(2018, 11), Et(2018, 12), Et(2018, 13), Et(2019, 1)>>
GrMonths == <<Gr(2026, 7), Gr(2026, 8), Gr(2026, 9)>>

Items(s) == {s[i] : i \in DOMAIN s}
Asked == Items(EtMonths) \cup Items(GrMonths)

EtIndexes == {C!index(p) : p \in Items(EtMonths)}
GrIndexes == {C!index(p) : p \in Items(GrMonths)}

ToEthiopian == [p \in Asked |-> C!index(C!as_calendar(p, C!Ethiopian))]
ToGregorian == [p \in Asked |-> C!index(C!as_calendar(p, C!Gregorian))]

Amounts == [minor : 0..2, currency : {"ETB"}] \cup {[minor |-> 1, currency |-> "USD"]}
=============================================================================
