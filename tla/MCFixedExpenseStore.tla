------------------------- MODULE MCFixedExpenseStore -------------------------
(* Pagumen 2018 and the months on either side of it.                         *)
EXTENDS FixedExpenseStore, TLC

CONSTANTS r1, r2, r3, s1, s2

Months == {C!index([calendar |-> C!Ethiopian, year |-> 2018, month |-> 13]) + i : i \in 0..1}

Birr == [minor : {1, 2}, currency : {"ETB"}]

Alike == Permutations({s1, s2}) \cup Permutations({r1, r2, r3})
=============================================================================
