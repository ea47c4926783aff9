----------------------------- MODULE MCListing -----------------------------
EXTENDS Listing

E(y, m, d) == [calendar |-> Ethiopian, date |-> [year |-> y, month |-> m, day |-> d]]
G(y, m, d) == [calendar |-> Gregorian, date |-> toordinal(y, m, d)]

Dates == {E(2018, 13, 5), E(2018, 13, 6), E(2019, 1, 1), G(2026, 9, 10), G(1, 1, 1)}

Sugar(u, q) == [item |-> "sugar", unit |-> u, quantity |-> q]
Bought == {Sugar("kg", 2), Sugar("bag", 1)}

Buy(t, n, c, l) == [spent_on |-> t, amount |-> n, category_id |-> c, line |-> l]

\* The last day of 2018, typed in both calendars, the day after it, a day that
\* does not exist, and a slip of the hand before the Ethiopian year 1.
Shopping == {Buy(E(2018, 13, 5), 5, "food", Sugar("kg", 2)),
             Buy(G(2026, 9, 10), 5, "food", Sugar("bag", 1)),
             Buy(E(2019, 1, 1), 5, "rent", None), Buy(E(2018, 13, 6), 5, "rent", None),
             Buy(G(1, 1, 1), 5, "food", None)}

\* The only edit moves an expense, reprices and refiles it and drops its line.
Edits == {Buy(E(2019, 1, 1), 7, "food", None)}

AroundNewYear ==
    {[calendar |-> Ethiopian, year |-> 2018, month |-> 13],
     [calendar |-> Ethiopian, year |-> 2019, month |-> 1],
     [calendar |-> Gregorian, year |-> 2026, month |-> 9],
     [calendar |-> Gregorian, year |-> 1, month |-> 1]}

\* The food bought up to the first day of 2019; and what was bought in Pagumen
\* 2018, whatever loose date comes with it.
Screens ==
    {[period |-> None, since |-> None, until |-> E(2019, 1, 1), category_ids |-> {"food"}],
     [period |-> [calendar |-> Ethiopian, year |-> 2018, month |-> 13],
      since |-> E(2019, 1, 1), until |-> None, category_ids |-> {}]}
=============================================================================
