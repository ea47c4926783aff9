------------------------------ MODULE MCLedger ------------------------------
EXTENDS Ledger

CONSTANTS o1, o2, r1, r2, r3, c1, c2, i1, i2, e1, e2, kg

Folded == [n \in {"Food", "FOOD", "Drinks"} |-> IF n = "Drinks" THEN "drinks" ELSE "food"]

Ask(op, owner) == [op |-> op, owner |-> owner, expense |-> None, category |-> None,
                   name |-> None, line |-> None, item |-> None]

Record(o, c, l)  == [Ask("record", o) EXCEPT !.category = c, !.line = l]
Update(o, c, l)  == [Ask("update", o) EXCEPT !.expense = e1, !.category = c, !.line = l]
Delete(o)        == [Ask("delete", o) EXCEPT !.expense = e1]
NewCategory(o, n) == [Ask("create_category", o) EXCEPT !.name = n]
Rename(o, c, n)  == [Ask("rename_category", o) EXCEPT !.category = c, !.name = n]
OnCategory(op, o, c) == [Ask(op, o) EXCEPT !.category = c]
NewItem(o, n)    == [Ask("create_item", o) EXCEPT !.name = n]
OnItem(op, o, i) == [Ask(op, o) EXCEPT !.item = i]

ById(i, q)   == [item |-> i, name |-> None, quantity |-> q, unit |-> kg]
ByName(n, q) == [item |-> None, name |-> n, quantity |-> q, unit |-> kg]

\* One owner's items and item lines.
Lines == {NewCategory(o1, "Food"), NewItem(o1, "Food"), Record(o1, c1, None),
          Record(o1, c1, ByName("FOOD", 1)), Update(o1, None, ByName("Food", 2)),
          Update(o1, None, ById(i1, 1)), Update(o1, None, ById(i1, 0)),
          Update(o1, None, Clear), Delete(o1)}
         \cup {OnItem(op, o1, i1) : op \in {"archive_item", "restore_item", "remove_item"}}

\* One owner's categories, and what is filed under them.
Filing == {NewCategory(o1, n) : n \in {"Food", "Drinks"}}
          \cup {Rename(o1, c1, n) : n \in {"FOOD", "Drinks"}}
          \cup {OnCategory(op, o1, c1)
                : op \in {"archive_category", "restore_category", "remove_category"}}
          \cup {Record(o1, c1, None), Update(o1, c1, None), Update(o1, c2, None)}

\* One owner's expense, refiled and measured while its category and item change;
\* requests that wait for one another's rows; and another owner, who names the
\* first one's ids.
Meeting == {NewCategory(o1, "Food"), NewItem(o1, "Food"), Record(o1, c1, ByName("Food", 1)),
            Rename(o1, c1, "Drinks"), OnCategory("remove_category", o1, c1),
            OnItem("remove_item", o1, i1),
            Update(o1, None, ById(i1, 2)), Update(o1, c2, None), Delete(o1),
            NewCategory(o2, "Food"), Record(o2, c1, ById(i1, 1))}

Everything == Lines \cup Filing
=============================================================================
