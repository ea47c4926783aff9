---------------------------- MODULE SpendingBook ----------------------------
(***************************************************************************)
(* What the use cases on categories, items and expenses promise, without   *)
(* sessions, statements and keys: between the moment it is asked and the   *)
(* moment it is answered, each command is carried out in one step, on the  *)
(* book as it then is, or not at all.  A command is one of Ledger's; ids   *)
(* in the book are never given out twice.                                  *)
(***************************************************************************)
CONSTANTS Requests, CategoryIds, ItemIds, ExpenseIds, KeyOf, Commands, None, Clear

VARIABLES categories,   \* id -> [owner, name, is_archived]
          items,        \* id -> [owner, name, is_archived]
          expenses,     \* id -> [owner, category, item, quantity, unit]
          known,        \* every id that was ever in the book
          asked         \* the command of each request, until it is answered

book == <<categories, items, expenses, known>>

vars == <<book, asked>>

Empty == [id \in {} |-> None]

Init == /\ categories = Empty
        /\ items = Empty
        /\ expenses = Empty
        /\ known = {}
        /\ asked = [r \in Requests |-> None]
-----------------------------------------------------------------------------
Mine(table, owner) == {id \in DOMAIN table : table[id].owner = owner}

Named(table, owner, name) == {id \in Mine(table, owner) : KeyOf[table[id].name] = KeyOf[name]}

Live(table, owner, id) == id \in Mine(table, owner) /\ ~table[id].is_archived

With(table, id, row) == [i \in DOMAIN table \cup {id} |-> IF i = id THEN row ELSE table[i]]

Without(table, id) == [i \in DOMAIN table \ {id} |-> table[i]]

Opened(owner, name) == [owner |-> owner, name |-> name, is_archived |-> FALSE]

InUse(owner, column, id) == \E e \in Mine(expenses, owner) : expenses[e][column] = id

\* In use, it is archived; otherwise it goes.
Removed(table, id, in_use) == IF in_use THEN [table EXCEPT ![id].is_archived = TRUE]
                              ELSE Without(table, id)
-----------------------------------------------------------------------------
create_category(c) ==
    /\ Named(categories, c.owner, c.name) = {}
    /\ \E id \in CategoryIds \ known :
          categories' = With(categories, id, Opened(c.owner, c.name))
    /\ UNCHANGED <<items, expenses>>

rename_category(c) ==
    /\ Live(categories, c.owner, c.category)
    /\ Named(categories, c.owner, c.name) \subseteq {c.category}
    /\ categories' = [categories EXCEPT ![c.category].name = c.name]
    /\ UNCHANGED <<items, expenses>>

archive_category(c) ==
    /\ Live(categories, c.owner, c.category)
    /\ categories' = [categories EXCEPT ![c.category].is_archived = TRUE]
    /\ UNCHANGED <<items, expenses>>

restore_category(c) ==
    /\ c.category \in Mine(categories, c.owner)
    /\ categories' = [categories EXCEPT ![c.category].is_archived = FALSE]
    /\ UNCHANGED <<items, expenses>>

remove_category(c) ==
    LET in_use == InUse(c.owner, "category", c.category)
    IN /\ c.category \in Mine(categories, c.owner)
       /\ in_use => ~categories[c.category].is_archived
       /\ categories' = Removed(categories, c.category, in_use)
       /\ UNCHANGED <<items, expenses>>

create_item(c) ==
    /\ Named(items, c.owner, c.name) = {}
    /\ \E id \in ItemIds \ known : items' = With(items, id, Opened(c.owner, c.name))
    /\ UNCHANGED <<categories, expenses>>

archive_item(c) ==
    /\ Live(items, c.owner, c.item)
    /\ items' = [items EXCEPT ![c.item].is_archived = TRUE]
    /\ UNCHANGED <<categories, expenses>>

restore_item(c) ==
    /\ c.item \in Mine(items, c.owner)
    /\ items' = [items EXCEPT ![c.item].is_archived = FALSE]
    /\ UNCHANGED <<categories, expenses>>

remove_item(c) ==
    LET in_use == InUse(c.owner, "item", c.item)
    IN /\ c.item \in Mine(items, c.owner)
       /\ in_use => ~items[c.item].is_archived
       /\ items' = Removed(items, c.item, in_use)
       /\ UNCHANGED <<categories, expenses>>
-----------------------------------------------------------------------------
\* The item an expense is about: the owner's one of that id, or of that name,
\* or a new one if there is none of that name.
Resolved(c, i) ==
    IF c.line \in {None, Clear} THEN i = None /\ UNCHANGED items
    ELSE /\ c.line.quantity \notin {None, 0} /\ c.line.unit # None
         /\ IF c.line.item # None
            THEN i = c.line.item /\ i \in Mine(items, c.owner) /\ UNCHANGED items
            ELSE \/ i \in Named(items, c.owner, c.line.name) /\ UNCHANGED items
                 \/ /\ Named(items, c.owner, c.line.name) = {}
                    /\ i \in ItemIds \ known
                    /\ items' = With(items, i, Opened(c.owner, c.line.name))

Measured(c, i, column) == IF i = None THEN None ELSE c.line[column]

\* The category was live and the item the owner's, in the same step.
record(c) ==
    /\ Live(categories, c.owner, c.category)
    /\ \E e \in ExpenseIds \ known, i \in ItemIds \cup {None} :
          /\ Resolved(c, i)
          /\ expenses' = With(expenses, e,
                [owner |-> c.owner, category |-> c.category, item |-> i,
                 quantity |-> Measured(c, i, "quantity"), unit |-> Measured(c, i, "unit")])
    /\ UNCHANGED categories

update(c) ==
    LET old == expenses[c.expense]
    IN /\ c.expense \in Mine(expenses, c.owner)
       /\ c.category # None => Live(categories, c.owner, c.category)
       /\ \E i \in ItemIds \cup {None} :
             /\ Resolved(c, i)
             /\ expenses' = [expenses EXCEPT ![c.expense] = [old EXCEPT
                   !.category = IF c.category = None THEN old.category ELSE c.category,
                   !.item     = IF c.line = None THEN old.item ELSE i,
                   !.quantity = IF c.line = None THEN old.quantity ELSE Measured(c, i, "quantity"),
                   !.unit     = IF c.line = None THEN old.unit ELSE Measured(c, i, "unit")]]
       /\ UNCHANGED categories

delete(c) ==
    /\ c.expense \in Mine(expenses, c.owner)
    /\ expenses' = Without(expenses, c.expense)
    /\ UNCHANGED <<categories, items>>
-----------------------------------------------------------------------------
\* Command c is carried out.
Do(c) == /\ \/ c.op = "create_category"  /\ create_category(c)
            \/ c.op = "rename_category"  /\ rename_category(c)
            \/ c.op = "archive_category" /\ archive_category(c)
            \/ c.op = "restore_category" /\ restore_category(c)
            \/ c.op = "remove_category"  /\ remove_category(c)
            \/ c.op = "create_item"      /\ create_item(c)
            \/ c.op = "archive_item"     /\ archive_item(c)
            \/ c.op = "restore_item"     /\ restore_item(c)
            \/ c.op = "remove_item"      /\ remove_item(c)
            \/ c.op = "record"           /\ record(c)
            \/ c.op = "update"           /\ update(c)
            \/ c.op = "delete"           /\ delete(c)
         /\ known' = known \cup DOMAIN categories' \cup DOMAIN items' \cup DOMAIN expenses'

ask(r, c) == /\ asked[r] = None
             /\ asked' = [asked EXCEPT ![r] = c]
             /\ UNCHANGED book

answer(r) == /\ asked[r] # None
             /\ asked' = [asked EXCEPT ![r] = None]
             /\ Do(asked[r]) \/ UNCHANGED book

Next == \E r \in Requests : (\E c \in Commands : ask(r, c)) \/ answer(r)

Spec == Init /\ [][Next]_vars
=============================================================================
