------------------------------- MODULE Ledger ------------------------------
(***************************************************************************)
(* The use cases of the expense-tracking context, run by requests that     *)
(* overlap: one action per statement a use case sends to the database, in  *)
(* the order it sends them (next).  A command is                           *)
(*   [op, owner, expense, category, name, line, item]                      *)
(* with None where the client sent nothing; a line is Clear, or an item    *)
(* line [item, name, quantity, unit] naming an item by id or by name.      *)
(***************************************************************************)
EXTENDS Store

CONSTANT Clear

Ops == {"record", "update", "delete", "create_category", "rename_category",
        "archive_category", "restore_category", "remove_category",
        "create_item", "archive_item", "restore_item", "remove_item"}

\* A mutant, as are the operators below whose name says what they get wrong.
has_item_ById(c) == c.line \notin {None, Clear} /\ c.line.item # None

\* ItemLine.is_present.
has_item(c) == c.line \notin {None, Clear}

Line == [item : ItemIds \cup {None}, name : Names \cup {None},
         quantity : Quantities \cup {None}, unit : Units \cup {None}]

Command == [op : Ops, owner : Owners, expense : ExpenseIds \cup {None},
            category : CategoryIds \cup {None}, name : Names \cup {None},
            line : Line \cup {None, Clear}, item : ItemIds \cup {None}]

\* What the request schemas let through; a command has the fields of its use case.
ASSUME CommandAssumption ==
    /\ Commands \subseteq Command
    /\ None \notin Commands /\ Clear # None
    /\ \A c \in Commands :
          /\ c.op \in {"create_category", "rename_category", "create_item"} => c.name \in Names
          /\ has_item(c) /\ c.line.item = None => c.line.name \in Names
          /\ c.expense # None => c.op \in {"update", "delete"}
          /\ c.category # None => c.op \in {"record", "update", "rename_category",
                                           "archive_category", "restore_category",
                                           "remove_category"}
          /\ c.item # None => c.op \in {"archive_item", "restore_item", "remove_item"}
          /\ c.line # None => c.op \in {"record", "update"}

first(c) == CASE c.op \in {"update", "delete"}  -> "get_expense"
              [] c.op = "record"                -> "use_category"
              [] c.op = "create_category"       -> "list_categories"
              [] c.op \in {"rename_category", "archive_category", "restore_category",
                           "remove_category"}   -> "get_category"
              [] c.op = "create_item"           -> "list_items"
              [] c.op \in {"archive_item", "restore_item", "remove_item"} -> "get_item"

next(c, pc) ==
    CASE pc = "get_expense" /\ c.category # None               -> "use_category"
      [] pc = "get_expense" /\ c.category = None /\ has_item(c) -> "resolve_item"
      [] pc = "use_category" /\ has_item(c)                    -> "resolve_item"
      [] pc = "use_category" /\ ~has_item(c) /\ c.op = "record" -> "insert_expense"
      [] pc = "resolve_item" /\ c.op = "record"                -> "insert_expense"
      [] pc = "get_category" /\ c.op = "rename_category"       -> "list_categories"
      [] pc = "get_category" /\ c.op = "remove_category"       -> "count_for_category"
      [] pc = "list_categories" /\ c.op = "create_category"    -> "insert_category"
      [] pc = "get_item" /\ c.op = "remove_item"               -> "count_for_item"
      [] pc = "list_items"                                     -> "insert_item"
      [] OTHER                                                 -> "commit"

\* The use case goes on to its next statement with s, or raises.
advance(s) == [s EXCEPT !.pc = next(s.cmd, s.pc)]

Proceed(r, ok, s) == IF ok THEN Continue(r, advance(s)) ELSE End(r)

begin(r, c) == /\ session[r] = Idle
               /\ session' = [session EXCEPT ![r] = [Idle EXCEPT !.cmd = c, !.pc = first(c)]]
               /\ UNCHANGED <<rows, minted>>
-----------------------------------------------------------------------------
(* Expense: the edits of the aggregate, and its use cases.                 *)

recategorise(e, category) == [e EXCEPT !.category = category]

set_item_Swapped(e, item, line) == [e EXCEPT !.item = item, !.quantity = line.unit,
                                             !.unit = line.quantity]

set_item(e, item, line) == [e EXCEPT !.item = item, !.quantity = line.quantity,
                                     !.unit = line.unit]

clear_item_KeepsUnit(e) == [e EXCEPT !.item = None, !.quantity = None]

clear_item(e) == [e EXCEPT !.item = None, !.quantity = None, !.unit = None]

ensure_category_usable_Always(row) == TRUE

ensure_category_usable(row) == ~row.is_archived

\* The edits of an expense commute: its line is dropped as soon as it is loaded.
get_expense(r) ==
    LET c == session[r].cmd
        s == rehydrate(session[r], {c.expense})
    IN /\ session[r].pc = "get_expense"
       /\ Proceed(r, /\ c.expense \in OwnedBy(c.owner, ExpenseIds)
                     /\ validate_item_line(rows[c.expense]),
                  IF c.op = "delete" THEN delete(s, c.expense)
                  ELSE IF c.line = Clear
                  THEN Edit(s, c.expense, clear_item(s.now[c.expense]))
                  ELSE s)

use_category(r) ==
    LET c == session[r].cmd
        s == [rehydrate(session[r], {c.category}) EXCEPT !.category = c.category]
    IN /\ session[r].pc = "use_category"
       /\ Proceed(r, /\ c.category \in OwnedBy(c.owner, CategoryIds)
                     /\ ensure_category_usable(s.now[c.category]),
                  IF c.op = "update"
                  THEN Edit(s, c.expense, recategorise(s.now[c.expense], c.category))
                  ELSE s)

\* The item line is resolved to `item`, an aggregate of this session.
WithItem(s, item) ==
    IF s.cmd.op = "update"
    THEN Edit(s, s.cmd.expense, set_item(s.now[s.cmd.expense], item, s.cmd.line))
    ELSE [s EXCEPT !.item = item]

NewBucket(owner, name) == [owner |-> owner, name |-> name, key |-> KeyOf[name],
                           is_archived |-> FALSE]

\* resolve_or_create: the owner's items of that name, archived ones included.
Reusable(owner, name) ==
    {i \in OwnedBy(owner, ItemIds) : KeyOf[rows[i].name] = KeyOf[name]}

\* The code measures the line last: an item inserted for one that is refused goes
\* with the rollback, and the request ends here as well.
resolve_item(r) ==
    LET c      == session[r].cmd
        mine   == OwnedBy(c.owner, ItemIds)
        same   == Reusable(c.owner, c.line.name)
        listed == rehydrate(session[r], mine)
        row    == NewBucket(c.owner, c.line.name)
    IN /\ session[r].pc = "resolve_item"
       /\ IF ~measured(c.line) THEN End(r)
          ELSE IF c.line.item # None
          THEN Proceed(r, c.line.item \in mine,
                       WithItem(rehydrate(session[r], {c.line.item}), c.line.item))
          ELSE IF same # {}
          THEN \E item \in same : Continue(r, advance(WithItem(listed, item)))
          ELSE \E item \in Fresh(ItemIds) :
                  insert(r, item, row, advance(WithItem(Added(listed, item, row), item)))

insert_expense(r) ==
    LET s     == session[r]
        plain == [owner |-> s.cmd.owner, category |-> s.category, item |-> None,
                  quantity |-> None, unit |-> None]
        row   == IF s.item = None THEN plain ELSE set_item(plain, s.item, s.cmd.line)
    IN /\ s.pc = "insert_expense"
       /\ \E e \in Fresh(ExpenseIds) : insert(r, e, row, advance(Added(s, e, row)))
-----------------------------------------------------------------------------
(* Category and its use cases.                                             *)

rename_KeepsKey(row, name) == [row EXCEPT !.name = name]

rename(row, name) == [row EXCEPT !.name = name, !.key = KeyOf[name]]
archive(row) == [row EXCEPT !.is_archived = TRUE]
restore(row) == [row EXCEPT !.is_archived = FALSE]

\* ensure_name_is_free, against the aggregates of this session.
ensure_name_is_free(s, existing, name) ==
    \A i \in existing : KeyOf[s.now[i].name] # KeyOf[name]

get_category(r) ==
    LET c   == session[r].cmd
        s   == rehydrate(session[r], {c.category})
        row == s.now[c.category]
    IN /\ session[r].pc = "get_category"
       /\ Proceed(r, /\ c.category \in OwnedBy(c.owner, CategoryIds)
                     /\ c.op = "archive_category" => ~row.is_archived,
                  CASE c.op = "archive_category" -> Edit(s, c.category, archive(row))
                    [] c.op = "restore_category" -> Edit(s, c.category, restore(row))
                    [] OTHER                     -> s)

list_categories(r) ==
    LET c        == session[r].cmd
        existing == OwnedBy(c.owner, CategoryIds)
        s        == rehydrate(session[r], existing)
    IN /\ session[r].pc = "list_categories"
       /\ Proceed(r, /\ ensure_name_is_free(s, existing \ {c.category}, c.name)
                     /\ c.op = "rename_category" => ~s.now[c.category].is_archived,
                  IF c.op = "rename_category"
                  THEN Edit(s, c.category, rename(s.now[c.category], c.name))
                  ELSE s)

insert_category(r) ==
    LET c == session[r].cmd
    IN /\ session[r].pc = "insert_category"
       /\ \E id \in Fresh(CategoryIds) :
             LET row == NewBucket(c.owner, c.name)
             IN insert(r, id, row, advance(Added(session[r], id, row)))

\* COUNT, over the expenses of the owner.
InUse(owner, column, id) ==
    \E e \in OwnedBy(owner, ExpenseIds) : rows[e][column] = id

count_for_category(r) ==
    LET s  == session[r]
        id == s.cmd.category
        in_use == InUse(s.cmd.owner, "category", id)
    IN /\ session[r].pc = "count_for_category"
       /\ Proceed(r, in_use => ~s.now[id].is_archived,
                  IF in_use THEN Edit(s, id, archive(s.now[id])) ELSE delete(s, id))

get_item(r) ==
    LET c   == session[r].cmd
        s   == rehydrate(session[r], {c.item})
        row == s.now[c.item]
    IN /\ session[r].pc = "get_item"
       /\ Proceed(r, /\ c.item \in OwnedBy(c.owner, ItemIds)
                     /\ c.op = "archive_item" => ~row.is_archived,
                  CASE c.op = "archive_item" -> Edit(s, c.item, archive(row))
                    [] c.op = "restore_item" -> Edit(s, c.item, restore(row))
                    [] OTHER                 -> s)

list_items(r) ==
    LET c        == session[r].cmd
        existing == OwnedBy(c.owner, ItemIds)
        s        == rehydrate(session[r], existing)
    IN /\ session[r].pc = "list_items"
       /\ Proceed(r, ensure_name_is_free(s, existing, c.name), s)

insert_item(r) ==
    LET c == session[r].cmd
    IN /\ session[r].pc = "insert_item"
       /\ \E id \in Fresh(ItemIds) :
             LET row == NewBucket(c.owner, c.name)
             IN insert(r, id, row, advance(Added(session[r], id, row)))

count_for_item(r) ==
    LET s  == session[r]
        id == s.cmd.item
        in_use == InUse(s.cmd.owner, "item", id)
    IN /\ session[r].pc = "count_for_item"
       /\ Proceed(r, in_use => ~s.now[id].is_archived,
                  IF in_use THEN Edit(s, id, archive(s.now[id])) ELSE delete(s, id))
-----------------------------------------------------------------------------
statement(r) == \/ get_expense(r) \/ use_category(r) \/ resolve_item(r)
                \/ insert_expense(r)
                \/ get_category(r) \/ list_categories(r) \/ insert_category(r)
                \/ count_for_category(r)
                \/ get_item(r) \/ list_items(r) \/ insert_item(r) \/ count_for_item(r)
                \/ commit(r)

Next == \E r \in Requests : \/ \E c \in Commands : begin(r, c)
                            \/ statement(r)
                            \/ crash(r)

Spec == Init /\ [][Next]_vars

\* The bound of the model: r stands at an insert, and every id of that table has
\* been used up.  Real uuids do not run out.
OutOfIds(r) ==
    LET s == session[r]
    IN \/ s.pc = "insert_category" /\ CategoryIds \subseteq minted
       \/ s.pc = "insert_expense" /\ ExpenseIds \subseteq minted
       \/ s.pc = "insert_item" /\ ItemIds \subseteq minted
       \/ /\ s.pc = "resolve_item" /\ ItemIds \subseteq minted
          /\ s.cmd.line.item = None /\ Reusable(s.cmd.owner, s.cmd.line.name) = {}

\* A thread of the pool goes on, the database answers it, and a statement that
\* waits gets its turn when the lock it waits for is free again and again.
\* Nothing makes a request arrive or a process die, but one that the bound of
\* the model brings to a halt is given up, lest others wait for its rows.
FairSpec == Spec /\ \A r \in Requests : /\ SF_vars(statement(r))
                                       /\ WF_vars(OutOfIds(r) /\ crash(r))
-----------------------------------------------------------------------------
Row(id) == CASE id \in CategoryIds -> CategoryRow
             [] id \in ItemIds     -> ItemRow
             [] id \in ExpenseIds  -> ExpenseRow

\* Every row is one its table accepts, and a session only ever holds rows that
\* were committed, and ids nobody else has committed: an insert is flushed at
\* once (repository.py:72-83) but its id stays its own until the commit.
TypeOK ==
    /\ minted \subseteq Ids
    /\ DOMAIN rows \subseteq minted
    /\ \A id \in DOMAIN rows : rows[id] \in Row(id)
    /\ DOMAIN session = Requests
    /\ \A r \in Requests :
          LET s == session[r]
          IN /\ s.cmd \in Commands \cup {None}
             /\ s.seen # Idle.seen => s.cmd # None
             /\ DOMAIN s.seen \subseteq minted
             /\ s.new \subseteq Ids \ minted
             /\ s.gone \subseteq DOMAIN s.seen
             /\ DOMAIN s.now = DOMAIN s.seen \cup s.new
             /\ \A id \in DOMAIN s.now : s.now[id] \in Row(id)

\* Whatever ids the clients of other owners send, and whatever was deleted
\* since a request looked, an expense is filed under a category and an item
\* of its own owner ("Every record touched by a use case must belong to the
\* calling Owner", policies.py:40-51).
OwnersStayApart ==
    \A e \in ExpenseIds \cap DOMAIN rows :
        \A id \in {rows[e].category, rows[e].item} \ {None} :
            id \in DOMAIN rows /\ rows[id].owner = rows[e].owner

\* Two requests that add the same item by name at once do not both add it
\* (items.py:116-131 and the constraint behind it).
OneItemPerName ==
    \A i, j \in ItemIds \cap DOMAIN rows :
        /\ rows[i].owner = rows[j].owner
        /\ KeyOf[rows[i].name] = KeyOf[rows[j].name]
        => i = j

\* The columns a command may change in row id.
Asked(c, id) ==
    IF id = c.expense THEN (IF c.category = None THEN {} ELSE {"category"})
                           \cup (IF c.line = None THEN {} ELSE {"item", "quantity", "unit"})
    ELSE IF id \notin {c.category, c.item} THEN {}
    ELSE CASE c.op = "rename_category" -> {"name"}
           [] c.op \in {"archive_category", "archive_item", "remove_category",
                        "remove_item", "restore_category", "restore_item"} -> {"is_archived"}
           [] OTHER -> {}

\* Write-back touches what the use case was asked to change and nothing else,
\* however stale the rest of the aggregate it loaded: a rename never restores
\* a category archived meanwhile, a re-filing never puts back an item line.  A
\* row appears only for the owner who asked, and goes only when one asks for
\* that.  (name_key, which every write-back recomputes, is left out.)
AnswersOnly(c) ==
    /\ \A id \in DOMAIN rows \cap DOMAIN rows' : \A col \in DOMAIN rows[id] \ {"key"} :
          rows'[id][col] # rows[id][col] => col \in Asked(c, id)
    /\ \A id \in DOMAIN rows' \ DOMAIN rows : rows'[id].owner = c.owner
    /\ \A id \in DOMAIN rows \ DOMAIN rows' :
          /\ c.op \in {"delete", "remove_category", "remove_item"}
          /\ id \in {c.expense, c.category, c.item}
          /\ rows[id].owner = c.owner

OnlyWhatWasAsked ==
    [][\E r \in Requests : /\ session[r] # Idle /\ session'[r] = Idle
                           /\ AnswersOnly(session[r].cmd)]_rows

\* Requests that wait for one another's rows are never stuck: every one of them
\* is answered (dependencies.py:38-48 ends the session of each).
Answered == \A r \in Requests : session[r] # Idle ~> session[r] = Idle

\* "All three are null together for a plain amount-only expense"
\* (models.py:101-102), or no use case can load the expense again.
ItemLinesWhole ==
    \A e \in ExpenseIds \cap DOMAIN rows : validate_item_line(rows[e])

\* "New spending may only be filed under a live Category; archived ones are
\* history only" (policies.py:55).
FiledUnderLiveCategories ==
    [][\A e \in ExpenseIds \cap DOMAIN rows' :
          LET c == rows'[e].category
          IN (IF e \in DOMAIN rows THEN rows[e].category # c ELSE TRUE)
             => ~rows'[c].is_archived]_rows

\* "categories.name_key holds the case-folded name" (models.py:12): what the
\* database compares is what the policy compares.
NameKeysFollowNames ==
    \A c \in CategoryIds \cap DOMAIN rows : rows[c].key = KeyOf[rows[c].name]

\* "Category names are unique per Owner, case-insensitively" (policies.py:24),
\* which name_key is there to back (models.py:12-13).
CategoryNamesUnique ==
    \A i, j \in CategoryIds \cap DOMAIN rows :
        /\ rows[i].owner = rows[j].owner
        /\ KeyOf[rows[i].name] = KeyOf[rows[j].name]
        => i = j
-----------------------------------------------------------------------------
\* A table as its owners see it: name_key is the database's.
Entry(row) == [column \in DOMAIN row \ {"key"} |-> row[column]]

Entries(table) == [id \in table \cap DOMAIN rows |-> Entry(rows[id])]

Book == INSTANCE SpendingBook WITH categories <- Entries(CategoryIds), items <- Entries(ItemIds),
                                   expenses <- Entries(ExpenseIds), known <- minted,
                                   asked <- [r \in Requests |-> session[r].cmd]

\* A request that nobody overtakes is carried out in one step, or not at all:
\* its statements, what they looked at and what happens to the process between
\* them show in the book at one moment, that of the commit (unit_of_work.py:58-63).
CarriedOutWhole == Book!Spec
=============================================================================
