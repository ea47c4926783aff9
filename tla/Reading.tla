------------------------------ MODULE Reading ------------------------------
(***************************************************************************)
(* The requests that only read, beside those that write: a page of the     *)
(* expenses, one expense, the month's item usage, and the answer a use     *)
(* case builds after its own commit.  Each reads the expenses first and    *)
(* the categories and items they refer to by later statements, in one      *)
(* session but, at READ COMMITTED, not in one snapshot.                    *)
(*                                                                         *)
(* One reader is followed among those there are.  A query is [op, owner,   *)
(* expense].  Which expenses are on a page, its count and its total belong *)
(* to Listing; the units, which do not change, are not looked up; of a     *)
(* name it only matters whether the response has it.                       *)
(***************************************************************************)
EXTENDS Ledger

CONSTANT Queries

QueryOps == {"list", "get", "item_usage"}

ASSUME QueryAssumption == \A q \in Queries : q.op \in QueryOps

\* `found` is the expenses as they were read, `named` the categories and items
\* looked up for them, `shown` the response.  `overtaken` remembers which of
\* `found` were deleted or refer elsewhere by now.
VARIABLE reader

varsReading == <<rows, minted, session, reader>>

AtRest == [cmd |-> None, pc |-> "done", found |-> NoRows, named |-> {},
           shown |-> {}, overtaken |-> {}]

Finished == {"done", "not_found", "failed"}

InitReading == Init /\ reader = AtRest
-----------------------------------------------------------------------------
(* What the statements find.                                               *)

\* A mutant, as are the operators below whose name says what they get wrong.
list_for_owner_LiveOnly(owner, table) ==
    {id \in OwnedBy(owner, table) : ~rows[id].is_archived}

\* The pickers leave the archived ones out; whoever names what was recorded
\* under them asks for those too (include_archived=True).
list_for_owner(owner, table) == OwnedBy(owner, table)

\* The categories or items the expenses in hand refer to, if the owner has them.
Referred_LiveOnly(table, column) ==
    {id \in OwnedBy(reader.cmd.owner, table) \cap
            {reader.found[e][column] : e \in DOMAIN reader.found} : ~rows[id].is_archived}

Referred(table, column) == OwnedBy(reader.cmd.owner, table) \cap
                           {reader.found[e][column] : e \in DOMAIN reader.found}

Loaded(ids) == [e \in ids |-> rows[e]]

Read(pc, s) == /\ reader.pc = pc
               /\ reader' = s
               /\ UNCHANGED vars

\* An expense as it was read stands while its row says the same of its owner,
\* category and item.
Stands(e, row, table) == /\ e \in DOMAIN table
                         /\ table[e].owner = row.owner
                         /\ table[e].category = row.category
                         /\ table[e].item = row.item

Noticed(s) == IF s.pc \in Finished THEN s
              ELSE [s EXCEPT !.overtaken =
                      @ \cup {e \in DOMAIN s.found : ~Stands(e, s.found[e], rows')}]
-----------------------------------------------------------------------------
(* ExpenseView and ItemUsageLine: whether each name is filled in.          *)

ExpenseView(s, e, category, item) ==
    [expense |-> e, item |-> s.found[e].item,
     category_name |-> category # None, item_name |-> item # None]

\* dict.get, from what was listed.
by_id(s, id) == IF id \in s.named THEN id ELSE None

Page(s) == {ExpenseView(s, e, by_id(s, s.found[e].category), by_id(s, s.found[e].item)) :
              e \in DOMAIN s.found}

\* One expense, whose category and item are in hand.
Resolved(s) == {ExpenseView(s, e, s.found[e].category, s.found[e].item) : e \in DOMAIN s.found}

\* GROUP BY item and unit; a line whose item is not among those listed is skipped.
UsageLines(s) ==
    {l \in {[item |-> s.found[e].item, unit |-> s.found[e].unit] : e \in DOMAIN s.found} :
        l.item \in s.named}

Shown(s, response) == [s EXCEPT !.pc = "done", !.shown = response]
-----------------------------------------------------------------------------
ask(q) == /\ reader.pc \in Finished
          /\ reader' = [AtRest EXCEPT !.cmd = q, !.pc = q.op]
          /\ UNCHANGED vars

\* The rows are built into expenses as they are loaded; one that cannot be is a
\* ValidationError, whatever else there is on the page.
Load(ids, s) ==
    IF \A e \in ids : validate_item_line(rows[e]) THEN [s EXCEPT !.found = Loaded(ids)]
    ELSE [reader EXCEPT !.pc = "failed"]

\* ExpenseService.list: the page; then every category, then every item.
list == Read("list", Load(OwnedBy(reader.cmd.owner, ExpenseIds),
                          [reader EXCEPT !.pc = "categories"]))

categories ==
    Read("categories", [reader EXCEPT !.pc = "items",
                                !.named = list_for_owner(reader.cmd.owner, CategoryIds)])

items ==
    LET s == [reader EXCEPT !.named = @ \cup list_for_owner(reader.cmd.owner, ItemIds)]
    IN Read("items", Shown(s, IF s.cmd.op = "item_usage" THEN UsageLines(s) ELSE Page(s)))

\* ItemUsageService.for_period: one statement sums up, the next lists the items.
item_usage ==
    LET counted == {e \in OwnedBy(reader.cmd.owner, ExpenseIds) :
                       rows[e].item # None /\ rows[e].unit # None}
    IN Read("item_usage", [reader EXCEPT !.pc = "items", !.found = Loaded(counted)])

NotFound(s) == [s EXCEPT !.pc = "not_found"]

get ==
    LET mine == OwnedBy(reader.cmd.owner, ExpenseIds) \cap {reader.cmd.expense}
    IN Read("get", IF mine = {} THEN NotFound(reader)
                   ELSE Load(mine, [reader EXCEPT !.pc = "category"]))

\* The category is in hand; the item is looked up if there is one.
AfterCategory(s) ==
    IF \E e \in DOMAIN s.found : s.found[e].item # None THEN [s EXCEPT !.pc = "item"]
    ELSE Shown(s, Resolved(s))

\* CategoryNotFound and ItemNotFound.
category == Read("category", IF Referred(CategoryIds, "category") = {} THEN NotFound(reader)
                             ELSE AfterCategory(reader))

item == Read("item", IF Referred(ItemIds, "item") = {} THEN NotFound(reader)
                     ELSE Shown(reader, Resolved(reader)))

\* What record and update still read to answer: the category only when the use
\* case has not loaded it, and the item.  `found` is the expense they hold.
answer(r) ==
    LET s        == session[r]
        asked(e) == [AtRest EXCEPT
                       !.cmd = [op |-> "get", owner |-> s.cmd.owner, expense |-> e],
                       !.pc = "category",
                       !.found = [x \in {e} |-> s.now[x]]]
    IN /\ reader.pc \in Finished
       /\ s.cmd # None /\ s.cmd.op \in {"record", "update"}
       /\ Dirty(s) \subseteq DOMAIN rows /\ Constraints(Synchronised(s))
       /\ commit(r)
       /\ \E e \in ExpenseIds \cap DOMAIN s.now :
             reader' = IF s.category = None THEN Noticed(asked(e))
                       ELSE AfterCategory(Noticed(asked(e)))

write == Next /\ reader' = Noticed(reader)

query == list \/ categories \/ items \/ item_usage \/ get \/ category \/ item

NextReading == \/ write
               \/ \E q \in Queries : ask(q)
               \/ query
               \/ \E r \in Requests : answer(r)

SpecReading == InitReading /\ [][NextReading]_varsReading
-----------------------------------------------------------------------------
\* Archived or renamed, measured in whatever unit: what was recorded under a
\* category or an item keeps its name on every page and its line in every
\* report ("archived rather than deleted ... so past reports stay readable",
\* items.py:3-4), unless the expense itself was deleted or re-filed while the
\* request was reading.
NamedUnlessOvertaken ==
    reader.pc = "done" =>
        \A e \in DOMAIN reader.found \ reader.overtaken :
            IF reader.cmd.op = "item_usage"
            THEN \E l \in reader.shown : /\ l.item = reader.found[e].item
                                         /\ l.unit = reader.found[e].unit
            ELSE \E v \in reader.shown : /\ v.expense = e
                                         /\ v.category_name
                                         /\ v.item # None => v.item_name

\* A request that has an expense in hand, the one that just committed it
\* included, ends in "not found" only if that expense was deleted or re-filed
\* by another one since (expenses.py:146-163).
FoundUnlessOvertaken ==
    reader.pc = "not_found" => DOMAIN reader.found \subseteq reader.overtaken
=============================================================================
