-------------------------- MODULE ReadingTheorems --------------------------
(***************************************************************************)
(* What a reader is told, for any number of requests that write meanwhile. *)
(* The invariant says what holds of the expenses in hand that nobody has   *)
(* overtaken: their rows still say the same (Unaltered), so the category   *)
(* and item they refer to are there, of the same owner (Referring); that   *)
(* they are is the isolation and the typing of the Ledger, which the       *)
(* reader does not disturb (LedgerGoesOn).                                 *)
(***************************************************************************)
EXTENDS Reading, LedgerTheorems

ReaderFields == {"cmd", "pc", "found", "named", "shown", "overtaken"}

\* The two properties, of any state of the reader.
Named(s) ==
    \A e \in DOMAIN s.found \ s.overtaken :
        IF s.cmd.op = "item_usage"
        THEN \E l \in s.shown : l.item = s.found[e].item /\ l.unit = s.found[e].unit
        ELSE \E v \in s.shown : /\ v.expense = e
                                /\ v.category_name
                                /\ v.item # None => v.item_name

\* The expenses in hand that still are what they were when they were read.
InHand(s, t) == \A e \in DOMAIN s.found \ s.overtaken :
                   /\ e \in ExpenseIds
                   /\ Stands(e, s.found[e], t)
                   /\ s.found[e].owner = s.cmd.owner

Unaltered(s, t) ==
    /\ DOMAIN s = ReaderFields
    /\ s.pc \notin Finished => InHand(s, t)
    /\ s.pc \in QueryOps => DOMAIN s.found = {} /\ s.pc = s.cmd.op
    /\ s.pc \in {"categories", "category", "item"} => s.cmd.op # "item_usage"
    /\ s.pc \in {"category", "item"} => \A e, f \in DOMAIN s.found : e = f
    /\ s.pc = "item" => \A e \in DOMAIN s.found : s.found[e].item # None
    /\ s.pc = "items" =>
          \A e \in DOMAIN s.found \ s.overtaken :
              IF s.cmd.op = "item_usage" THEN s.found[e].item # None
              ELSE s.found[e].category \in s.named
    /\ s.pc = "done" => Named(s)
    /\ s.pc = "not_found" => DOMAIN s.found \subseteq s.overtaken

RInv == TInv /\ Unaltered(reader, rows)
-----------------------------------------------------------------------------
\* Every step of the readers' specification is a step of the Ledger or leaves
\* it alone.
LEMMA LedgerGoesOn == [NextReading]_varsReading => [Next]_vars
<1> SUFFICES ASSUME [NextReading]_varsReading PROVE [Next]_vars
  OBVIOUS
<1>1. CASE UNCHANGED varsReading
  BY <1>1 DEF varsReading, vars
<1>2. CASE write
  BY <1>2 DEF write
<1>3. CASE \E q \in Queries : ask(q)
  BY <1>3 DEF ask
<1>4. CASE query
  BY <1>4 DEF query, list, categories, items, item_usage, get, category, item, Load, Read
<1>5. ASSUME NEW r \in Requests, answer(r) PROVE Next
  <2>1. statement(r)
    BY <1>5 DEF answer, statement
  <2> QED BY <2>1 DEF Next
<1> QED BY <1>1, <1>2, <1>3, <1>4, <1>5 DEF NextReading

\* What an expense refers to is there, and its owner's (policies.py:40-51).
LEMMA Referring ==
    ASSUME TInv, NEW s, InHand(s, rows), NEW e \in DOMAIN s.found \ s.overtaken
    PROVE  /\ s.found[e].category \in OwnedBy(s.cmd.owner, CategoryIds)
           /\ s.found[e].category # None
           /\ s.found[e].item # None => s.found[e].item \in OwnedBy(s.cmd.owner, ItemIds)
<1>1. /\ e \in ExpenseIds \cap DOMAIN rows
      /\ rows[e].owner = s.cmd.owner
      /\ rows[e].category = s.found[e].category /\ rows[e].item = s.found[e].item
  BY DEF InHand, Stands
<1>2. rows[e] \in ExpenseRow
  BY <1>1, Rows DEF TInv, RowsTyped
<1>3. rows[e].category \in CategoryIds /\ rows[e].item \in ItemIds \cup {None}
  BY <1>2 DEF ExpenseRow
<1>4. rows[e].category # None
  BY <1>3, Rows DEF Ids
<1>5. \A id \in {rows[e].category, rows[e].item} \ {None} :
         id \in DOMAIN rows /\ rows[id].owner = rows[e].owner
  BY <1>1 DEF TInv, IInv, OwnersStayApart
<1> QED BY <1>1, <1>3, <1>4, <1>5 DEF OwnedBy

\* A write overtakes exactly those that no longer stand.
LEMMA Noticing ==
    ASSUME NEW s, NEW n, n = Noticed(s), Unaltered(s, rows)
    PROVE  Unaltered(n, rows')
<1>1. CASE s.pc \in Finished
  <2>1. n = s
    BY <1>1 DEF Noticed
  <2> QED BY <1>1, <2>1 DEF Unaltered
<1>2. CASE s.pc \notin Finished
  <2>1. n = [s EXCEPT !.overtaken =
                @ \cup {e \in DOMAIN s.found : ~Stands(e, s.found[e], rows')}]
    BY <1>2 DEF Noticed
  <2>2. /\ DOMAIN n = ReaderFields
        /\ n.overtaken = s.overtaken \cup
              {e \in DOMAIN s.found : ~Stands(e, s.found[e], rows')}
        /\ n.found = s.found /\ n.pc = s.pc /\ n.cmd = s.cmd /\ n.named = s.named
    BY <2>1 DEF Unaltered, ReaderFields
  <2>3. InHand(n, rows')
    BY <1>2, <2>2 DEF Unaltered, InHand
  <2> QED BY <1>2, <2>2, <2>3 DEF Unaltered, Finished
<1> QED BY <1>1, <1>2

\* A finished reader asks again.
LEMMA Asking ==
    ASSUME NEW q \in Queries, NEW s, s = [AtRest EXCEPT !.cmd = q, !.pc = q.op]
    PROVE  Unaltered(s, rows)
<1>1. /\ DOMAIN s = ReaderFields /\ s.cmd = q /\ s.pc = q.op /\ DOMAIN s.found = {}
  BY DEF AtRest, ReaderFields, NoRows
<1>2. q.op \in QueryOps
  BY QueryAssumption
<1>3. InHand(s, rows)
  BY <1>1 DEF InHand
<1> QED BY <1>1, <1>2, <1>3 DEF Unaltered, QueryOps
-----------------------------------------------------------------------------
\* What every statement of a reader may rely on, and what it leaves alone.
LEMMA ReadingOn ==
    ASSUME RInv, NEW pc, NEW s, Read(pc, s), Unaltered(s, rows)
    PROVE  Unaltered(reader, rows)'
<1>1. rows' = rows /\ reader' = s
  BY DEF Read, vars
<1> QED BY <1>1 DEF Unaltered, InHand, Named

\* A row that cannot be built into an expense ends the request (expense.py:31-42).
LEMMA Refused ==
    ASSUME RInv
    PROVE  Unaltered([reader EXCEPT !.pc = "failed"], rows)
<1> DEFINE x == [reader EXCEPT !.pc = "failed"]
<1>1. DOMAIN x = ReaderFields /\ x.pc = "failed"
  BY DEF RInv, Unaltered, ReaderFields
<1> HIDE DEF x
<1>2. Unaltered(x, rows)
  BY <1>1 DEF Unaltered, Finished, QueryOps
<1> QED BY <1>2 DEF x

\* The page is read first (expenses.py:165-187), its expenses as they are.
LEMMA Listing ==
    ASSUME RInv, list
    PROVE  Unaltered(reader, rows)'
<1> DEFINE mine == OwnedBy(reader.cmd.owner, ExpenseIds)
           s == [[reader EXCEPT !.pc = "categories"] EXCEPT !.found = Loaded(mine)]
           x == [reader EXCEPT !.pc = "failed"]
<1>1. /\ DOMAIN s = ReaderFields /\ s.pc = "categories" /\ s.cmd = reader.cmd
      /\ s.found = [e \in mine |-> rows[e]] /\ s.overtaken = reader.overtaken
  BY DEF RInv, Unaltered, ReaderFields, Loaded
<1>2. reader.cmd.op = "list" /\ (Read("list", s) \/ Read("list", x))
  BY DEF list, Load, Read, RInv, Unaltered, QueryOps
<1>3. Unaltered(x, rows)
  BY Refused
<1> HIDE DEF s, x
<1>4. InHand(s, rows)
  BY <1>1 DEF InHand, Stands, OwnedBy
<1>5. Unaltered(s, rows)
  BY <1>1, <1>2, <1>4 DEF Unaltered, QueryOps
<1> QED BY <1>2, <1>3, <1>5, ReadingOn

\* Then every category of the owner, archived or not (expenses.py:188-192).
LEMMA NamingCategories ==
    ASSUME RInv, categories
    PROVE  Unaltered(reader, rows)'
<1> DEFINE s == [reader EXCEPT !.pc = "items",
                               !.named = list_for_owner(reader.cmd.owner, CategoryIds)]
<1>1. /\ DOMAIN s = ReaderFields /\ s.pc = "items" /\ s.cmd = reader.cmd
      /\ s.found = reader.found /\ s.overtaken = reader.overtaken
      /\ s.named = OwnedBy(reader.cmd.owner, CategoryIds)
  BY DEF RInv, Unaltered, ReaderFields, list_for_owner
<1>2. reader.cmd.op # "item_usage" /\ Read("categories", s) /\ InHand(reader, rows) /\ TInv
  BY DEF categories, Read, RInv, Unaltered, QueryOps, Finished
<1> HIDE DEF s
<1>3. InHand(s, rows)
  BY <1>1, <1>2 DEF InHand
<1>4. Unaltered(s, rows)
  BY <1>1, <1>2, <1>3, Referring DEF Unaltered, QueryOps
<1> QED BY <1>2, <1>4, ReadingOn

\* The lines of the month's item usage (item_usage.py:42-51).
LEMMA CountingUsage ==
    ASSUME RInv, item_usage
    PROVE  Unaltered(reader, rows)'
<1> DEFINE counted == {e \in OwnedBy(reader.cmd.owner, ExpenseIds) :
                          rows[e].item # None /\ rows[e].unit # None}
           s == [reader EXCEPT !.pc = "items", !.found = Loaded(counted)]
<1>1. /\ DOMAIN s = ReaderFields /\ s.pc = "items" /\ s.cmd = reader.cmd
      /\ s.found = [e \in counted |-> rows[e]] /\ s.overtaken = reader.overtaken
  BY DEF RInv, Unaltered, ReaderFields, Loaded
<1>2. reader.cmd.op = "item_usage" /\ Read("item_usage", s)
  BY DEF item_usage, Read, RInv, Unaltered, QueryOps
<1> HIDE DEF s
<1>3. InHand(s, rows)
  BY <1>1 DEF InHand, Stands, OwnedBy
<1>4. Unaltered(s, rows)
  BY <1>1, <1>2, <1>3 DEF Unaltered, QueryOps
<1> QED BY <1>2, <1>4, ReadingOn

\* One expense of the owner, or none (expenses.py:159-163).
LEMMA Getting ==
    ASSUME RInv, get
    PROVE  Unaltered(reader, rows)'
<1> DEFINE mine == OwnedBy(reader.cmd.owner, ExpenseIds) \cap {reader.cmd.expense}
           f == [[reader EXCEPT !.pc = "category"] EXCEPT !.found = Loaded(mine)]
           x == [reader EXCEPT !.pc = "failed"]
           n == NotFound(reader)
<1>1. /\ reader.cmd.op = "get" /\ DOMAIN reader.found = {}
      /\ Read("get", f) \/ Read("get", n) \/ Read("get", x)
  BY DEF get, Load, Read, RInv, Unaltered, QueryOps
<1>2. Unaltered(n, rows)
  <2>1. /\ DOMAIN n = ReaderFields /\ n.pc = "not_found" /\ n.found = reader.found
    BY DEF RInv, Unaltered, ReaderFields, NotFound
  <2> HIDE DEF n
  <2> QED BY <1>1, <2>1 DEF Unaltered, QueryOps, Finished
<1>3. Unaltered(f, rows)
  <2>1. /\ DOMAIN f = ReaderFields /\ f.pc = "category" /\ f.cmd = reader.cmd
        /\ f.found = [e \in mine |-> rows[e]]
    BY DEF RInv, Unaltered, ReaderFields, Loaded
  <2> HIDE DEF f
  <2>2. InHand(f, rows)
    BY <2>1 DEF InHand, Stands, OwnedBy
  <2> QED BY <1>1, <2>1, <2>2 DEF Unaltered, QueryOps
<1>4. Unaltered(x, rows)
  BY Refused
<1> HIDE DEF f, n, x
<1> QED BY <1>1, <1>2, <1>3, <1>4, ReadingOn
-----------------------------------------------------------------------------
\* The names are there, whatever was archived or renamed meanwhile.
LEMMA Answering ==
    ASSUME NEW s, NEW response, DOMAIN s = ReaderFields,
           Named([s EXCEPT !.shown = response])
    PROVE  \A t : Unaltered(Shown(s, response), t)
<1> DEFINE a == Shown(s, response)
           n == [s EXCEPT !.shown = response]
<1>1. /\ DOMAIN a = ReaderFields /\ a.pc = "done"
      /\ a.cmd = n.cmd /\ a.found = n.found /\ a.overtaken = n.overtaken /\ a.shown = n.shown
  BY DEF Shown, ReaderFields
<1> HIDE DEF a, n
<1>2. Named(a)
  BY <1>1 DEF Named, n
<1>3. ASSUME NEW t PROVE Unaltered(a, t)
  BY <1>1, <1>2 DEF Unaltered, QueryOps, Finished
<1> QED BY <1>3 DEF a

\* Then every item of the owner; the page or the report is complete
\* (expenses.py:193-218, item_usage.py:53-73).
LEMMA NamingItems ==
    ASSUME RInv, items
    PROVE  Unaltered(reader, rows)'
<1> DEFINE s == [reader EXCEPT !.named = @ \cup list_for_owner(reader.cmd.owner, ItemIds)]
           response == IF s.cmd.op = "item_usage" THEN UsageLines(s) ELSE Page(s)
           n == [s EXCEPT !.shown = response]
<1>1. /\ DOMAIN s = ReaderFields /\ s.cmd = reader.cmd /\ s.found = reader.found
      /\ s.overtaken = reader.overtaken
      /\ s.named = reader.named \cup OwnedBy(reader.cmd.owner, ItemIds)
      /\ n.cmd = s.cmd /\ n.found = s.found /\ n.overtaken = s.overtaken
      /\ n.shown = response
  BY DEF RInv, Unaltered, ReaderFields, list_for_owner
<1>2. /\ Read("items", Shown(s, response)) /\ InHand(reader, rows) /\ TInv
      /\ \A e \in DOMAIN reader.found \ reader.overtaken :
            IF reader.cmd.op = "item_usage" THEN reader.found[e].item # None
            ELSE reader.found[e].category \in reader.named
  BY DEF items, Read, RInv, Unaltered, QueryOps, Finished
<1>3. ASSUME NEW e \in DOMAIN n.found \ n.overtaken, n.cmd.op = "item_usage"
      PROVE  \E l \in n.shown : l.item = n.found[e].item /\ l.unit = n.found[e].unit
  <2> DEFINE l == [item |-> s.found[e].item, unit |-> s.found[e].unit]
  <2>1. s.found[e].item \in s.named
    <3> HIDE DEF s, n
    <3> QED BY <1>1, <1>2, <1>3, Referring
  <2>2. response = UsageLines(s) /\ e \in DOMAIN s.found
    BY <1>1, <1>3
  <2>3. l \in response
    <3> HIDE DEF s, response, n
    <3> QED BY <2>1, <2>2 DEF UsageLines
  <2> HIDE DEF s, response, n
  <2> QED BY <1>1, <2>3
<1>4. ASSUME NEW e \in DOMAIN n.found \ n.overtaken, n.cmd.op # "item_usage"
      PROVE  \E v \in n.shown : /\ v.expense = e
                                /\ v.category_name
                                /\ v.item # None => v.item_name
  <2> DEFINE v == ExpenseView(s, e, by_id(s, s.found[e].category), by_id(s, s.found[e].item))
  <2>1. /\ s.found[e].category \in s.named /\ s.found[e].category # None
        /\ s.found[e].item # None => s.found[e].item \in s.named
    <3> HIDE DEF s, n
    <3> QED BY <1>1, <1>2, <1>4, Referring
  <2>2. response = Page(s) /\ e \in DOMAIN s.found
    BY <1>1, <1>4
  <2>3. v \in response
    <3> HIDE DEF s, response, n
    <3> QED BY <2>2 DEF Page
  <2>4. v.expense = e /\ v.category_name /\ (v.item # None => v.item_name)
    <3> HIDE DEF s, response, n
    <3> QED BY <2>1 DEF ExpenseView, by_id
  <2> HIDE DEF s, response, n, v
  <2> QED BY <1>1, <2>3, <2>4
<1>5. Named(n)
  <2> HIDE DEF n
  <2> QED BY <1>3, <1>4 DEF Named
<1>6. Unaltered(Shown(s, response), rows)
  <2> HIDE DEF s, response
  <2> QED BY <1>1, <1>5, Answering
<1> HIDE DEF s, response
<1> QED BY <1>2, <1>6, ReadingOn

\* One expense whose category was found: its view has the name.
LEMMA Resolving ==
    ASSUME NEW s, DOMAIN s = ReaderFields, s.cmd.op # "item_usage",
           \A e \in DOMAIN s.found \ s.overtaken : s.found[e].category # None
    PROVE  \A t : Unaltered(Shown(s, Resolved(s)), t)
<1> DEFINE n == [s EXCEPT !.shown = Resolved(s)]
<1>1. /\ n.cmd = s.cmd /\ n.found = s.found /\ n.overtaken = s.overtaken
      /\ n.shown = Resolved(s)
  BY DEF ReaderFields
<1>2. ASSUME NEW e \in DOMAIN s.found \ s.overtaken
      PROVE  \E v \in Resolved(s) : /\ v.expense = e
                                    /\ v.category_name
                                    /\ v.item # None => v.item_name
  <2> DEFINE v == ExpenseView(s, e, s.found[e].category, s.found[e].item)
  <2>1. v \in Resolved(s)
    BY DEF Resolved
  <2>2. v.expense = e /\ v.category_name /\ (v.item # None => v.item_name)
    BY DEF ExpenseView
  <2> HIDE DEF v
  <2> QED BY <2>1, <2>2
<1>3. Named(n)
  <2> HIDE DEF n
  <2> QED BY <1>1, <1>2 DEF Named
<1> QED BY <1>3, Answering

\* Without an item that is all there is to look up.
LEMMA HavingCategory ==
    ASSUME NEW s, NEW t, DOMAIN s = ReaderFields, s.cmd.op # "item_usage", InHand(s, t),
           \A e, f \in DOMAIN s.found : e = f,
           \A e \in DOMAIN s.found \ s.overtaken : s.found[e].category # None
    PROVE  Unaltered(AfterCategory(s), t)
<1>1. CASE \E e \in DOMAIN s.found : s.found[e].item # None
  <2> DEFINE a == [s EXCEPT !.pc = "item"]
  <2>1. /\ DOMAIN a = ReaderFields /\ a.pc = "item" /\ a.cmd = s.cmd
        /\ a.found = s.found /\ a.overtaken = s.overtaken
    BY DEF ReaderFields
  <2>2. AfterCategory(s) = a
    BY <1>1 DEF AfterCategory
  <2>3. \A e \in DOMAIN s.found : s.found[e].item # None
    BY <1>1
  <2> HIDE DEF a
  <2>4. InHand(a, t)
    BY <2>1 DEF InHand
  <2>5. Unaltered(a, t)
    BY <2>1, <2>3, <2>4 DEF Unaltered, QueryOps, Finished
  <2> QED BY <2>2, <2>5
<1>2. CASE ~ \E e \in DOMAIN s.found : s.found[e].item # None
  <2>1. AfterCategory(s) = Shown(s, Resolved(s))
    BY <1>2 DEF AfterCategory
  <2> QED BY <2>1, Resolving
<1> QED BY <1>1, <1>2

\* The category of the expense in hand is still there, or the expense was
\* overtaken (expenses.py:82-93).
LEMMA FindingCategory ==
    ASSUME RInv, category
    PROVE  Unaltered(reader, rows)'
<1> DEFINE a == AfterCategory(reader)
           n == NotFound(reader)
<1>1. /\ InHand(reader, rows) /\ TInv /\ DOMAIN reader = ReaderFields
      /\ reader.cmd.op # "item_usage"
      /\ \A e, f \in DOMAIN reader.found : e = f
  BY DEF category, Read, RInv, Unaltered, Finished
<1>2. CASE Referred(CategoryIds, "category") = {}
  <2>1. DOMAIN reader.found \subseteq reader.overtaken
    <3> SUFFICES ASSUME NEW e \in DOMAIN reader.found \ reader.overtaken PROVE FALSE
      OBVIOUS
    <3>1. reader.found[e].category \in OwnedBy(reader.cmd.owner, CategoryIds)
      BY <1>1, Referring
    <3> QED BY <1>2, <3>1 DEF Referred
  <2>2. /\ DOMAIN n = ReaderFields /\ n.pc = "not_found" /\ n.found = reader.found
        /\ n.overtaken = reader.overtaken
    BY <1>1 DEF NotFound, ReaderFields
  <2>3. Read("category", n)
    BY <1>2 DEF category
  <2> HIDE DEF n
  <2>4. Unaltered(n, rows)
    BY <2>1, <2>2 DEF Unaltered, QueryOps, Finished
  <2> QED BY <2>3, <2>4, ReadingOn
<1>3. CASE Referred(CategoryIds, "category") # {}
  <2>1. Read("category", a)
    BY <1>3 DEF category
  <2>2. Unaltered(a, rows)
    BY <1>1, HavingCategory, Referring
  <2> HIDE DEF a
  <2> QED BY <2>1, <2>2, ReadingOn
<1> QED BY <1>2, <1>3

\* So is its item, if it has one.
LEMMA FindingItem ==
    ASSUME RInv, item
    PROVE  Unaltered(reader, rows)'
<1> DEFINE n == NotFound(reader)
           a == Shown(reader, Resolved(reader))
<1>1. /\ InHand(reader, rows) /\ TInv /\ DOMAIN reader = ReaderFields
      /\ reader.cmd.op # "item_usage"
      /\ \A e \in DOMAIN reader.found : reader.found[e].item # None
  BY DEF item, Read, RInv, Unaltered, Finished
<1>2. CASE Referred(ItemIds, "item") = {}
  <2>1. DOMAIN reader.found \subseteq reader.overtaken
    <3> SUFFICES ASSUME NEW e \in DOMAIN reader.found \ reader.overtaken PROVE FALSE
      OBVIOUS
    <3>1. reader.found[e].item \in OwnedBy(reader.cmd.owner, ItemIds)
      BY <1>1, Referring
    <3> QED BY <1>2, <3>1 DEF Referred
  <2>2. /\ DOMAIN n = ReaderFields /\ n.pc = "not_found" /\ n.found = reader.found
        /\ n.overtaken = reader.overtaken
    BY <1>1 DEF NotFound, ReaderFields
  <2>3. Read("item", n)
    BY <1>2 DEF item
  <2> HIDE DEF n
  <2>4. Unaltered(n, rows)
    BY <2>1, <2>2 DEF Unaltered, QueryOps, Finished
  <2> QED BY <2>3, <2>4, ReadingOn
<1>3. CASE Referred(ItemIds, "item") # {}
  <2>1. Read("item", a)
    BY <1>3 DEF item
  <2>2. Unaltered(a, rows)
    BY <1>1, Resolving, Referring
  <2> HIDE DEF a
  <2> QED BY <2>1, <2>2, ReadingOn
<1> QED BY <1>2, <1>3

\* The expense a use case committed is what it answers with, until another one
\* overtakes it (expenses.py:119-120, 146-150).
LEMMA AnsweringCommit ==
    ASSUME RInv, NEW r \in Requests, answer(r)
    PROVE  Unaltered(reader, rows)'
<1> DEFINE s == session[r]
           asked(e) == [AtRest EXCEPT
                          !.cmd = [op |-> "get", owner |-> s.cmd.owner, expense |-> e],
                          !.pc = "category",
                          !.found = [x \in {e} |-> s.now[x]]]
<1>1. PICK e \in ExpenseIds \cap DOMAIN s.now :
         reader' = IF s.category = None THEN Noticed(asked(e))
                   ELSE AfterCategory(Noticed(asked(e)))
  BY DEF answer
<1> DEFINE a == asked(e)
<1>2. /\ DOMAIN a = ReaderFields /\ a.pc = "category" /\ a.cmd.op = "get"
      /\ a.cmd.owner = s.cmd.owner /\ DOMAIN a.found = {e} /\ a.found[e] = s.now[e]
  BY DEF AtRest, ReaderFields
<1>3. s.now[e].owner = s.cmd.owner /\ s.now[e].category # None
  <2>1. Tidy(s) /\ Typed(s)
    BY DEF RInv, TInv, IInv
  <2>2. s.now[e].owner = s.cmd.owner
    BY <2>1 DEF Tidy, Held
  <2>3. s.now[e] \in ExpenseRow
    BY <2>1, Rows DEF Typed
  <2> QED BY <2>2, <2>3, Rows DEF ExpenseRow, Ids
<1>4. PICK n : n = Noticed(a)
  OBVIOUS
<1>5. reader' = IF s.category = None THEN n ELSE AfterCategory(n)
  BY <1>1, <1>4
<1> HIDE DEF a, asked
<1>6. n = [a EXCEPT !.overtaken = @ \cup {x \in DOMAIN a.found : ~Stands(x, a.found[x], rows')}]
  BY <1>2, <1>4 DEF Noticed, Finished
<1>7. /\ DOMAIN n = ReaderFields /\ n.pc = "category" /\ n.cmd = a.cmd
      /\ n.found = a.found
      /\ \A x \in DOMAIN n.found \ n.overtaken : Stands(x, n.found[x], rows')
  BY <1>2, <1>6 DEF ReaderFields
<1>8. InHand(n, rows')
  BY <1>2, <1>3, <1>7 DEF InHand
<1>9. Unaltered(n, rows')
  BY <1>2, <1>7, <1>8 DEF Unaltered, QueryOps
<1>10. Unaltered(AfterCategory(n), rows')
  BY <1>2, <1>3, <1>7, <1>8, HavingCategory
<1>11. PICK x : x = reader' /\ Unaltered(x, rows')
  BY <1>5, <1>9, <1>10
<1> QED BY <1>11 DEF Unaltered, InHand, Named
-----------------------------------------------------------------------------
\* No step of a writer or of the reader breaks the invariant.
LEMMA RInvStep == RInv /\ [NextReading]_varsReading => RInv'
<1> SUFFICES ASSUME RInv, [NextReading]_varsReading PROVE RInv'
  OBVIOUS
<1>1. TInv'
  BY LedgerGoesOn, TInvStep DEF RInv
<1>2. CASE UNCHANGED varsReading
  <2>1. rows' = rows /\ reader' = reader
    BY <1>2 DEF varsReading
  <2>2. Unaltered(reader, rows)'
    BY <2>1 DEF RInv, Unaltered, InHand, Named
  <2> QED BY <1>1, <2>2 DEF RInv
<1>3. CASE write
  <2>1. PICK x : x = reader' /\ x = Noticed(reader)
    BY <1>3 DEF write
  <2>2. Unaltered(x, rows')
    BY <2>1, Noticing DEF RInv
  <2>3. Unaltered(reader, rows)'
    BY <2>1, <2>2 DEF Unaltered, InHand, Named
  <2> QED BY <1>1, <2>3 DEF RInv
<1>4. ASSUME NEW q \in Queries, ask(q) PROVE RInv'
  <2>1. PICK x : x = reader' /\ x = [AtRest EXCEPT !.cmd = q, !.pc = q.op]
    BY <1>4 DEF ask
  <2>2. rows' = rows
    BY <1>4 DEF ask, vars
  <2>3. Unaltered(x, rows)
    BY <2>1, Asking
  <2>4. Unaltered(reader, rows)'
    BY <2>1, <2>2, <2>3 DEF Unaltered, InHand, Named
  <2> QED BY <1>1, <2>4 DEF RInv
<1>5. CASE query
  <2>1. Unaltered(reader, rows)'
    BY <1>5, Listing, NamingCategories, NamingItems, CountingUsage, Getting,
       FindingCategory, FindingItem DEF query
  <2> QED BY <1>1, <2>1 DEF RInv
<1>6. ASSUME NEW r \in Requests, answer(r) PROVE RInv'
  <2>1. Unaltered(reader, rows)'
    BY <1>6, AnsweringCommit
  <2> QED BY <1>1, <2>1 DEF RInv
<1> QED BY <1>2, <1>3, <1>4, <1>5, <1>6 DEF NextReading

\* Nothing was asked yet.
LEMMA RInvInit == InitReading => RInv
<1> SUFFICES ASSUME InitReading PROVE RInv
  OBVIOUS
<1>1. TInv
  BY TInvInit DEF InitReading
<1>2. /\ DOMAIN reader = ReaderFields /\ reader.pc = "done" /\ DOMAIN reader.found = {}
  BY DEF InitReading, AtRest, ReaderFields, NoRows
<1>3. Unaltered(reader, rows)
  BY <1>2 DEF Unaltered, QueryOps, Finished, Named
<1> QED BY <1>1, <1>3 DEF RInv

\* Pages and reports read by several statements, and answers built after a
\* commit, name every category and item of an expense nobody overtook,
\* however many requests archive, rename, remove and re-file meanwhile.
THEOREM NamesStay == SpecReading => []NamedUnlessOvertaken
<1>1. RInv => NamedUnlessOvertaken
  BY DEF RInv, Unaltered, Named, NamedUnlessOvertaken
<1> QED BY <1>1, RInvInit, RInvStep, PTL DEF SpecReading

\* Nor does a request report as not found what nobody took away.
THEOREM Finds == SpecReading => []FoundUnlessOvertaken
<1>1. RInv => FoundUnlessOvertaken
  BY DEF RInv, Unaltered, FoundUnlessOvertaken
<1> QED BY <1>1, RInvInit, RInvStep, PTL DEF SpecReading
=============================================================================
