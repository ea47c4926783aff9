------------------------------ MODULE Listing ------------------------------
(***************************************************************************)
(* What one owner reads back: the list of expenses, page by page, and the  *)
(* month's item usage, while expenses are recorded, changed and deleted.   *)
(*                                                                         *)
(* A listing is two statements, the page and the count, and the next page  *)
(* is a request of its own, so writes fall between all of them.  A write   *)
(* is one step, as only its commit is seen.  An expense carries the        *)
(* currency it was recorded in, the default currency of the settings, and  *)
(* a process may be started again with another one.                        *)
(***************************************************************************)
EXTENDS Calendar, FiniteSets, FiniteSetsExt

CONSTANTS Ids,            \* of expenses: uuids, whose order says nothing of time
          Typed,          \* dates as typed: in a calendar, a date of that calendar
          Amounts,        \* in minor units
          Currencies,
          Categories,
          Lines,          \* item lines: item, unit, quantity in thousandths
          Purchases,      \* RecordExpenseCommand
          Updates,        \* UpdateExpenseCommand, where Keep is a field left out
          Months,         \* the Periods people ask for
          Queries,        \* ListExpensesQuery [period, since, until, category_ids]
          Limit,          \* the length of a page
          MaxQuantity,    \* MAX_QUANTITY_MILLI
          None, Keep

ASSUME IdAssumption == Ids \subseteq Nat
ASSUME TypedAssumption ==
    \A t \in Typed : t.calendar = Ethiopian => t.date \in [year : Int, month : Int, day : Int]
ASSUME LimitAssumption == Limit \in Nat \ {0} /\ Amounts \subseteq Nat \ {0}
ASSUME LineAssumption ==
    /\ \A l \in Lines : l.quantity \in 1..MaxQuantity
    /\ None \notin Lines
    /\ Keep \notin Lines /\ Keep \notin Amounts /\ Keep \notin Typed /\ Keep \notin Categories
ASSUME CommandAssumption ==
    /\ Purchases \subseteq [spent_on : Typed, amount : Amounts, category_id : Categories,
                             line : Lines \cup {None}]
    /\ Updates \subseteq [spent_on : Typed \cup {Keep}, amount : Amounts \cup {Keep},
                           category_id : Categories \cup {Keep},
                           line : Lines \cup {None, Keep}]
ASSUME MonthAssumption == Months \subseteq Period
ASSUME QueryAssumption ==
    /\ None \notin Months /\ None \notin Typed
    /\ Queries \subseteq [period : Months \cup {None}, since : Typed \cup {None},
                           until : Typed \cup {None}, category_ids : SUBSET Categories]

VARIABLES expenses,   \* the committed rows, None where there is none
          unused,     \* ids no expense ever had
          currency,   \* default_currency of the running process
          walk        \* a client that reads the list to its end

vars == <<expenses, unused, currency, walk>>

Row == [spent_on : 1..MaxOrdinal, amount : Amounts, currency : Currencies,
        category_id : Categories, line : Lines \cup {None}]

\* `page` is what the first statement returned, the rows by id; `shown` is what
\* the client has read of each expense, `repeated` those it read twice, `totals`
\* the page totals it was told.  The last three remember what was written
\* meanwhile: the expenses that stayed where they were, and whether any came
\* into the list or left it.
Rest == [query |-> None, pc |-> "done", offset |-> 0, page |-> <<>>,
         shown |-> {}, repeated |-> {}, totals |-> [c \in Currencies |-> 0],
         steady |-> {}, grown |-> FALSE, shrunk |-> FALSE]

Init == /\ expenses = [id \in Ids |-> None]
        /\ unused = Ids
        /\ currency \in Currencies
        /\ walk = Rest
-----------------------------------------------------------------------------
(* SpendDate.                                                              *)

\* Whether the date typed exists, and is a `date` at all (fromordinal); one that
\* is not is refused.
Exists(typed) == IF typed.calendar = Ethiopian
                 THEN /\ validate_ethiopian_date(typed.date)
                      /\ ethiopian_to_gregorian(typed.date) <= MaxOrdinal
                 ELSE typed.date \in 1..MaxOrdinal

parse(typed) == IF typed.calendar = Ethiopian THEN ethiopian_to_gregorian(typed.date)
                                              ELSE typed.date

\* describe() needs the Ethiopian date of the day, and there is none before 1 Meskerem 1.
describes(n) == validate_ethiopian_date(gregorian_to_ethiopian(n))
-----------------------------------------------------------------------------
(* ExpenseFilter, and the statements of the repository.                    *)

OfMonth(p) == [period |-> p, since |-> None, until |-> None, category_ids |-> {}]

\* The days asked for: a Period wins over loose dates, each of which may be left out.
SpanOf(query) ==
    IF query.period # None THEN gregorian_span(query.period)
    ELSE [first |-> IF query.since = None THEN 1 ELSE parse(query.since),
          last  |-> IF query.until = None THEN MaxOrdinal ELSE parse(query.until)]

Spans == [query \in Queries \cup {OfMonth(p) : p \in Months} |-> SpanOf(query)]

\* A mutant, as are the operators below whose name says what they get wrong.
matches_UpToTheLastDay(row, query) ==
    /\ Spans[query].first <= row.spent_on /\ row.spent_on < Spans[query].last
    /\ query.category_ids # {} => row.category_id \in query.category_ids

\* `since` and `until` are both inclusive; no categories, no limit.
matches(row, query) ==
    /\ Spans[query].first <= row.spent_on /\ row.spent_on <= Spans[query].last
    /\ query.category_ids # {} => row.category_id \in query.category_ids

Found(query) == {id \in Ids : expenses[id] # None /\ matches(expenses[id], query)}

before_ByDateOnly(i, j) == expenses[i].spent_on > expenses[j].spent_on

\* Newest first, with the id as a tiebreaker.
before(i, j) == \/ expenses[i].spent_on > expenses[j].spent_on
                \/ expenses[i].spent_on = expenses[j].spent_on /\ i > j

\* A set of rows that an order by `before` may begin with.
Leading(ids, found) == \A i \in ids, j \in found \ ids : ~before(j, i)

Least(m, n) == IF m <= n THEN m ELSE n

IsPage_RestOfTheList(page, found, offset) ==
    \E skipped \in SUBSET (found \ page) :
        /\ Leading(skipped, found) /\ skipped \cup page = found
        /\ Cardinality(skipped) = Least(offset, Cardinality(found))

\* ORDER BY, OFFSET and LIMIT: some order that agrees with `before`, cut out.
IsPage(page, found, offset) ==
    \E skipped \in SUBSET (found \ page) :
        /\ Leading(skipped, found) /\ Leading(skipped \cup page, found)
        /\ Cardinality(skipped) = Least(offset, Cardinality(found))
        /\ Cardinality(page) = Least(Limit, Cardinality(found) - Cardinality(skipped))
-----------------------------------------------------------------------------
(* ExpenseService.list, and the client that calls it for page after page.  *)

\* Dates that do not exist are refused.
ask(query) ==
    /\ walk.pc \in {"done", "failed"}
    /\ \A typed \in {query.since, query.until} \ {None} : Exists(typed)
    /\ walk' = [Rest EXCEPT !.query = query, !.pc = "list", !.steady = Found(query)]
    /\ UNCHANGED <<expenses, unused, currency>>

list ==
    /\ walk.pc = "list"
    /\ \E page \in SUBSET Found(walk.query) :
          /\ IsPage(page, Found(walk.query), walk.offset)
          /\ walk' = [walk EXCEPT !.pc = "count", !.page = [id \in page |-> expenses[id]]]
    /\ UNCHANGED <<expenses, unused, currency>>

SameCurrency_NotAsked(page) == TRUE

\* sum_money begins with nothing in the default currency, and adds no other.
SameCurrency(page) == \A id \in DOMAIN page : page[id].currency = currency

\* The response shows every expense of the page in both calendars.
Shows(page) == \A id \in DOMAIN page : describes(page[id].spent_on)

ExpenseResponse(page) ==
    {[id |-> id, amount |-> page[id].amount, currency |-> page[id].currency] : id \in DOMAIN page}

AmountIn(response) == response.amount
sum_money(responses) == MapThenSumSet(AmountIn, responses)

\* The response of one page, and the client reading it.
Continue(more) ==
    LET page  == walk.page
        items == ExpenseResponse(page)
        ids   == {response.id : response \in walk.shown}
    IN /\ walk.pc = "count"
       /\ walk' = IF ~SameCurrency(page) \/ ~Shows(page)
                  THEN [walk EXCEPT !.pc = "failed", !.page = <<>>]
                  ELSE [walk EXCEPT !.pc = IF more THEN "list" ELSE "done",
                                    !.offset = @ + Limit, !.page = <<>>,
                                    !.shown = @ \cup items,
                                    !.repeated = @ \cup (ids \cap DOMAIN page),
                                    !.totals[currency] = @ + sum_money(items)]
       /\ UNCHANGED <<expenses, unused, currency>>

count_StopsEarly == Continue(walk.offset + Limit + 1 < Cardinality(Found(walk.query)))

\* The client goes on while `total` says that there is more.
count == Continue(walk.offset + Limit < Cardinality(Found(walk.query)))
-----------------------------------------------------------------------------
(* ExpenseService.record, update and delete.                               *)

\* What a walk under way remembers of a write.
Noticed ==
    LET before_(id) == id \in Found(walk.query)
        after_(id)  == expenses'[id] # None /\ matches(expenses'[id], walk.query)
        stayed(id)  == /\ before_(id) /\ after_(id)
                       /\ expenses'[id].spent_on = expenses[id].spent_on
    IN walk' = IF walk.pc \notin {"list", "count"} THEN walk
               ELSE [walk EXCEPT
                       !.steady = {id \in @ : stayed(id)},
                       !.grown  = @ \/ \E id \in Ids : after_(id) /\ ~stayed(id),
                       !.shrunk = @ \/ \E id \in Ids : before_(id) /\ ~stayed(id)]

record(id, c) ==
    /\ id \in unused /\ Exists(c.spent_on)
    /\ expenses' = [expenses EXCEPT
                      ![id] = [spent_on |-> parse(c.spent_on), amount |-> c.amount,
                               currency |-> currency, category_id |-> c.category_id,
                               line |-> c.line]]
    /\ unused' = unused \ {id}
    /\ UNCHANGED currency
    /\ Noticed

\* The line may become None: clear_item.  An expense cannot change currency.
update(id, c) ==
    /\ expenses[id] # None
    /\ c.spent_on # Keep => Exists(c.spent_on)
    /\ c.amount # Keep => expenses[id].currency = currency
    /\ expenses' = [expenses EXCEPT
                      ![id].spent_on = IF c.spent_on = Keep THEN @ ELSE parse(c.spent_on),
                      ![id].amount   = IF c.amount = Keep THEN @ ELSE c.amount,
                      ![id].category_id = IF c.category_id = Keep THEN @ ELSE c.category_id,
                      ![id].line     = IF c.line = Keep THEN @ ELSE c.line]
    /\ UNCHANGED <<unused, currency>>
    /\ Noticed

delete(id) ==
    /\ expenses[id] # None
    /\ expenses' = [expenses EXCEPT ![id] = None]
    /\ UNCHANGED <<unused, currency>>
    /\ Noticed

\* The process stops, with the request it was serving, and another one starts.
restart(default_currency) ==
    /\ currency' = default_currency
    /\ walk' = IF walk.pc = "count" THEN [walk EXCEPT !.pc = "failed", !.page = <<>>] ELSE walk
    /\ UNCHANGED <<expenses, unused>>

Next == \/ \E query \in Queries : ask(query)
        \/ list
        \/ count
        \/ \E id \in Ids : \/ \E c \in Purchases : record(id, c)
                           \/ \E c \in Updates : update(id, c)
                           \/ delete(id)
        \/ \E c \in Currencies : restart(c)

Spec == Init /\ [][Next]_vars
-----------------------------------------------------------------------------
(* ItemUsageService.for_period.                                            *)

Since == [p \in Months |-> gregorian_span(p).first]
Until == [p \in Months |-> gregorian_span(p).last]

used_BeforeTheLastDay(row, p) ==
    row.line # None /\ Since[p] <= row.spent_on /\ row.spent_on < Until[p]

\* The WHERE clause of the report is its own, not that of the list: an item
\* line, and both ends of the month inclusive.
used(row, p) == row.line # None /\ Since[p] <= row.spent_on /\ row.spent_on <= Until[p]

Used(p) == {id \in Ids : expenses[id] # None /\ used(expenses[id], p)}

group_by_ItemOnly(row) == row.line.item

group_by(row) == <<row.line.item, row.line.unit>>

Groups(p) == {{id \in Used(p) : group_by(expenses[id]) = key} :
                key \in {group_by(expenses[id]) : id \in Used(p)}}

TotalOf(ids, Value(_)) == MapThenSumSet(Value, ids)

quantity(id) == expenses[id].line.quantity
amount_of(id) == expenses[id].amount

\* What is not summed is that of any row of the group.  The sum of money is given
\* the configured currency, whatever those of the rows.
ItemUsageLine(group) ==
    LET row == expenses[CHOOSE id \in group : TRUE]
    IN [item |-> row.line.item, unit |-> row.line.unit,
        total_quantity |-> TotalOf(group, quantity),
        total_amount   |-> [minor_units |-> TotalOf(group, amount_of), currency |-> currency],
        entry_count    |-> Cardinality(group)]

item_usage(p) == {ItemUsageLine(group) : group \in Groups(p)}

Quantity == 0..MaxQuantity

\* A sum over the ceiling of Quantity is refused, and the report fails.
reports(p) == \A l \in item_usage(p) : l.total_quantity \in Quantity
-----------------------------------------------------------------------------
\* Nobody who reads to the end misses an expense that stayed where it was,
\* unless others were taken away in front of it, whatever is recorded meanwhile
\* (repositories.py:135-136, "so pagination is stable").
NothingMissed ==
    walk.pc = "done" /\ ~walk.shrunk =>
        walk.steady \subseteq {response.id : response \in walk.shown}

\* And nobody sees an expense twice, unless others were put in front of it.
NothingTwice == ~walk.grown => walk.repeated = {}

\* The page totals a client was told add up, currency by currency, to the
\* expenses it was shown, whatever the default currency was when each of them
\* and each page was written: "adding ETB to USD is a domain error, not a silent
\* conversion" (money.py:4-5, expenses.py:218).
TotalsAddUp ==
    ~walk.grown => \A c \in Currencies :
        walk.totals[c] = sum_money({response \in walk.shown : response.currency = c})

\* Every expense is listed under exactly one month of each calendar, the one its
\* date is in, the last day of Pagumen and the first of the year included
\* (spend_date.py:68-69, expenses.py:169-172).
FiledUnderOneMonth ==
    \A id \in Ids, kind \in CalendarKind :
        expenses[id] # None /\ (kind = Ethiopian => describes(expenses[id].spent_on)) =>
            {p \in Months : p.calendar = kind /\ id \in Found(OfMonth(p))}
              = {from_date(expenses[id].spent_on, kind)}

\* What the list of a month shows of one item in one unit.
Listed(p, item, unit) ==
    {id \in Found(OfMonth(p)) : /\ expenses[id].line # None
                                /\ expenses[id].line.item = item
                                /\ expenses[id].line.unit = unit}

\* A month's report, unless it fails, says of each item what the month's list
\* shows of it, in one line for each unit it was bought in ("you cannot add 3 kg
\* to 2 pieces", item_usage.py:8-9): no purchase is left out, counted under two
\* units or in two lines, those on the first and the last day of the month
\* included.  The money is right where all of it is in the configured currency.
ReportsWhatIsListed ==
    \A p \in Months : reports(p) =>
        \A item \in {l.item : l \in Lines}, unit \in {l.unit : l \in Lines} :
            LET bought == Listed(p, item, unit)
                lines  == {l \in item_usage(p) : l.item = item /\ l.unit = unit}
            IN /\ Cardinality(lines) = IF bought = {} THEN 0 ELSE 1
               /\ \A l \in lines :
                     /\ l.total_quantity = TotalOf(bought, quantity)
                     /\ l.entry_count = Cardinality(bought)
                     /\ (\A id \in bought : expenses[id].currency = currency) =>
                           l.total_amount = [minor_units |-> TotalOf(bought, amount_of),
                                             currency |-> currency]
=============================================================================
