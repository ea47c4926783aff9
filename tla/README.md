# A specification of kise-backend

Kise is the backend of a personal expense tracker for Ethiopian users: FastAPI handlers over
application services, aggregates and SQLAlchemy repositories, on PostgreSQL. What makes it worth
specifying is that two calendars run through all of it, and that the aggregates which hold its rules
are loaded, changed and written back by requests that overlap.

Paths below are relative to `src/src/kise/` unless they start with `tests/`.

## The system

| component | state | operations | rules |
|---|---|---|---|
| Calendar kernel (`shared_kernel/domain/calendar/`) | none, pure | Ethiopian/Gregorian conversion, days and months added, `Period` arithmetic, spans, `as_calendar`, labels | a date is one day in both calendars; months tile the days; a counterpart shares the most days; a label names what it covers |
| Fixed Monthly Expense (`entities/fixed_expense.py`) | span, amount, pause, settlements | settle, unsettle, correct, change amount, end, start, pause, resume, edit details | one payment a month; payments stay reachable; history is not rewritten |
| Expenses (`entities/expense.py`, `services/expenses.py`) | a row: category, amount and currency, and an item line (item, quantity, unit) or none | record, update, delete; list by page, get | owner-scoped; filed under a live category; the item line is whole or absent; a page's total is its expenses' |
| Categories, Items (`services/categories.py`, `items.py`) | rows: name, `name_key`, archived | create, rename, archive, restore, remove; resolve or create by name | one name per owner, whatever its case; archived when in use, deleted when not |
| Unit of Work, tracking repositories (`platform/unit_of_work.py`, `shared_kernel/infrastructure/repository.py`) | a session: identity map of aggregates, inserted and deleted rows | load, insert and flush, delete, commit, roll back | a commit writes back what the use case changed |
| Event bus, subscribers (`platform/`) | handlers | publish after the commit | every registered owner gets the default categories |
| Owners (`identity/`) | owner rows | register, authenticate, update preferences | one account an email |
| Units of measurement | global rows | create, seed at start-up | system units are always present |
| Item usage report | none | sum per item and unit, then name the items | the sum is representable; nothing recorded is left out |
| Routers, schemas, assembly | none | parse, call one service | one Unit of Work a request |

A request is handled by a synchronous function in a thread pool, or in another process. It opens a
Unit of Work of its own (`platform/api/dependencies.py:38-48`), so requests share nothing but the
database, and meet there statement by statement at PostgreSQL's READ COMMITTED. (SQLite serves the
test suite only.) A use case reads aggregates through the repositories, which keep one object per id
and session; changes them in memory; and commits, whereupon every aggregate it holds is mapped back
onto its row and SQLAlchemy updates the columns that differ from what was loaded. There is no version
column and no `SELECT ... FOR UPDATE`: between the load and the commit anything may happen to the row.
Events are drained at the commit and handed to subscribers after it, in the same call.

What is hard here, and where the tests (one session at a time) do not reach:

- overlapping requests: stale aggregates written back, checks that no longer hold at the commit,
  inserts that collide, waiting for one another's keys;
- failures between two transactions, or between two statements of one;
- reads made of several statements, and a read after the commit to answer what was committed;
- the short month of Pagumen, leap years of two calendars, months that map to one another unevenly;
- long sequences of edits of one commitment, in either calendar;
- ceilings: of a date, a quantity, a column.

The list, line by line, is `hazards` in PROJECT.json; one that no property covers yet says why.

## The modules

| module | role | models |
|---|---|---|
| `Calendar` | operators | `ethiopian.py`, `period.py`; the `datetime` functions they call |
| `CalendarWalk` | machine | a wall calendar turned a day at a time: the reference for `Calendar` |
| `PaidMonths` | abstract specification | what a commitment promises about money: a book of paid months |
| `FixedExpense` | machine | the `FixedExpense` aggregate; implements `PaidMonths` |
| `FixedExpenseStore` | machine, over `FixedExpense` and `Calendar` | one commitment loaded, edited and written back by Units of Work that overlap |
| `Store` | state, and the session's operations | rows, constraints, the tracking repositories, the commit |
| `Ledger` | machine, extends `Store` | the use cases of expenses, categories and items, one action a statement |
| `SpendingBook` | abstract specification | what those use cases promise: each carried out in one step, or not at all; `Ledger` is held against it |
| `Reading` | machine, extends `Ledger` | the requests that only read, statement by statement, beside those that write |
| `Listing` | machine, extends `Calendar` | what is read back: pages of expenses and their totals, the item usage of a month |
| `Registration` | machine | owners, the event bus, the default categories |
| `UnitSeeding` | machine | processes that start, and the units they seed |
| `MC...` (8 modules) | instances | values for the constants of the machines |
| `...Theorems` (8 modules) | proofs | of every machine |

An operator whose name ends in `_Something` and says what it gets wrong (`settle_Again`) is the
mutated form of the definition after it. It is used by no specification: each property is known to
fail once when one definition of the code is replaced by such a form.

Five machines have a database under them, and share its conventions: one action is one statement with
the code that runs up to the next; a statement sees what is committed when it runs; an insert is
flushed at once, and one that collides with another session's uncommitted insert waits for it, that is,
it is not enabled; an UPDATE names the columns in which a session's aggregate differs from the row it
loaded; a session that ends, whatever the reason, takes what it did not commit with it. They are
separate machines because no use case spans them: `Ledger` and `Registration` share the table of
categories, and `Registration` has the one use case of `Ledger` that can meet a registration
(`create_category` by an owner just signed in). `Reading` composes the readers with the whole `Ledger`.

### Calendar, CalendarWalk

Operators keep the code's names. A Gregorian `date` is its ordinal, so that spans and overlaps are
integers; `YearOf` and `MonthOf` read the month off an ordinal from the rule for leap years, not from
the code. `CalendarWalk` carries three clocks, the ordinal and one date of each calendar, and turns
the two dates by month lengths alone: nothing in `Next` uses a conversion formula except through the
assumption that ties the first page to its day. `MonthsRead` reads a counterpart label back as a person
would, a year that is not written being the one that is; names of months are their numbers.

### FixedExpense, PaidMonths

A Period of the Anchor Calendar is its `index`; `AnchorOf` is `Period.as_calendar` into that calendar,
any function in the proofs and computed by `Calendar` in the runs. An operation that raises changes
nothing in the aggregate, so error paths are guards. `end_after(None)` is `end_after(Open)`. A
settlement is [period, amount]; its id and `settled_on` are not modelled, so two settlements of one
month and one amount would be one element: `OneSettlementPerPeriod` does not depend on it, the mutant
that pays a month twice with different amounts is caught. `retitle`, `recategorise`,
`change_due_day` and `amend_note`, which touch nothing else, are one action, `edit_details`.
No service or router reaches this aggregate at this commit.

### Store, Ledger

`rows` is the committed database. `session[r]` is the Unit of Work of request r: `seen` (rows as they
were loaded: SQLAlchemy's idea of the row), `now` (the aggregates), `new` (inserted and flushed),
`gone` (deleted, not flushed), the command, and `pc`, the statement that comes next. One action is
one statement with the code that runs up to the next one:

| action | code |
|---|---|
| `begin` | `get_services` opens a Unit of Work (`container.py:115-162`); the command is what the router parsed |
| `get_expense`, `use_category`, `resolve_item`, `insert_expense` | `ExpenseService.record/update/delete`, with `ItemService.resolve_or_create` |
| `get_category`, `list_categories`, `insert_category`, `count_for_category` | `CategoryService.create/update/archive/restore/remove` |
| `get_item`, `list_items`, `insert_item`, `count_for_item` | `ItemService.create/archive/restore/remove` |
| `commit` | `SqlAlchemyUnitOfWork.commit`: `synchronise`, flush, commit |
| `crash` | the process dies, the connection drops, or the use case raises for a reason not modelled |

The pieces that decide what overlapping requests can do to one another:

- `rehydrate`: an id loaded before keeps its aggregate and its `seen` row, also when a later SELECT
  of the same session returns a newer row (`repository.py:60-67`).
- `to_domain`: a loaded category or item derives its key from its name (`mappers.py:62-73`,
  `category.py:112-115`); the stored key is only ever compared by the database.
- `update_model`: the UPDATE names the columns in which `now` and `seen` differ.
- `insert`: the flush checks the constraints on the rows it can see; if it collides with the
  uncommitted insert of another session it waits (`Blocked`), and a waiting statement is one that is
  not enabled. When the other ends, it goes on or fails.
- `commit` flushes and commits in one step: the locks of its UPDATEs are held to the end, so nobody
  sees between. An UPDATE of a row that is gone is a stale-data error; a broken constraint is an
  integrity error; both end the request.

What the abstraction leaves out: columns no property tells apart (Amharic name, colour, icon, amount,
date, note, payment method, default unit); the units of measurement, which no request changes; the lock
a rename takes against an uncommitted foreign-key reference, which delays it and adds no outcome; the
order of several UPDATEs within one flush. A line that measures nothing (quantity 0) is refused before
its item is inserted; the code inserts the item and rolls it back with the request. Nothing of it is ever
committed, and what it holds up meanwhile is what a `crash` after such an insert holds up. Only queries with `include_archived=True` are part of a command.

`SpendingBook` has the twelve use cases without sessions, statements and keys: three tables, the ids that
were ever in them, and what each request has asked (`ask`) and not been answered (`answer`: carried out on
the book as it then is, or not at all). `Book` in `Ledger` reads a book off the state: the committed rows
without their `name_key`, and the command of each session. `CarriedOutWhole` says that every step of the
requests is then a step of the book or none; the step that carries a command out is the commit.

### Reading

One reader is followed among the requests of `Ledger`, whose every step is a step here (`write`). It reads
the expenses first (`list`, `get`, `item_usage`) and what they refer to by later statements
(`categories`, `items`; `category`, `item`), each on what is committed at that moment. `list` and `get`
build expenses of the rows they load (`Load`), and fail when one row is torn. `answer(r)` is a
`commit` of `Ledger` with what follows it in the same request: `record` and `update` read the category
(unless it is in hand) and the item once more to build the response, and answer "not found" when it is
gone, although the change is committed. A response is what it shows of names: `by_id` is `dict.get`, and
`UsageLines` leaves out a line whose item is not among those listed. `overtaken` is history: the expenses
in hand that another request has deleted or filed elsewhere since they were read. Both properties of
`Reading` speak of the others.

### FixedExpenseStore

`row` is the commitment as `models.py:115-142` stores it: amount, pause, and a span of four columns, an
end and a start each with a year and a month. `children` are its Settlement rows. A Unit of Work loads
the row (`get`) and then, in a second statement, the Settlements (`selectin`); `to_domain` puts an
aggregate together from both, and refuses one whose end is before its start. `edit` is an operation of
the aggregate: `Held(r)` is `FixedExpense` with the loaded aggregate for its variables, and `edit`
takes those changes (`Near`) that are steps of its `Next`, so nothing of the aggregate is written
twice. `commit` is the flush in SQLAlchemy's order, updates, inserts, deletes; Settlements are compared
with those this session loaded (`sync_settlements`), and the unique constraint meets rows that are
about to be deleted: undoing a payment and recording it again in one Unit of Work fails.
`asked` collects what the operations of a session changed, and `stale` whether a session has written
after another had committed since its load; both are history variables.

Callers name months of the anchor calendar here, and a Unit of Work is used once. The insert of a
commitment, its title, category, due day and note are left out. No service reaches this repository at
this commit; the model says what one that did would get.

### Registration

`owners`, `categories` and `published` are committed state; the session of a request carries its
statement and what it holds. The path of a registration is the interesting one:

| action | code |
|---|---|
| `email_exists`, `add` | `OwnerService.register` (`owners.py:49-78`), the unique index on `email` |
| `commit_owner`, `publish` | `SqlAlchemyUnitOfWork.commit`: the commit, then the events (`unit_of_work.py:58-63`) |
| `seed`, `commit_seed` | the subscriber, in a Unit of Work of its own (`subscribers.py:32-39`): one insert a step |
| `issue` | the profile and the token |
| `get`, `commit_preferences` | `OwnerService.update_preferences` |
| `list_for_owner`, `add_category`, `commit_category` | `CategoryService.create` by the new owner |
| `crash` | the process dies, the connection drops, or the statement raises |

`commit_owner` may also fail, and ends the request with nothing written. What the handler raises goes
through the bus to the caller: the account stays. A request other than a registration is made by an
owner who is committed, since it takes a sign-in. A registration always names a calendar and a
language (the defaults of the command are resolved). Password, display name and currency are left out.

### UnitSeeding

A process starts (`start`), counts the units, and inserts the defaults if there are none; whatever
fails on the way (`hiccup`, or a unique constraint) is logged and the process serves (`warned`). A
request is `UnitService.create`, hosted by a process and gone with it at a `crash`. `LookupOf` and
`CodeOf` are the two normalisations of a typed code, which differ: `find_by_code` removes spaces,
`clean_code` all white space, so the lookup may miss what the insert then collides with.

### Listing

`walk` is a client that reads the owner's list to its end: a page (`list`), the total (`count`), and the
next page at the next offset, each on what is committed at that moment. `IsPage` cuts a page out of any
order that agrees with `before`. Writes are one step each, since only their commit is seen;
what a walk under way remembers of them is history (`steady`, `grown`, `shrunk`). The item usage of a
month is an operator, `item_usage`. It has a WHERE clause of its own, as in the code (`used`, beside the
`matches` of the list), its GROUP BY (`group_by`), and the sums of each group (`ItemUsageLine`).
`reports` says whether it is computed at all: a sum over the ceiling of `Quantity` raises. So does the description of a date before 1 Meskerem 1 (`Shows`), and the
walk then fails. A query asks for a month, or for loose dates, each of which may be left out, and for
categories; a month wins over loose dates (`SpanOf`).

An expense carries the currency that was configured when it was recorded, and `restart` starts the
process with another one. `sum_money` begins with nothing in the configured currency and refuses any
other, so a page with an older expense fails; the report of item usage adds minor units whatever their
currency and names the sum by the configured one, although `money.py:4-5` calls adding two currencies "a
domain error, not a silent conversion".

## What is checked

### Runs that pass

| run | instance | shows |
|---|---|---|
| `calendar_walk` | every day from 1900-01-01 to 2101-01-01, 73414 states | `ConversionFollowsTheCalendar`, `PeriodsTileTheDays`, `CounterpartSharesTheMostDays`; `LabelNamesEveryMonth`: a counterpart label read back gives the months the Period shares days with; `MonthsLaterKeepTheirOrder`; `TypeOK` |
| `fixed_expense` | Ethiopian anchor, Hamle 2018 to Meskerem 2019, and July to September 2026; amounts 0..2 ETB and 1 USD | the five invariants, and `KeepsTheBook`: `PaidMonths` is implemented |
| `fixed_expense_store` | 3 Units of Work on one commitment over Pagumen 2018 and Meskerem 2019, 3 operations in all | `OneSettlementPerPeriod`; `OnlyWhatWasAsked`: no commit takes away a payment it was not asked to; `WholeUnlessStale` |
| `ledger_pairs` | 2 overlapping requests of 2 owners, 11 commands: an expense refiled and measured while its category and item are renamed and removed; `FairSpec` | `OwnersStayApart`, `OneItemPerName`, `OnlyWhatWasAsked`, `TypeOK`; `Answered`: every request ends, whatever it waits for |
| `ledger_serial` | 1 request at a time that writes, all 21 commands, and a reader beside it, 3 queries | `ItemLinesWhole`, `NameKeysFollowNames`, `FiledUnderLiveCategories`: what the tests exercise is right, and what the violations below show is due to the overlap; `NamedUnlessOvertaken`, `FoundUnlessOvertaken`: what is read is named, and found; `CarriedOutWhole`: each use case is one step of `SpendingBook`, or none, at whatever statement it dies |
| `registration` | 3 requests, 2 owner ids, 2 defaults; an email typed in two ways; sign-in, preferences and a category of a default's name in between | `OneAccountPerEmail`, `DefaultsTogether`, `PublishedHappened`, `SignedInWithCategories`, `PreferencesKept` |
| `unit_seeding` | 2 processes, 2 requests, 2 defaults; `FairSpec` | `OneUnitPerCode`, `SystemUnitsTogether`, `SeededUnlessExtended`, `ComesUp` |
| `listing` | 3 expenses around 1 Meskerem 2019 or of the year 1, pages of two, 2 queries, 2 currencies | `NothingMissed`, `NothingTwice`, `FiledUnderOneMonth`; `ReportsWhatIsListed`: item by item and unit by unit, the report of a month is what its list shows; `TotalsAddUp`: the totals of the pages are, currency by currency, the expenses shown |

Some of these say less than their name, and mean to:

- `WholeUnlessStale` holds of Units of Work none of which writes to what has changed since it was
  loaded. Without that condition TLC soon finds a row that ends before it starts (one session moves the
  end, one the start), and a payment outside the span (one pays, one shortens). Nothing in the code
  prevents either; whoever writes a service for this aggregate will want a version column or a lock.
- `OnlyWhatWasAsked` of `FixedExpenseStore` makes one exception: an end of which only one column was
  written (two sessions, again) is loaded as no end, and the next change writes that down.
- `FiledUnderLiveCategories` is a property of serial requests alone. With two, the category may be
  archived between `ensure_category_usable` and the commit.
- `SeededUnlessExtended` has the gap in its statement: a start-up whose seeding fails, and a custom
  unit before the next one, leave a table that is taken for seeded, without the system units.
- `NothingMissed` and `NothingTwice` excuse the shifts that pages cut by offset cannot avoid; they say
  that there are no others, which is what the id in the order is for.
- `NamedUnlessOvertaken` and `FoundUnlessOvertaken` excuse expenses overtaken since they were read: an
  update whose expense another request deletes, or files under another item, before the response is
  built answers "not found" for a change that is committed, and a report drops a line in the same way.
  The comment at `item_usage.py:57`, "referential integrity holds", is right of one snapshot and not of
  two statements; the run reaches the skipped line.
- `ReportsWhatIsListed` compares quantity and count of every line with the list, the money only of a
  line bought in the configured currency alone. In others the code adds up two currencies, against
  `money.py:4-5`, or names the sum by a currency nothing was paid in; no property says it does not.
  A report that fails (a sum over the ceiling) says nothing.
- `TotalsAddUp` speaks of the pages a client was given. A page that mixes currencies is not given.

### Runs that find a violation

Each checks one statement the repository makes and finds a behaviour of the code against it.

| run | property | the behaviour |
|---|---|---|
| `ledger_torn_line` | `ItemLinesWhole` | A client changes the quantity of an expense's line, to the same item and unit. Another request clears the line. Both load the whole line; the first writes `quantity` only, the second nulls all three. Left: a quantity without an item. `Expense.__init__` refuses such a row, so every later use case on that expense raises while loading it, its deletion and the list that contains it too. |
| `ledger_torn_name` | `CategoryNamesUnique` | One request renames "Food" to "FOOD" (`name` changes, `name_key` does not), one to "Drinks" (both change). If the case change commits last, the row is named "FOOD" under the key "drinks". A create that listed the names before the second commit finds "Food" free, its key collides with nothing, and there are two. (One that lists them afterwards is refused by `ensure_name_is_free`.) |
| `registration_orphan` | `AccountsHaveCategories` | The owner is committed; the process dies before the handler commits. The account has no default category, nothing publishes the event again, and the email is taken. |
| `fixed_expense_months` | `OneOccurrencePerMonth` | The Ethiopian view of a Gregorian commitment shows September for Pagumen and for Meskerem. (The same property with an Ethiopian anchor fails the other way: no Gregorian month maps to Pagumen, which is passed over.) |

### The bounds, and why they are enough

- `calendar_walk`: the Ethiopian leap cycle is 4 years, and the Gregorian rule for centuries does
  something in 1900 and 2100 (not leap) and in 2000 (leap). A month's Period properties depend on the
  month alone and are evaluated on the days a month begins. Year 1 and year 9999 are outside. So is the
  drift of the two calendars, three days in four centuries, which `CounterpartSharesTheMostDays` does
  not survive for ever: the theorem says from when to when (`CounterpartShares`).
- `fixed_expense`: the months are those around the Ethiopian new year, the only place where the mapping
  between calendars is uneven; two amounts tell an overwritten payment, and a second currency is refused
  or not. Zero is there to be refused.
- `fixed_expense_store`: the two months differ in both columns, year and month, so a span can be torn in
  each way; two Settlement ids let two sessions pay one month; three Units of Work are a race of two and
  one that comes after. `MaxEdits` bounds the operations of all Units of Work together. Sessions and ids
  are interchangeable, so they are symmetric; the run has no liveness property. Deadlock is not checked
  because a Unit of Work is used once, and a removed commitment leaves nothing to load.
- `ledger_*`: a table has 2 ids (1 expense), and ids are never used twice, as uuids are not; once an
  expense was deleted no other is recorded. Every effect between sessions that the properties speak of
  needs one expense, and at most two categories or items. A request that
  stands at an insert with no id left (`OutOfIds`) is brought to a halt by the bound, not by the
  program; it is given up, and `Answered` asks an end of it as of every other. Names are two
  that differ in case and a third; quantities are 1, 2 and 0, which is refused. Each command set is what
  one question needs; sessions start from an empty database, so every row in a run was put there by a
  command of it. Two requests are every pairwise race; that a third cannot break isolation is proved,
  not run.
- `registration`: two ids are two accounts, which one email must not get; two defaults are the least
  that a seeding can do half of; three requests are the registration, a rival for the email or the
  signed-in owner, and another that overlaps both.
- `unit_seeding`: as before, two defaults. The typed codes are a default, one that both normalisations
  turn into a default, one that only the stored form does, and one that is no default. A code added in
  between is never deleted, so `units` grows to the four codes at most.
- `ledger_serial`: one reader, since readers change nothing another one sees. Its queries are the page,
  the one expense and the report; one writer puts every change between two of its statements.
- `listing`: with pages of two (`Limit`), three expenses are two pages, the total of the first is a sum
  of two, and a write can fall before, inside or after what was read. There is one edit, which moves, reprices and refiles an expense and
  drops its line at once, and two queries: a month with a loose date that must not count, and an open
  start with an end and a category. The dates are the last day of Pagumen (typed in either calendar),
  the day after, a Pagumen 6 that does not exist in 2018, and 0001-01-01, which has no Ethiopian date.
  The ceiling is 3 so that two purchases pass it. Deadlock is checked everywhere but in `calendar_walk`,
  which ends with its last day, and `fixed_expense_store`.

### Fairness

`FairSpec` of `Ledger` asks strong fairness of `statement(r)` for each request: a thread of the pool is
scheduled, the database answers it, and a statement that waits for a lock is granted it once its holder
ends, which PostgreSQL does in the order of a queue. Strong, because the statement is disabled while it
waits and may be so again and again. `FairSpec` of `UnitSeeding` asks the same of the statements of a
seeding and of a request. `Ledger` adds weak fairness of giving up a request that is out of ids, an
artefact of the bound: left standing, it would hold its uncommitted rows for ever, and others would wait
for them. Nothing else makes a request arrive (`begin`), a process start, or anything fail
(`crash`, `hiccup`, `fail`): what must end ends without their help.

## What is proved

TLAPS checks the eight proof modules for every value of the constants that satisfies their assumptions.

- `CalendarTheorems`, for the years of both calendars, and one result for fifteen centuries of them:
  - `EthiopianRoundTrip` and `GregorianRoundTrip`, by arithmetic: the day number in the four-year cycle
    is split in the code's quotients and remainders, each of them bounded, and the case of the leap day
    is the one quotient that reaches 4. `ConversionTheorem` is then an induction on days: a turned page
    is the next day (`TurnedIsTheNextDay`), and the date of a day is unique.
  - `ShiftsAddUp` (an index and a Period are the same thing, by division with remainder in either
    calendar), `MonthsTile` (the next Period begins the day after: within a year by the table of months,
    across one by the lemma on its length), `InOnePeriod` (the date of a day is the only one whose
    Period holds it) and `MonthsLaterExist`.
  - `WallStands` says that both pages of the wall show dates that exist, of the day it is. From it
    `WallTyped`, `PeriodsTile`, `MonthsLater` and `LabelsName`, of any window the assumptions allow,
    with exceptions. Two are at the beginning of the calendar. `MonthsLater` asks for a window that
    opens in year 3, since the property looks up to fourteen months back, where there may be no date to
    land on. `LabelsName` asks for thirty days after 1 Meskerem 1, since a Gregorian month before it has
    no Ethiopian date for its first day. A label is read by walking months in a row, from the one the
    Period starts in to the one it ends in, which are one, two or three (`InARow`); that these are the
    months it shares a day with is `MonthsTile`.
  - `CounterpartIsRight`: the counterpart of a Period shares more days with it than any other Period of
    its calendar, for every Period of 1001 to 2500; `CounterpartShares` is the invariant of the run, of
    any window from February 1001 to November 2500. The years are a hypothesis because outside them it
    is false (below). The two calendars drift apart by a day with every century that has no leap day
    (`Drift`), and in these years that is 8 to 18 days. Then an Ethiopian month begins in the first half
    of a Gregorian one or on its last two days, never in the middle (`MonthStarts`, one line of
    arithmetic for each month), so no Period is cut in two equal halves; and the month between, where
    there is one, is Pagumen and not February (`SharesDiffer`).
- `FixedExpenseTheorems`: the invariant `IInv` is the conjunction of `TypeOK`, `OneSettlementPerPeriod`,
  `SettlementsReachable` and `OneCurrency`, inductive as it is; one step of the proof for each
  operation. `Reported` follows from it state by state, and `Refinement` maps each operation to `Pay`,
  `Undo`, `Correct`, `Recommit` or a stutter. `AnchorOf` is any function: nothing in the aggregate
  depends on how months map, except the list of occurrences (`OneOccurrencePerMonth`).
- `FixedExpenseStoreTheorems`: `MonthsPaidOnce`, of the rows and whatever Units of Work overlap. The
  constraint is met when a Settlement is inserted; an UPDATE could still break it, if a session held a
  Settlement under another period than the row. `IInv` says that it cannot: an id has one period
  wherever it is held (`Agree`), and what a session adds is nobody else's. `StaysWhole` needs `WInv` on
  top of it: what a session holds is an aggregate the constructor accepts, and it is the row as it was
  loaded, with the session's own edits in it. A commit over an unchanged row then writes the aggregate
  whole; over a changed one it may tear it, which the history in the property excuses. That no payment
  outlives the commitment needs no excuse. `ChangesWhatWasAsked` follows each Settlement and each column
  from the load to the commit, which touches only where the two differ.
- `LedgerTheorems`, whose: `Isolation`. `OwnersStayApart` alone is not inductive: a commit could install
  what a session was wrong about. `IInv` adds that a session is `Tidy` (it holds only aggregates of its
  owner; what it loaded and still exists is still that owner's; its expenses point to what it loaded or
  added, or to where they pointed when they were loaded), that it is `Placed` (the aggregates its next
  statement uses are loaded), and that two sessions never hold one new id. The interesting steps are
  `insert` (a lemma shows that a new row keeps the session tidy) and `commit`: an UPDATE writes back the
  category and the item separately, so a re-filing may meet another's item line, and each of the two
  pointers is followed on its own; and the foreign keys make the target exist.
- `LedgerTheorems`, what: three invariants on top of that one, each with one lemma a statement:
  - `WellTyped` (`TypeOK`): `TInv` adds what each session holds and which use case has reached which
    statement (`Routed`), so that what a statement takes from its command is there.
  - `OneEach` (`OneItemPerName`): the constraint is on `name_key`, the property on names. `KInv` says
    that an item's key is its name's, in the rows and in every session, because nothing renames an item.
    (Of categories it is false: `ledger_torn_name`.)
  - `WritesWhatWasAsked` (`OnlyWhatWasAsked`): `AInv` says that a session differs from what it loaded in
    the columns its command names (`Within`), and deletes what it names. The commit then writes the
    columns in which the two differ, whatever the row says by now.
- `LedgerTheorems`, when: the properties overlapping requests break, and what prevents that. None of the
  three conditions is in the code. They are conditions on a behaviour, stated beside `Spec`.
  - `VersionsSuffice`: as long as no commit updates a row that changed since it was loaded
    (`NothingOverwritten`: what a version column would enforce), item lines are whole, keys follow names
    and no owner has two categories of one name. `SInv` says that the columns of an aggregate agree in
    the rows, in what a session loaded and in what it holds; with the condition a commit installs what
    the session holds (`UpdatingWhole`). Requests may still overlap in every other way.
  - `FreshReadsSuffice`: `FiledUnderLiveCategories` needs more. Under `NothingOverwritten` alone TLC
    finds a counterexample: a recording has loaded its category, another request archives it and
    commits, and the expense is inserted. No row was overwritten; one that was only read had changed.
    With `NothingStale`, which covers every row in hand, the property holds.
  - `TurnsSuffice`: requests one at a time, of any number and with crashes between statements, keep all
    four. This is what `ledger_serial` shows on an instance. The step is that a session which is alone
    finds the rows as it loaded them (`Current`), so `NothingStale` holds.
- `LedgerTheorems`, as a whole: `Ledger` refines `SpendingBook` (`CarriedOutWhole`), for any number of
  requests, under conditions that serial requests meet.
  - `FInv` adds `Draft` to `AInv`: what a session has done of its use case when it is at this statement.
    At the commit that is the whole of it: one new row as asked (`Opens`, `Records`), one row changed or
    marked (`Handles`, `Updates`), and nothing of the rest. It is inductive on its own, whatever requests
    overlap, since what others commit does not reach what a session holds.
  - `Outcome` is what such a commit makes of the rows when nothing it relies on is stale. From it each of
    the twelve commands is carried out on the book: the aggregates looked at are the rows (`LookedAt`,
    `HandledWhole`), a name that was free is free, because the constraint on keys held afterwards and a
    key is its name's (`NameWasFree`), and nothing is filed under what goes, because the foreign keys held
    (`GoneIsUnused`).
  - `FreshRequestsAreWhole` needs one condition more than `FreshReadsSuffice`. Under `NothingStale` alone
    TLC finds this, with two requests and the categories of `MCLedger` (`Filing`): a removal counts one
    expense of its category; another request re-files that expense and commits; the removal archives a
    category that nothing uses, although it says to "delete when nothing uses it" (`categories.py:107`).
    No row in hand had changed: a COUNT loads none. `NothingMiscounted` excludes it. Versions of rows are
    therefore not enough for use cases to be transactions; PostgreSQL's SERIALIZABLE would be, which
    watches what a COUNT has read. With both conditions TLC finds no counterexample for any of the three
    command sets of `MCLedger`, and the theorem says that there is none.
  - `TurnsAreWhole`: requests that take turns meet both (`Current`; `Settled`: what was counted is still
    so at the commit), and each is carried out whole, or not at all when it fails or the process dies.
- `ReadingTheorems`: `NamesStay` and `Finds`. A reader takes no step of the `Ledger` (`LedgerGoesOn`),
  so `TInv` and isolation hold beside it; `RInv` adds that the expenses in hand that nobody has
  overtaken still say what they said (`Unaltered`), so that the category and item they refer to are
  there and their owner's (`Referring`) when the next statement looks for them.
- `ListingTheorems`, for any number of expenses, queries and currencies, and any length of a page:
  - `ShownOnce` and `AllShown`. A statement that cuts a page out sees positions only, and the position
    of a row is the number of rows ahead of it. `LInv` says what the position tells: as long as nothing
    came in, what was shown is among the first `offset` rows (`Once`); as long as nothing left, what was
    not shown is behind them (`Through`). That deletions keep the first and insertions the second is a
    comparison of cardinalities.
  - `TotalsAgree`. What a page adds up to is a fold over a set. The
    section on sums proves what such a fold computes without a theorem of induction: if the law failed
    for some number of elements there would be a least one, and one element fewer would not fail
    (`EverySubset`). Hence a sum over two sets apart is the sum of their sums (`SumApart`), and `MInv`
    carries the totals from page to page.
  - `ReportsAgree` (`ReportsWhatIsListed`): the report's WHERE clause finds the rows that the list's finds
    and that have an item line, although the two clauses are written apart (`UsedIsListed`); a group is all that is listed of its item and unit
    (`GroupIsListed`); and no two groups give a line of the same (`LinesOfAUnit`).
  - `FiledOnce`: `InOnePeriod`, applied to the month filter. Its hypothesis is that any Period may be
    asked for (`Months = Period`); with fewer an expense can be in a month nobody can name.
- `RegistrationTheorems`: `UniqueAccounts`, `SeedingIsAtomic`, `NothingReactsToALostAccount`,
  `AnsweredMeansSeeded` and `TypeCorrect`, for any number of requests, any emails and any list of
  defaults. None of the invariants is inductive alone: the account a session is about to commit must
  still be new. `Steady` says of each session what its next statement relies on (a flushed account has
  an unused id and an email no account has; what a seeding has flushed are defaults of its owner; an
  answer comes after them), and `Apart` says of each two that their flushed accounts differ in id and
  email, which is what waiting for an uncommitted key is for: without the wait in `add` the step fails.
  `NobodyIsOverruled` (`PreferencesKept`) adds that a session about to commit preferences holds what it
  loaded, changed as asked (`AsAsked`); an account is written by two commits only (`WhoWrites`).
- `UnitSeedingTheorems`: `CodesUnique`, `SeedingWhole` and `ServesSeeded`, for any number of processes
  and requests. `IInv` says that a seeding has flushed the first defaults of the list, in order
  (`Shapes`), and that no code is flushed twice, nor flushed and committed (`Apart`); a commit joins two
  sequences of units (`CodesJoined`).

The assumptions are those the modules declare: tables have disjoint ids and `None` is none of them, nor
a row; every name has a key and every typed email an address; commands and queries are known operations,
and a command has the fields of its use case and no other (`commands.py:71-150`); typed dates exist in
the calendar they were typed in; the defaults are distinct; months are integers; a page has at least one
row; a window of days starts on the date, in both calendars, that it says.

No theorem, or none without a condition:

- `CounterpartSharesTheMostDays` of `CalendarWalk` is not true of every window, and `CounterpartShares`
  therefore says which. Where the months of a Period's first and last day have equally many of its
  days, neither has the most: the first such ties after 1900 are Meskerem 2496 of the Ethiopian calendar
  (fifteen days each of September and October 2503) and November 2603 of the Gregorian. Where a whole
  month lies between those two it may have the most, and `as_calendar` never looks at it: its docstring
  says that a Period "always straddles exactly two of the other" calendar (`period.py:187`). The
  Ethiopian month 6 of 892, 31 January to 1 March 900, is answered January, with which it shares one
  day. (A window of `CalendarWalk` that opens on 20 January 900, 20 Tir 892, shows it.)
- The two liveness properties, `Answered` and `ComesUp`, with the fairness above: out of the prover's
  reach.
- The other properties that some run finds violated: `ItemLinesWhole` and `CategoryNamesUnique` are
  proved under the conditions above, `AccountsHaveCategories` and `OneOccurrencePerMonth` have no such
  theorem.

## What is not modelled

Tokens and password hashes: two adapters over libraries, without state; what they compute is the
library's, and that a request comes from a committed owner is the guard of `begin` in `Registration`.
Routers and schemas beyond what they let through and what a response shows. CORS, the error handlers and
the landing page; the wording of dates, amounts and labels, and their parsing from text; migrations
(generated) and the reporting context (empty). Of what is modelled, `components` in PROJECT.json says
what is left out of each part. Operations no service calls are modelled where the aggregate is
(`FixedExpense`) and left out elsewhere (`Item.rename`, `UnitOfMeasurement.rename`,
`Owner.change_password`, `Owner.change_currency`).

## The plan

Done: the calendar kernel; the Fixed Monthly Expense, its book of payments and its rows; the use cases
on expenses, categories and items, the book they refine, and the requests that read them; registration;
units; listings, totals and reports in two currencies; the theorems above, which state every safety
property of the passing runs.

Next, in this order:

1. The calendar's ends: the years 1 and 9999, where a date of one calendar has none in the other.
2. A service for the Fixed Monthly Expense, when the application has one: its use cases over
   `FixedExpenseStore`.
