------------------------- MODULE FixedExpenseStore -------------------------
(***************************************************************************)
(* One FixedExpense under Units of Work that overlap: each loads it, runs  *)
(* operations of the aggregate, and commits what its columns and its       *)
(* Settlements became.  A span is four columns, and an UPDATE names only   *)
(* those whose value this session changed; the Settlements are rows of     *)
(* their own, and come with a second SELECT.                               *)
(*                                                                         *)
(* PostgreSQL and SQLAlchemy (external): a statement sees what is          *)
(* committed; a flush updates, then inserts, then deletes, and is one step *)
(* with the commit; an UPDATE of a row that is gone fails, a DELETE of one *)
(* does not.  Callers name months of the Anchor Calendar.                  *)
(***************************************************************************)
EXTENDS Integers, FiniteSets, FiniteSetsExt

CONSTANTS Requests, SettlementIds,
          Anchor,          \* the Anchor Calendar
          Month, Money, Open,
          MaxEdits,        \* a bound: the operations of all Units of Work together
          None

C == INSTANCE Calendar

ASSUME BoundAssumption == MaxEdits \in Nat
ASSUME MonthAssumption == Month \subseteq Nat /\ Open \notin Int /\ None \notin Int

VARIABLES row,         \* of the commitment, None when it was removed
          children,    \* its Settlements, by id
          minted,
          session,
          stale        \* whether a session wrote to what it had read before
                       \* another session's commit: a history variable

vars == <<row, children, minted, session, stale>>

Columns == {"amount", "is_paused", "start_year", "start_month", "end_year", "end_month"}

Settlement == [period : Month, amount : Money]

MonthNumbers == 1..C!months_per_year(Anchor)

Row == [amount : Money, is_paused : BOOLEAN, start_year : Int, start_month : MonthNumbers,
        end_year : Int \cup {None}, end_month : MonthNumbers \cup {None}]

ASSUME NoneAssumption == None \notin Row

NoPayments == [id \in {} |-> None]

Idle == [pc |-> "idle", columns |-> None, seen |-> None, now |-> None,
         gone |-> FALSE, behind |-> FALSE, edits |-> 0, asked |-> {}]
-----------------------------------------------------------------------------
(* FixedExpenseMapper.                                                     *)

Year(end) == IF end = Open THEN None ELSE C!from_index(Anchor, end).year
MonthNumber(end) == IF end = Open THEN None ELSE C!from_index(Anchor, end).month

to_model(a) ==
    [amount |-> a.amount, is_paused |-> a.is_paused,
     start_year |-> Year(a.start), start_month |-> MonthNumber(a.start),
     end_year |-> Year(a.end), end_month |-> MonthNumber(a.end)]

Indexed(year, month) == C!index([calendar |-> Anchor, year |-> year, month |-> month])

\* An end with one of its two columns missing is no end.
to_domain(r, paid) ==
    [amount |-> r.amount, is_paused |-> r.is_paused,
     start |-> Indexed(r.start_year, r.start_month),
     end |-> IF None \in {r.end_year, r.end_month} THEN Open
             ELSE Indexed(r.end_year, r.end_month),
     paid |-> paid]

Scheduled == [amount : Money, is_paused : {FALSE}, start : Month, end : Month \cup {Open},
              paid : {NoPayments}]

PeriodRange(a) == a.end # Open => a.start <= a.end

\* The commitment was scheduled, and committed, before.
Init == /\ \E a \in Scheduled : PeriodRange(a) /\ row = to_model(a)
        /\ children = NoPayments
        /\ minted = {}
        /\ session = [r \in Requests |-> Idle]
        /\ stale = FALSE
-----------------------------------------------------------------------------
Continue(r, s) == /\ session' = [session EXCEPT ![r] = s]
                  /\ UNCHANGED <<row, children, minted, stale>>

InUse(r) == session[r].pc \in {"selectin", "open"}

\* A Unit of Work is used once.
Done(r) == [Idle EXCEPT !.pc = "done", !.edits = session[r].edits]

End(r) == Continue(r, Done(r))

\* SqlAlchemyFixedExpenseRepository.get: the row, and then what it has paid.
get(r) == /\ session[r].pc = "idle" /\ row # None
          /\ Continue(r, [Idle EXCEPT !.pc = "selectin", !.columns = row])

selectin(r) ==
    LET loaded == to_domain(session[r].columns, children)
    IN /\ session[r].pc = "selectin"
       /\ IF PeriodRange(loaded)
          THEN Continue(r, [session[r] EXCEPT !.pc = "open", !.seen = loaded, !.now = loaded])
          ELSE End(r)

\* The aggregate that session r holds.
Held(r) == INSTANCE FixedExpense
    WITH Named <- Month, AnchorOf <- [m \in Month |-> m], OtherMonths <- <<>>,
         Details <- {None}, details <- None,
         span <- [start |-> session[r].now.start, end |-> session[r].now.end],
         amount <- session[r].now.amount, is_paused <- session[r].now.is_paused,
         settlements <- {session[r].now.paid[id] : id \in DOMAIN session[r].now.paid}

Put(paid, id, s) == [i \in DOMAIN paid \cup {id} |-> IF i = id THEN s ELSE paid[i]]
Drop(paid, id)   == [i \in DOMAIN paid \ {id} |-> paid[i]]

Fresh == SettlementIds \ (minted \cup UNION {session[q].asked : q \in Requests})

\* What one operation may make of an aggregate, allowed or not.
Near(a) ==
    {[a EXCEPT !.start = m] : m \in Month} \cup {[a EXCEPT !.end = m] : m \in Month \cup {Open}}
    \cup {[a EXCEPT !.amount = m] : m \in Money} \cup {[a EXCEPT !.is_paused = ~@]}
    \cup {[a EXCEPT !.paid = Put(@, id, s)] : id \in Fresh, s \in Settlement}
    \cup {[a EXCEPT !.paid[id].amount = m] : id \in DOMAIN a.paid, m \in Money}
    \cup {[a EXCEPT !.paid = Drop(@, id)] : id \in DOMAIN a.paid}

Differences(a, b) ==
    {f \in DOMAIN a \ {"paid"} : a[f] # b[f]}
    \cup (DOMAIN a.paid \ DOMAIN b.paid) \cup (DOMAIN b.paid \ DOMAIN a.paid)
    \cup {id \in DOMAIN a.paid \cap DOMAIN b.paid : a.paid[id] # b.paid[id]}

Edits == MapThenSumSet(LAMBDA q : session[q].edits, Requests)

\* An operation of the aggregate, in memory.
edit(r) ==
    LET s == session[r]
    IN /\ s.pc = "open" /\ ~s.gone /\ Edits < MaxEdits
       /\ \E a \in Near(s.now) \ {s.now} :
             /\ Continue(r, [s EXCEPT !.now = a, !.edits = @ + 1,
                                      !.asked = @ \cup Differences(s.now, a)])
             /\ Held(r)!Next

\* SqlAlchemyFixedExpenseRepository.remove
remove(r) == /\ session[r].pc = "open" /\ ~session[r].gone
             /\ Continue(r, [session[r] EXCEPT !.gone = TRUE])
-----------------------------------------------------------------------------
Changed(s) == {c \in Columns : to_model(s.now)[c] # s.columns[c]}

\* A mutant, as are the operators below whose name says what they get wrong.
update_model_KeepsEnd(s) ==
    [c \in Columns |-> IF c \in Changed(s) /\ to_model(s.now)[c] # None
                       THEN to_model(s.now)[c] ELSE row[c]]

\* update_model: the UPDATE names the columns that changed.
update_model(s) == [c \in Columns |-> IF c \in Changed(s) THEN to_model(s.now)[c] ELSE row[c]]

Added(s)     == DOMAIN s.now.paid \ DOMAIN s.seen.paid
Removed(s)   == DOMAIN s.seen.paid \ DOMAIN s.now.paid
Corrected(s) == {id \in DOMAIN s.now.paid \cap DOMAIN s.seen.paid :
                    s.now.paid[id] # s.seen.paid[id]}

sync_settlements_AllOfThem(s) == s.now.paid

\* _sync_settlements, against the Settlements this session loaded.
sync_settlements(s) ==
    [id \in (DOMAIN children \ Removed(s)) \cup Added(s) |->
        IF id \in Added(s) \cup Corrected(s) THEN s.now.paid[id] ELSE children[id]]

OnePerPeriod_Unchecked(s) == TRUE

\* one_settlement_per_period, as the rows are inserted before others are deleted.
OnePerPeriod(s) ==
    \A id \in Added(s), other \in DOMAIN children \cup Added(s) :
        id # other =>
            s.now.paid[id].period # (IF other \in Added(s) THEN s.now.paid[other]
                                                         ELSE children[other]).period

\* The statements of the flush find the rows they need.
Finds(s) == /\ Changed(s) \cup Added(s) # {} => row # None
            /\ Corrected(s) \subseteq DOMAIN children

Writes(s) == s.gone \/ Changed(s) \cup Added(s) \cup Removed(s) \cup Corrected(s) # {}

commit(r) ==
    LET s == session[r]
    IN /\ s.pc = "open"
       /\ IF ~s.gone /\ ~(Finds(s) /\ OnePerPeriod(s)) THEN End(r)
          ELSE /\ row' = IF s.gone \/ row = None THEN None ELSE update_model(s)
               /\ children' = IF s.gone THEN NoPayments ELSE sync_settlements(s)
               /\ minted' = IF s.gone THEN minted ELSE minted \cup Added(s)
               /\ stale' = (stale \/ (s.behind /\ Writes(s)))
               /\ session' = [q \in Requests |->
                     IF q = r THEN Done(r)
                     ELSE [session[q] EXCEPT !.behind = @ \/ (Writes(s) /\ InUse(q))]]

\* The use case raises, or the process dies.
crash(r) == InUse(r) /\ End(r)

Next == \E r \in Requests : \/ get(r) \/ selectin(r) \/ edit(r) \/ remove(r)
                            \/ commit(r) \/ crash(r)

Spec == Init /\ [][Next]_vars
-----------------------------------------------------------------------------
\* A month is paid once, whoever paid it (models.py:155-159).
OneSettlementPerPeriod ==
    \A i, j \in DOMAIN children : children[i].period = children[j].period => i = j

Whole(a) == /\ PeriodRange(a)
            /\ \A id \in DOMAIN a.paid : /\ a.start <= a.paid[id].period
                                         /\ a.end # Open => a.paid[id].period <= a.end
                                         /\ a.paid[id].amount.currency = a.amount.currency

\* Units of Work that do not overlap, whatever each of them does, leave a
\* commitment the aggregate accepts, with every payment inside its span; and no
\* payment outlives the commitment, however they overlap (period_range.py:30-48,
\* fixed_expense.py:378-379, models.py:138-144).
WholeUnlessStale == IF row = None THEN children = NoPayments
                    ELSE ~stale => Whole(to_domain(row, children))

\* An end of which only one column was loaded: no end, and written back as none.
Halved(columns) == (columns.end_year = None) # (columns.end_month = None)

\* A commit changes of the commitment and of its payments only what its own
\* operations changed; above all, it takes no payment away that another Unit of
\* Work recorded meanwhile (mappers.py:231-251).
OnlyWhatWasAsked ==
    [][\A r \in Requests :
          /\ row # None /\ row' # None
          /\ session[r].pc = "open" /\ session'[r].pc = "done"
          => Differences(to_domain(row, children), to_domain(row, children)')
               \subseteq session[r].asked \cup (IF Halved(session[r].columns) THEN {"end"} ELSE {})]_vars
=============================================================================
