------------------------------- MODULE Store -------------------------------
(***************************************************************************)
(* The rows a request reads and writes, and the Unit of Work it does it    *)
(* in.  Every request has one session, kept by the tracking repositories:  *)
(* the rows it loaded, as it loaded them (`seen`), the aggregates built    *)
(* from them, as its use case left them (`now`), the rows it inserted and  *)
(* flushed (`new`) and the rows it will delete (`gone`).  A commit writes  *)
(* back only the columns in which `now` and `seen` differ.                 *)
(*                                                                         *)
(* PostgreSQL (external) runs at READ COMMITTED: a statement sees what is  *)
(* committed when it runs, a write that collides with another session's    *)
(* uncommitted insert waits for it, and the flush of a commit is one step  *)
(* with the commit, its locks being held until then.                       *)
(*                                                                         *)
(* Columns no property tells apart (Amharic name, colour, icon, amount,    *)
(* date, note, payment method, default unit) are left out, and so are the  *)
(* units, which no request changes after it read them.                     *)
(***************************************************************************)
EXTENDS Naturals

CONSTANTS Owners, Requests,
          CategoryIds, ItemIds, ExpenseIds,   \* the fresh ids there are to mint
          Names, KeyOf,                       \* KeyOf[name]: name.casefold()
          Quantities, Units,
          Commands,                           \* what the requests ask for
          None

Ids == CategoryIds \cup ItemIds \cup ExpenseIds

ASSUME IdAssumption == /\ CategoryIds \cap ItemIds = {}
                       /\ CategoryIds \cap ExpenseIds = {}
                       /\ ItemIds \cap ExpenseIds = {}
                       /\ None \notin Ids
ASSUME NameAssumption == DOMAIN KeyOf = Names

VARIABLES rows,      \* the committed rows, by id
          minted,    \* the ids of every row ever committed: uuids do not recur
          session    \* the session of each request

vars == <<rows, minted, session>>

Keys == {KeyOf[n] : n \in Names}

CategoryRow == [owner : Owners, name : Names, key : Keys, is_archived : BOOLEAN]

ItemRow == [owner : Owners, name : Names, key : Keys, is_archived : BOOLEAN]

ExpenseRow == [owner : Owners, category : CategoryIds, item : ItemIds \cup {None},
               quantity : Quantities \cup {None}, unit : Units \cup {None}]

NoRows == [id \in {} |-> None]

Idle == [cmd |-> None, pc |-> "idle", seen |-> NoRows, now |-> NoRows,
         new |-> {}, gone |-> {}, category |-> None, item |-> None]

Init == /\ rows = NoRows
        /\ minted = {}
        /\ session = [r \in Requests |-> Idle]
-----------------------------------------------------------------------------
\* g completes f on S; g overrides f on S.
Complete(f, S, g) == [i \in DOMAIN f \cup S |-> IF i \in DOMAIN f THEN f[i] ELSE g[i]]
Override(f, S, g) == [i \in DOMAIN f \cup S |-> IF i \in S THEN g[i] ELSE f[i]]

\* The use case of r goes on with session s.
Continue(r, s) == /\ session' = [session EXCEPT ![r] = s]
                  /\ UNCHANGED <<rows, minted>>

\* A mutant, as are the operators below whose name says what they get wrong.
End_LeavesOpen(r) == UNCHANGED vars

\* get_services: what raises is rolled back, and the session is closed.
End(r) == /\ session' = [session EXCEPT ![r] = Idle]
          /\ UNCHANGED <<rows, minted>>

OwnedBy_Anyone(owner, table) == table \cap DOMAIN rows

\* The WHERE clause of every owner-scoped SELECT.
OwnedBy(owner, table) == {id \in table \cap DOMAIN rows : rows[id].owner = owner}

\* How much, and in what unit: what an expense of an item must say.
measured(e) == e.quantity \notin {None, 0} /\ e.unit # None

\* What an Expense must satisfy to be built, from a request or from its row.
validate_item_line(e) ==
    IF e.item = None THEN e.quantity = None /\ e.unit = None ELSE measured(e)

\* CategoryMapper and ItemMapper.to_domain: an aggregate derives its
\* comparison_key from its name and never looks at the stored one.
to_domain(row) == IF "key" \in DOMAIN row THEN [row EXCEPT !.key = KeyOf[row.name]]
                  ELSE row

\* An id loaded before keeps its aggregate: one session, one object.
rehydrate(s, ids) ==
    [s EXCEPT !.seen = Complete(@, ids, rows),
              !.now  = Complete(@, ids, [id \in ids |-> to_domain(rows[id])])]

\* A use case changes an aggregate in memory.
Edit(s, id, row) == [s EXCEPT !.now = Override(@, {id}, [i \in {id} |-> row])]
-----------------------------------------------------------------------------
NamesUnique_CategoriesOnly(t) ==
    \A i, j \in CategoryIds \cap DOMAIN t :
        t[i].owner = t[j].owner /\ t[i].key = t[j].key => i = j

\* UNIQUE (owner_id, name_key), on categories and on items.
NamesUnique(t) ==
    \A table \in {CategoryIds, ItemIds} :
        \A i, j \in table \cap DOMAIN t :
            t[i].owner = t[j].owner /\ t[i].key = t[j].key => i = j

\* The foreign keys of expenses.
ReferencesExist(t) ==
    \A e \in ExpenseIds \cap DOMAIN t : /\ t[e].category \in DOMAIN t
                                        /\ t[e].item \in DOMAIN t \cup {None}

Constraints(t) == NamesUnique(t) /\ ReferencesExist(t)

Flushed(r, t) == Override(t, session[r].new, session[r].now)

\* Another session's flushed rows and t cannot both be committed.
Blocked(r, t) == \E q \in Requests \ {r} : ~Constraints(Flushed(q, t))

Fresh(ids) == ids \ (minted \cup UNION {session[q].new : q \in Requests})

Added(s, id, row) == [Edit(s, id, row) EXCEPT !.new = @ \cup {id}]

\* Insert and flush at once; the use case then goes on with session s.
insert(r, id, row, s) ==
    LET own == Override(Flushed(r, rows), {id}, [i \in {id} |-> row])
    IN IF ~Constraints(own) THEN End(r)
       ELSE ~Blocked(r, own) /\ Continue(r, s)

delete(s, id) == [s EXCEPT !.gone = @ \cup {id}]

update_model_EveryColumn(s, id) == s.now[id]

\* synchronise, for one row: the UPDATE names the columns that changed.
update_model(s, id) ==
    [c \in DOMAIN rows[id] |->
        IF s.now[id][c] = s.seen[id][c] THEN rows[id][c] ELSE s.now[id][c]]

Dirty(s) == {id \in DOMAIN s.seen \ s.gone : s.now[id] # s.seen[id]}

\* The rows as this session's flush leaves them.
Synchronised(s) ==
    [id \in (DOMAIN rows \cup s.new) \ s.gone |->
        IF id \in s.new THEN s.now[id]
        ELSE IF id \in Dirty(s) THEN update_model(s, id)
        ELSE rows[id]]

\* SqlAlchemyUnitOfWork.commit; an UPDATE of a row deleted meanwhile is stale.
commit(r) ==
    LET s == session[r]
        after == Synchronised(s)
    IN /\ session[r].pc = "commit"
       /\ IF ~(Dirty(s) \subseteq DOMAIN rows) \/ ~Constraints(after) THEN End(r)
          ELSE /\ ~Blocked(r, after)
               /\ rows' = after
               /\ minted' = minted \cup s.new
               /\ session' = [session EXCEPT ![r] = Idle]

\* The process dies, the connection drops or the use case raises.
crash(r) == session[r] # Idle /\ End(r)
=============================================================================
